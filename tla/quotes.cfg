\* Every part alone: two goroutines and one client in the pool, pages of two
\* bars, two callers and four message numbers, three days with two events each of
\* three kinds, two trades in a day, bars in years of two, all ranges of numbers.
SPECIFICATION MCSpec
CONSTANTS
    Clients       = {"c1", "c2"}
    Borrowers     = {"g1", "g2"}
    PoolSize      = 1
    Handlers      <- StdHandlers
    StockCount    = 2
    MaxBatch      = 1
    PageSize      = 2
    LastStart     = 2
    MaxBars       = 3
    MaxSeries     = 4
    Callers       = {"g1", "g2"}
    IdModulus     = 4
    MaxRequests   = 2
    Size          = 2
    Width         = 8
    CursorLimit   = 6
    MaxListed     = 5
    MaxGrowth     = 2
    LastDay       = 3
    PerDay        = 2
    MaxEvents     = 3
    Portions      = 2
    Events        <- MCEvents
    RawPrices     = {7, 12}
    Auction       = 1
    Open          = 3
    Noon          = 5
    Afternoon     = 7
    Close         = 9
    LastMinute    = 10
    TradePrices   = {0, 1, 2}
    TradeVolumes  = {1}
    MaxTrades     = 2
    LegacyCodes   = {"c"}
    LegacyRetry   = 2
    YearLength    = 2
    LegacyStart   = 1
    LastTime      = 8
    FileDays      = {1, 2}
    FileMinutes   = {1, 3, 4, 5}
    TailMinute    = 3
    PlaceMinute   = 4
    DayWidth      = 2
    Quotations    <- MCQuotations
    Fine          = 32768
    Precision     = 64
    Single        <- MCSingle
    Lot           = 2
    VolumeWidth   = 8
    MaxFileBars   = 3
    Heads         <- MCHeads
    ExShapes      = {"five", "HSI", "CES100", "mixed", "letters", "dotted", "contract"}
CHECK_DEADLOCK FALSE
INVARIANTS
    LentOnce
    OwnReply
    DownloadComplete
    AdjustComposes
    BarsConserve
    LegacyContiguous
    LocalRoundTrip
    CodesRoute
    AdjustedWhole
PROPERTY
    RequestsEnd
