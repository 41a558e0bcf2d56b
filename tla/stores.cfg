\* Every store alone: archive of two files and three versions, two codes of two
\* exchanges, two stocks, three sessions, two markets with two stocks and a future
\* (one bar withdrawn or one code answered with nothing at a time), three dates of
\* history.
SPECIFICATION MCSpec
CONSTANTS
    a = a
    b = b
    Entries      = {"e1", "e2"}
    MaxVersion   = 3
    MaxTime      = 5
    CodeSet      = {"600", "900"}
    ExchangeOf   <- MCExchangeOf
    Names        = {"n", "renamed"}
    Dialects     = {"sqlite", "mysql"}
    MaxChanges   = 1
    StockList    <- MCStockList
    GbbqRetry    = 2
    MaxEvents    = 2
    Sessions     = {0, 1, 2}
    Units        = {"stock", "fut"}
    UnitCodes    <- MCUnitCodes
    StopIncluded = {"stock"}
    TradeDays    = {0, 1, 2}
    StartDay     = 0
    PullRetry    = 1
    MaxTrouble   = 1
    LastDate     = 3
    MaxValue     = 2
    PageLimit    = 1
    MaxRevision  = 4
SYMMETRY MCSymmetry
CHECK_DEADLOCK FALSE
INVARIANTS
    PackageWhole
    CodesMarkVouches
    GbbqMarkVouches
    CalendarWithoutGap
    IncrementExact
    PullMarkVouches
    HistoryPagesExact
