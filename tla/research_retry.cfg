\* Two symbols, one open day of three slots, retries, crashes, restarts and
\* every record an older release may have left.
SPECIFICATION FairSpec
CONSTANTS
    a = a
    b = b
    Universe    <- MCUniverse
    ImportFiles <- MCImport
    Requests    <- NoRequests
    Inherited   <- OldRelease
    MaxJobs      = 3
    JobsLimit    = 100
    MaxAttempts  = 2
    Breaker      = 2
    ErrorCap     = 1
    Cooldown     = 1
    SlotsPerDay  = 3
    ScheduleSlot = 0
    LastDay      = 0
    Weekdays     = {0}
    OpenDays     = {0}
INVARIANTS
    AttemptsBounded
    AttemptsSpaced
    NothingDropped
    VerdictHonest
    LegacyRetryExact
PROPERTIES
    ImplementsDailyPlan
    WriterReleased
