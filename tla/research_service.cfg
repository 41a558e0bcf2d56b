\* One symbol, requests and imports of a file beside the scheduler, an open day
\* and a closed one.
SPECIFICATION Spec
CONSTANTS
    a = a
    b = b
    Universe    <- OneSymbol
    ImportFiles <- MCImport
    Requests    <- AnyRequest
    Inherited   <- NoInheritance
    MaxJobs      = 2
    JobsLimit    = 100
    MaxAttempts  = 2
    Breaker      = 2
    ErrorCap     = 1
    Cooldown     = 1
    SlotsPerDay  = 2
    ScheduleSlot = 1
    LastDay      = 1
    Weekdays     = {0, 1}
    OpenDays     = {0}
INVARIANTS
    SingleWriter
    SessionDaysOnly
    VerdictHonest
