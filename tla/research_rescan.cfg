\* Three attempts on one day: a retry that fails before it records its plan.
SPECIFICATION Spec
CONSTANTS
    a = a
    b = b
    Universe    <- MCUniverse
    ImportFiles <- MCImport
    Requests    <- NoRequests
    Inherited   <- NoInheritance
    MaxJobs      = 3
    JobsLimit    = 100
    MaxAttempts  = 3
    Breaker      = 2
    ErrorCap     = 1
    Cooldown     = 1
    SlotsPerDay  = 3
    ScheduleSlot = 0
    LastDay      = 0
    Weekdays     = {0}
    OpenDays     = {0}
PROPERTY
    RetriesOnlyOutstanding
