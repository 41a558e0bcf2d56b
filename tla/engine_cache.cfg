\* Three files, three borrowers, a cache of two engines: evictions, borrowed
\* engines over the limit, and the close of the service at any moment.
SPECIFICATION FairSpec
CONSTANTS
    f1 = f1
    f2 = f2
    f3 = f3
    c1 = c1
    c2 = c2
    c3 = c3
    Files   <- MCFiles
    Callers <- MCCallers
    Limit      = 2
    MaxBorrows = 5
CHECK_DEADLOCK FALSE
INVARIANTS
    LentIsOpen
    OneEnginePerFile
    ClosedHoldsNothing
PROPERTY
    ClosedDrains
