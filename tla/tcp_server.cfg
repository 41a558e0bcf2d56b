\* Three clients at a server with two connection slots, closed at any moment.
SPECIFICATION FairSpec
CONSTANTS
    Conns <- MCConns
    MaxConnections = 2
CHECK_DEADLOCK FALSE
INVARIANTS
    FoundAreFinished
PROPERTY
    CloseReturns
