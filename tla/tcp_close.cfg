\* A connection that is accepted while Close sweeps, or a server that is
\* closed before Serve has set its listener.
SPECIFICATION Spec
CONSTANTS
    Conns <- MCConns
    MaxConnections = 2
CHECK_DEADLOCK FALSE
INVARIANT
    CloseIsFinal
