\* Three concurrent calls on one connection that serves one request at a
\* time, with socket buffers of one frame.
SPECIFICATION FairSpec
CONSTANTS
    Calls <- MCCalls
    MaxInflight = 1
    Room        = 1
CHECK_DEADLOCK FALSE
INVARIANTS
    OwnAnswer
    PendingIsLive
PROPERTIES
    ReaderProceeds
    CallsReturn
