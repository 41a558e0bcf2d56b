SPECIFICATION Spec
CONSTANTS
    LastYear = 1
    Days = 3
    Slots = 2
    Keep = 2
    Trading <- MCTrading
    Lists <- MCLists
    Failures <- MCFailures
    Configs <- MCConfigs
INVARIANTS MarkVouches ScanVouches
PROPERTY LosesAtMostNewest
CHECK_DEADLOCK FALSE
