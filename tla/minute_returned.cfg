SPECIFICATION Spec
CONSTANTS
    LastYear = 1
    Days = 3
    Slots = 2
    Keep = 3
    Trading <- MCTrading
    Lists <- MCLists
    Failures <- MCFailures
    Configs <- MCNativeConfigs
PROPERTY ReturnedSpanOnly
CHECK_DEADLOCK FALSE
