\* Two sessions of one year.
SPECIFICATION PullTradeSpec
CONSTANTS
    Year   <- MCYear
    BarsOf <- MCBarsOf
CHECK_DEADLOCK FALSE
INVARIANT PeriodFilesExact
