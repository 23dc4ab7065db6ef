SPECIFICATION MonitorFairSpec
CONSTANTS
    Debounce = 0
    ClockMod = 2
    StatusPeriod = 2
INVARIANT NoChangeLost
PROPERTY Answered
CHECK_DEADLOCK TRUE
