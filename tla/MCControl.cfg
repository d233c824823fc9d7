SPECIFICATION MCSpec
CONSTANTS
    FailTimes <- SomeFailTimes
    FtWhileFailed = FALSE
    MaxTime = 16
    MaxCmds = 2
INVARIANTS
    WindowsOnTime
    NoDrift
    NothingLeft
    
    SendsExact

    
CHECK_DEADLOCK FALSE
