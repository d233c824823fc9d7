SPECIFICATION Spec
CONSTANTS
    FailTimes <- SomeFailTimes
    FtWhileFailed = TRUE
    MaxTime = 5
    MaxCmds = 2
INVARIANTS
    NoPanic
CHECK_DEADLOCK FALSE
