SPECIFICATION Spec
CONSTANTS
    Nodes = {n1}
    InvalidNodeId = none
    Ever = 20
    FarDelay = 10
    Delays = {1}
    TxTime = 1
    Durations = {2}
    FailTimes = {1}
    MaxTime = 2
    MaxStimuli = 1
    MaxEmits = 1
    MaxTimeouts = 1
    MaxExits = 1
INVARIANTS
    Inv
    SleepersAreQuiet
    WakeOnTime
CHECK_DEADLOCK FALSE
