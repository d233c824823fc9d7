SPECIFICATION Spec
CONSTANTS
    Nodes = {n1}
    InvalidNodeId = none
    Ever = 20
    FarDelay = 2
    Delays = {3}
    TxTime = 1
    Durations = {5}
    FailTimes = {}
    MaxTime = 5
    MaxStimuli = 0
    MaxEmits = 0
    MaxTimeouts = 0
    MaxExits = 0
INVARIANTS
    WakeOnTime
CHECK_DEADLOCK FALSE
