SPECIFICATION Spec
CONSTANTS
    Nodes = {n1, n2}
    InvalidNodeId = none
    Ever = 20
    FarDelay = 10
    Delays = {1}
    TxTime = 1
    Durations = {1}
    FailTimes = {}
    MaxTime = 1
    MaxStimuli = 0
    MaxEmits = 1
    MaxTimeouts = 1
    MaxExits = 0
PROPERTIES
    ImplementsVirtualTime
SYMMETRY NodeSymmetry
CHECK_DEADLOCK FALSE
