SPECIFICATION FairSpec
CONSTANTS
    Nodes = {n1}
    InvalidNodeId = none
    Ever = 20
    FarDelay = 10
    Delays = {1}
    TxTime = 1
    Durations = {0, 1}
    FailTimes = {}
    MaxTime = 1
    MaxStimuli = 1
    MaxEmits = 0
    MaxTimeouts = 1
    MaxExits = 1
PROPERTIES
    GoEnds
    StopEnds
    DisconnectedLeave
CHECK_DEADLOCK FALSE
