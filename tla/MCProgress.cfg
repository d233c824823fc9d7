SPECIFICATION MCSpec
CONSTANTS
    Clients = {cli}
    AutoGo = auto
    Ops = {"go", "ever", "speed", "add"}
    Speeds = {0, 1}
    MaxSpeed = 2
    InitAutoGo = FALSE
    MaxCmds = 3
INVARIANTS
    NoLostRequest
    
PROPERTIES
    WaitsEnd
    AutoGoFollows
    
    
CHECK_DEADLOCK FALSE
