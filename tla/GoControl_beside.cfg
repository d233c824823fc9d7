SPECIFICATION FairSpec
CONSTANTS
    Clients = {cli}
    AutoGo = auto
    Ops = {"go", "add"}
    Speeds = {1}
    MaxSpeed = 2
    InitAutoGo = TRUE
    MaxCmds = 4
PROPERTIES
    WaitsEnd
CHECK_DEADLOCK FALSE
