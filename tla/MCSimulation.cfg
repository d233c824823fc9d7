SPECIFICATION MCSpec
INVARIANTS
    NodesAgree
    
    ChecksumRight
PROPERTIES
    HostsServe
    KpiExact
CHECK_DEADLOCK FALSE
