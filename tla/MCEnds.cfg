SPECIFICATION MCSpec
PROPERTIES
    NodesEnd
    HelpersEnd
    KeepsUp
    SendersGoOn
CHECK_DEADLOCK FALSE
