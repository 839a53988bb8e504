CONSTANTS
    s1 = s1
    s2 = s2
    cfg = cfg
    e1 = e1
    e2 = e2
    None = None
    Sessions <- MCSessions
    Ports <- MCPorts
    CfgPort = cfg
    MaxDaemons = 3
    MaxFaults = 1
    MaxCmds = 1
    MaxOpens = 2
    MaxForeign = 1
SPECIFICATION Spec
INVARIANTS
    PidfileFaithful
    
    RestartedOnce
PROPERTIES
    Revived
    
CHECK_DEADLOCK FALSE
