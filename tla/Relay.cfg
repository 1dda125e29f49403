SPECIFICATION FairSpec
CONSTANTS
    Flows <- ThreeFlows
    Capacity = 1
    SockCap = 1
PROPERTIES
    ImplementsPipe
    IdleEndsRelay
    NoOrphanRelay
CHECK_DEADLOCK FALSE
