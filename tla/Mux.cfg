SPECIFICATION FairSpec
CONSTANTS
    Sids = {1, 2}
    MaxSubs = 2
    MaxWire = 1
    Loads <- MCLoads
    LinkCap = 1
    OutCap = 1
    DuplexCap = 1
    None = None
INVARIANTS
    SubflowInOrder
PROPERTIES
    CloseEndsServe
    EndIsAnnounced
CHECK_DEADLOCK FALSE
