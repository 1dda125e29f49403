SPECIFICATION FairSpec
CONSTANTS
    GroupBits = 2
    Width = 5
    MaxFrame = 13
    None = None
    Invalid = Invalid
    Loads <- MCLoads
    MaxWindow = 4
    WsLoads <- MCWsLoads
    WsLimit = 2
    Unsafe = {"/", "|", " "}
    ChannelCap = 1
    Symbol <- MCSymbol
INVARIANTS
    InOrder
PROPERTIES
    FedIsSent
    CallsAreSettled
CHECK_DEADLOCK FALSE
