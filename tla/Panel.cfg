SPECIFICATION FairSpec
CONSTANTS
    Only = "all"
    Sites <- MCSites
    Etags <- MCEtags
    Bodies <- MCBodies
    Lists <- MCLists
    Confs <- MCConfs
    UserLists <- MCUserLists
    NeedsPort <- PortIsUsers
    NodeOf <- ParseNode
    UsersOf <- ParseUsers
    Builds <- Buildable
    Port <- NodePort
    Tag <- NodeTag
    Tags <- MCTags
    W16 = 2
    W32 = 4
    Ciphers <- MCCiphers
    MaxChanges = 3
    MaxFaults = 1
    None = None
INVARIANTS
    ViewMatchesHandler
    NoLeakedInbound
    ServedAsTold
PROPERTIES
    ConvergesOrStuck
CHECK_DEADLOCK FALSE
