SPECIFICATION FairSpec
CONSTANTS
    Conns = {c1, c2}
    Tables <- MCTables
    AuthIds <- MCAuthIds
    Permits = 1
    ActiveMax = 1
    SeenMax = 2
    Window = 1
    MaxNow = 2
    MaxSwaps = 1
    None = None
INVARIANTS
    RightUser
    OnceWithinWindow
PROPERTIES
    PermitsReturn
CHECK_DEADLOCK FALSE
