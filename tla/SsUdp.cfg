SPECIFICATION FairSpec
CONSTANTS
    Sources = {s1, s2}
    Users = {u1}
    LinkCap = 2
    ReapCap = 1
    MaxPkts = 4
    MaxSessions = 3
    None = None
INVARIANTS
    RunningIsTabled
    SourceInOrder
PROPERTIES
    LoopReturns
    DeadIsReaped
CHECK_DEADLOCK FALSE
