SPECIFICATION FairSpec
CONSTANTS
    Keys = {k1, k2}
    Configs = {x, y}
    Consumers = {c1}
    MaxChans = 4
    Policies = {"abort", "drain"}
    MaxReconciles = 3
    None = None
INVARIANTS
    TreeMatchesGoal
    TokensFollowPolicy
PROPERTIES
    UnchangedUndisturbed
    ConsumersCatchUp
CHECK_DEADLOCK FALSE
