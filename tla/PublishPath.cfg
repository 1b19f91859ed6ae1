CONSTANTS
    Publishers = {p1, p2}
    Ids = {1, 2}
    Topics = {"a", "b"}
    Requests = {{"a"}, {"a", "b"}}
    Policies <- MCPolicies
    Unset = Unset
    Miss = Miss
    DefaultBudget = 0
    GroupMax = 2
    MaxEvents = 1
SPECIFICATION FairSpec
CHECK_DEADLOCK FALSE
INVARIANTS
    TypeOK
    NeverStranded
    AckKept
    LossWithinBudget
    DepthHolds
PROPERTIES
    Returns
