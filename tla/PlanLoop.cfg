CONSTANTS
    Ids = {1, 2, 3}
    NoRec = NoRec
    SmallRecords <- MCSmallRecords
    Nows = {1}
    Batches = {0, 1, 2}
    MaxAttempts = 2
    LeaseMs = 1
SPECIFICATION Spec
CHECK_DEADLOCK FALSE
INVARIANTS
    PlanAgrees
    NoOvertaking
