CONSTANTS
    Ids = {1, 2}
    None = None
    Groups = {g1}
    Workers = {w1, w2}
    Starts = {"earliest", "latest"}
    NackDelays = {1}
    LeaseMs = 1
    MaxBatch = 1
    MaxAttempts = 2
    Retention = 1
    Calls = {"publish", "claim", "ack", "nack", "bury", "redrive", "discard", "reset", "delete", "sweep", "pause", "elsewhere"}
    MaxCalls = 1
    MaxCrashes = 1
    MaxClock = 2
SPECIFICATION Spec
SYMMETRY MCSymmetry
CHECK_DEADLOCK FALSE
INVARIANTS
    TypeOK
    GroupCustody
    OneLease
PROPERTIES
    DeadLetterPinned
