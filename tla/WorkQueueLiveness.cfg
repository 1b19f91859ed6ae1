CONSTANTS
    Ids = {1}
    NoRec = NoRec
    Workers = {w1}
    Modes <- MCPlain
    NackDelays = {0}
    LeaseMs = 1
    MaxBatch = 1
    MaxAttempts = 2
    Calls = {"publish", "claim", "ack", "nack", "bury", "rebuild", "redrive", "purge"}
    MaxCalls = 1
    MaxCrashes = 1
    MaxClock = 12
SPECIFICATION FairSpec
CHECK_DEADLOCK FALSE
INVARIANTS
    NothingLost
PROPERTIES
    Settled
