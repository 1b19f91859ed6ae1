CONSTANTS
    Ids = {1}
    NoRec = NoRec
    Workers = {w1, w2}
    Modes <- MCAllModes
    NackDelays = {0}
    LeaseMs = 1
    MaxBatch = 1
    MaxAttempts = 2
    Calls = {"publish", "claim", "ack", "nack", "note", "bury", "rebuild", "pause", "purge"}
    MaxCalls = 1
    MaxCrashes = 1
    MaxClock = 3
SPECIFICATION Spec
SYMMETRY MCSymmetry
CHECK_DEADLOCK FALSE
INVARIANTS
    NothingLost
    MarkerCoversBacklog
    PayloadPresent
    OneHolder
    AttemptsCharged
PROPERTIES
    ImplementsQueue
