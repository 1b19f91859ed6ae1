CONSTANTS
    Ids = {1}
    NoRec = NoRec
    Workers = {w1, w2}
    Followers = {f1}
    Upgraded = {1}
    Modes <- MCPlain
    NackDelays = {0, 1}
    LeaseMs = 2
    MaxSkew = 1
    MaxBatch = 1
    MaxAttempts = 2
    Calls = {"publish", "claim", "ack", "nack", "discard", "redrive", "pause", "mark"}
    MaxCalls = 4
    MaxTries = 2
    MaxLate = 1
    MaxClock = 2
SYMMETRY MCSymmetry
SPECIFICATION Spec
CHECK_DEADLOCK FALSE
INVARIANTS
    TypeOK
    NothingLost
    MarkerCoversBacklog
    PayloadPresent
    AckedStaysGone
    OneHolder
    AttemptsCharged
PROPERTIES
    ImplementsQueue
