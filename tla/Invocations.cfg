CONSTANTS
    Nodes = {n1, n2}
    Ids = {1}
    Permits = {p1}
    NoRec = NoRec
    Skew <- MCSkew
    MaxSkew = 1
    LeaseSecs = 2
    MaxAttempts = 1
    MaxTries = 1
    MaxFires = 1
    MaxCreated = 1
    MaxFails = 1
    MaxFaulty = 1
    MaxClock = 3
SPECIFICATION FairSpec
INVARIANTS
    TypeOK
    LeaseHolds
    OneLiveRun
PROPERTY
    OutcomeStays
    Settles
CHECK_DEADLOCK FALSE
