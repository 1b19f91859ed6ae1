CONSTANTS
    Nodes = {n1, n2}
    Ids = {1}
    Permits = {p1}
    NoRec = NoRec
    Skew <- MCSkew
    MaxSkew = 0
    LeaseSecs = 1
    MaxAttempts = 1
    MaxTries = 1
    MaxFires = 2
    MaxCreated = 1
    MaxFails = 0
    MaxFaulty = 1
    MaxClock = 2
SPECIFICATION FairSpec
PROPERTY
    NotResurrected
CHECK_DEADLOCK FALSE
