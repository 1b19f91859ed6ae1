CONSTANTS
    Tasks = {t1, t2}
    Keys = {k1, k2}
    GuestCalls = {"send", "checkpoint", "close"}
    NoRec = NoRec
    MaxBuffered = 2
    DedupWindow = 1
    IdleTtl = 0
    MaxCalls = 2
    MaxPosts = 2
    MaxDrops = 1
    MaxClock = 1
SPECIFICATION Spec
SYMMETRY MCSymmetry
INVARIANTS
    TypeOK
    BufferExact
    DedupRan
    KeptUnlessClobbered
CHECK_DEADLOCK FALSE
