CONSTANTS
    Tasks = {t1, t2}
    Keys = {k1}
    GuestCalls = {"send"}
    NoRec = NoRec
    MaxBuffered = 2
    DedupWindow = 1
    IdleTtl = 0
    MaxCalls = 2
    MaxPosts = 2
    MaxDrops = 0
    MaxClock = 0
SPECIFICATION Spec
INVARIANTS
    FramesNeverLost
CHECK_DEADLOCK FALSE
