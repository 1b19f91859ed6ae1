CONSTANTS
    d1 = d1
    d2 = d2
    b1 = b1
    b2 = b2
    s1 = s1
    a1 = a1
    Deployments = {d1, d2}
    Blobs = {b1, b2}
    Files <- MCFiles
    Sites = {s1}
    Aliases = {a1}
    SiteOf <- MCSiteOf
    None = None
    Options <- MCOptions
    MaxHistory = 2
    Clients = {c1, c2}
    MaxCalls = 3
    MaxPasses = 1
    MaxClock = 1
SPECIFICATION Spec
SYMMETRY MCSymmetry
CHECK_DEADLOCK FALSE
INVARIANTS
    TypeOK
    PinnedComplete
