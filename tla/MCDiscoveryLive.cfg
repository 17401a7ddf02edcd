SPECIFICATION MCLiveSpec
CONSTANTS
    k1 = k1
    c1 = c1
    p1 = p1
    Candidate = {c1, c2}
    Project = {p1, p2}
    Key = {k1}
    None = None
    KeyOf <- MCKeyOf
    LocalKey = {}
    PushId = {}
    MaxRevision = 6
    MaxScan = 2
    MaxExpiry = 0
    MaxCrash = 1
CHECK_DEADLOCK FALSE
PROPERTIES
    WorkSettles
    WithdrawnForOwnDecision
