SPECIFICATION Spec
CONSTANTS
    k1 = k1
    c1 = c1
    p1 = p1
    Candidate = {c1}
    Project = {p1, p2}
    Key = {k1}
    None = None
    KeyOf <- MCKeyOf
    LocalKey = {}
    PushId = {i1}
    MaxRevision = 5
    MaxScan = 1
    MaxExpiry = 1
    MaxCrash = 0
SYMMETRY Symmetry
CHECK_DEADLOCK FALSE
INVARIANTS
    BindingFollowsSelection
    TrackingIsAcknowledged
PROPERTIES
    RelinkLeavesNothingBehind
    ImplementsConsent
    AnswersAreFinal
