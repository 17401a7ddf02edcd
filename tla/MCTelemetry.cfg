SPECIFICATION MCSpec
CONSTANTS
    k1 = k1
    Candidate = {c1}
    Project = {p1}
    Key = {k1}
    None = None
    KeyOf <- MCKeyOf
    LocalKey = {}
    PushId = {i1}
    MaxRevision = 5
    MaxScan = 1
    MaxExpiry = 0
    MaxCrash = 1
    Commit = {h1}
    HookEvent = {e1}
    MaxControl = 1
    MaxFault = 1
CHECK_DEADLOCK FALSE
INVARIANTS
    TelemetryAgrees
PROPERTIES
    StopMeansQuiet
    QueueIsDurable
    RecordedIsDelivered
