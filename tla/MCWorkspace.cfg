SPECIFICATION MCSpec
CONSTANTS
    Text = {t1, t2}
    Empty = Empty
    Status = {"open", "completed"}
    Member = {m1}
    Slot = {o1, o2}
    None = None
    MaxSends = 2
    MaxEvents = 4
CHECK_DEADLOCK FALSE
INVARIANTS
    OneSubmission
    QuietPageIsExact
PROPERTIES
    ComposerIsTheClients
