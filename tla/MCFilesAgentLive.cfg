SPECIFICATION FairSpec
CONSTANTS
    User = {u1}
    Code = {c1}
    Event = {e1}
    Mint = {m1}
    Exchange = {x1}
    Ingest = {i1}
    Persist = {p1}
    Wipe = {w1}
    s1 = s1
    Server = {s1}
    server <- MCServer
    POOL_MAX = 5
    ENROLLMENT_RATE_PER_HOUR = 2
    DEVICE_LIMIT_PER_USER = 1
    BatchLimit = 1
    FirstPause = "0"
    MaxCrash = 1
    None = None
PROPERTIES
    FullWipeCleans
