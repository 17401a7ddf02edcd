SPECIFICATION FairSlots
CONSTANTS
    Call = {r1, r2, r3, r4}
    MAX_CONCURRENCY = 1
    MAX_WAITERS = 2
    BACKEND_ATTEMPTS = 2
PROPERTIES
    FirstComeFirstServed
    ImplementsPool
    CallsEnd
