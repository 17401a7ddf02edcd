SPECIFICATION FairSpec
CONSTANTS
    Request = {q1, q2, q3}
    CONCURRENCY = 2
    MaxFaults = 1
INVARIANTS
    SlotsCoverTheMachine
    OkIsGenuine
PROPERTIES
    RequestsEnd
