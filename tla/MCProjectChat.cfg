SPECIFICATION Spec
CONSTANTS
    Turn = {t1, t2}
    Action = {a1, a2}
    File = {f1, f2, f3}
    clients = clients
    latest = latest
    Path <- MCPath
    CANONICAL_PROJECT_AGENT_PATHS <- MCTwo
    None = None
    MAX_ACTIONS = 1
    MaxVersion = 3
SYMMETRY Symmetry
INVARIANTS LivePathsUnique AuditTrailIsExact FirstTransactionsProceed
PROPERTIES RemovedForGood ContextIsComplete
