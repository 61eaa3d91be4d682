SPECIFICATION Spec
CONSTANTS
    t1 = t1
    t2 = t2
    Tasks = {t1}
    Clients = {w1, w2}
    Deps <- NoDeps
    Idle = {}
    MoveTargets <- WorkerMoves
    EditTargets = {}
    BlockTypes = {}
    FailTypes = {}
    Terms = {1}
    RetryLimit = 2
    MaxTime = 2
    MaxClaims = 2
    MaxRetries = 0
SYMMETRY Clients2
PROPERTIES LateResultRefused
CHECK_DEADLOCK FALSE
