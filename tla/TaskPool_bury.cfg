SPECIFICATION Spec
CONSTANTS
    t1 = t1
    t2 = t2
    Tasks = {t1}
    Clients = {w1, w2}
    Deps <- NoDeps
    Idle = {t1}
    MoveTargets <- WorkerMoves
    EditTargets = {"review"}
    BlockTypes = {"manual_gate_blocked"}
    FailTypes = {}
    Terms = {1}
    RetryLimit = 2
    MaxTime = 2
    MaxClaims = 2
    MaxRetries = 0
SYMMETRY Clients2
PROPERTIES SweepSparesLiveLease
CHECK_DEADLOCK FALSE
