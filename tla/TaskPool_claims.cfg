SPECIFICATION Spec
CONSTANTS
    t1 = t1
    t2 = t2
    Tasks = {t1}
    Clients = {w1, w2}
    Deps <- NoDeps
    Idle = {t1}
    MoveTargets = {"pending", "review", "approved"}
    EditTargets = {}
    BlockTypes = {}
    FailTypes = {"manual_gate"}
    Terms = {1}
    RetryLimit = 2
    MaxTime = 2
    MaxClaims = 2
    MaxRetries = 1
SYMMETRY Clients2
INVARIANTS TypeOK ActiveIsLeased NewestClaimHoldsTask
PROPERTIES ImplementsLeaseService LiveLeaseNotTaken TokenMonotoneWhileClaimed TransitionsAreAllowed
CHECK_DEADLOCK FALSE
