SPECIFICATION FairSpec
CONSTANTS
    t1 = t1
    t2 = t2
    Tasks = {t1, t2}
    Clients = {w1}
    Deps <- Chain
    Idle = {}
    MoveTargets = {"review", "approved", "archived"}
    EditTargets = {"review"}
    BlockTypes = {"dependency_blocked"}
    FailTypes = {"retryable"}
    Terms = {1}
    RetryLimit = 2
    MaxTime = 1
    MaxClaims = 1
    MaxRetries = 1
PROPERTIES ExpiredLeaseRecovered ReadyDependentReleased
CHECK_DEADLOCK FALSE
