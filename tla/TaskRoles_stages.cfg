SPECIFICATION FairRolesSpec
CONSTANTS
    t1 = t1
    t2 = t2
    t3 = t3
    Queue <- ThreeTasks
    Fickle = {}
    Declared = {t1, t3}
    External = {t3}
    HasWorker = TRUE
    Unreceipted = {t1}
    Outdated = {t3}
    Hopeless = {t1}
    Quota = 1
    ReviewLimit = 3
    StageLimit = 2
    Enough = 1
    MaxUnchanged = 2
    MaxEvidence = 1
    Indexed = TRUE
    MaxCrashes = 1
    MaxReopens = 1
INVARIANTS  ReworkIsBounded TerminalStaysOut ArchivedIsRemembered
PROPERTIES TasksAreDecided 
CHECK_DEADLOCK FALSE
