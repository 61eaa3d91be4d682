SPECIFICATION FilesSpec
CONSTANTS
    gov = gov
    nim = nim
    Lanes = {gov, nim}
    Regions <- AllRegions
    Owners <- OwnerTable
    SharedPaths <- SharedTable
    Overriding = {nim}
    Starts <- MixedStarts
    Term = 1
    MaxTime = 2
    MaxToken = 2
    p1 = p1
    p2 = p2
    p3 = p3
    Procs = {p1, p2, p3}
    h1 = h1
    u1 = u1
    Holders = {h1}
    Users = {h1, u1}
    Modes = {"shadow", "enforce"}
    MaxHolds = 2
    MaxFailures = 1
    MaxBumps = 2
INVARIANTS
    LaneTypeOK TableExclusive OneLaneUntilAstray RefusedStartHoldsNothing
    AtMostOneRun
    LedgerReconciles ValuesAreExplained OpenHoldsAreOvertaken
PROPERTIES LiveClaimKept CompletedIsFinal OwnerAtWorkNotAlarmed
CHECK_DEADLOCK FALSE
