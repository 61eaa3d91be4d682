SPECIFICATION DaemonSpec
CONSTANTS
    d1 = d1
    d2 = d2
    o1 = o1
    Daemons = {d1, d2}
    Onces = {o1}
    Mortal = {d1, o1}
    h1 = h1
    h2 = h2
    m1 = m1
    l1 = l1
    Critical = {}
    High = {h1, h2}
    Medium = {m1}
    Low = {l1}
    Admitted = {h2}
    Delivering = {h2}
    Migrated = {m1}
    Recurring = {h1, m1}
    Shared = {h2}
    Unready = {l1}
    Filed <- FilingOrder
    PicksPerCycle = 2
    RetryLimit = 2
    ReworkLimit = 1
    AgeLimit = 3
INVARIANTS OwnersTypeOK HolderIsNamed SelectionTypeOK MediumSuppressedBriefly
PROPERTIES TornLockStays OrphansReplaced UntouchedMediumServed
CHECK_DEADLOCK FALSE
