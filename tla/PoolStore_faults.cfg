SPECIFICATION BothSpec
CONSTANTS
    p1 = p1
    p2 = p2
    p3 = p3
    Procs = {p1, p2, p3}
    Running = {}
    MaxAlive = 1
    PinsOpenFiles = TRUE
    Daemons = {p1, p2, p3}
    DirOrder <- ThreeDirs
    Ids = {1, 2}
    Preloaded = 0
    MaxTasks = 2
    MaxStamp = 4
    MaxRefused = 2
    SharingFaults = FALSE
SYMMETRY LaterSymmetry
INVARIANTS StoreTypeOK TaskNeverDisappears RestartCleansPool MutualExclusion HolderOwnsFile
PROPERTIES ImplementsDurableStore
CHECK_DEADLOCK FALSE
