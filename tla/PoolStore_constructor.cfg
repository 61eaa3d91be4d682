SPECIFICATION StoreSpec
CONSTANTS
    p1 = p1
    p2 = p2
    Procs = {p1, p2}
    Running = {p1}
    MaxAlive = 2
    PinsOpenFiles = TRUE
    Daemons = {}
    DirOrder <- TwoDirs
    Ids = {1}
    Preloaded = 1
    MaxTasks = 1
    MaxStamp = 4
    MaxRefused = 1
    SharingFaults = FALSE
INVARIANTS TaskNeverDisappears
CHECK_DEADLOCK FALSE
