SPECIFICATION LockSpec
CONSTANTS
    p1 = p1
    p2 = p2
    p3 = p3
    p4 = p4
    Procs = {p1, p2, p3, p4}
    Running = {p1, p2}
    MaxAlive = 3
    PinsOpenFiles = FALSE
SYMMETRY ProcSymmetry
INVARIANTS MutualExclusion
CHECK_DEADLOCK FALSE
