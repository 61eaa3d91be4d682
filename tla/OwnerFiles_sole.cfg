SPECIFICATION OwnersSpec
CONSTANTS
    d1 = d1
    d2 = d2
    o1 = o1
    Daemons = {d1, d2}
    Onces = {o1}
    Mortal = {}
INVARIANTS OneDaemon
CHECK_DEADLOCK FALSE
