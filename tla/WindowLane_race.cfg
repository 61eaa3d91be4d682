SPECIFICATION LaneSpec
CONSTANTS
    gov = gov
    nim = nim
    Lanes = {gov, nim}
    Regions <- AllRegions
    Owners <- OwnerTable
    SharedPaths <- SharedTable
    Overriding = {nim}
    Starts <- DraftStarts
    Term = 1
    MaxTime = 0
    MaxToken = 3
INVARIANTS OneLanePerRegion
CHECK_DEADLOCK FALSE
