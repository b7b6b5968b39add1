SPECIFICATION Spec
CONSTANTS
    NShards = 5
    NGpus = 2
    GpusGiven = TRUE
    ChipSet <- MCChipSet
    Area <- MCArea
    Peak <- MCPeak
    FrontRank <- MCNoFront
    Rider = 1
    Budget = 8
    Jobs = 2
    Headroom = 1
    FreeGib <- MCReadings
    Unreadable = Unreadable
    ManifestInCache = TRUE
INVARIANTS
    SuccessMeansServed
