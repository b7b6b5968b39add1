SPECIFICATION Spec
CONSTANTS
    NShards = 5
    NGpus = 1
    GpusGiven = FALSE
    ChipSet <- MCChipSet
    Area <- MCArea
    Peak <- MCPeak
    FrontRank <- MCFront
    Rider = 1
    Budget = 8
    Jobs = 3
    Headroom = 1
    FreeGib <- MCReadings
    Unreadable = Unreadable
    ManifestInCache = TRUE
INVARIANTS
    FrontShardsLead
