SPECIFICATION Spec
CONSTANTS
    NumBetas = 3
    PowBits = 1
    Interactions <- MCInteractions
    Shard <- MCShards
    ChipNames <- MCChipNames
    Width <- MCWidth
    RowVars = 3
    MaxLog = 4
    LogStacking = 3
    WellFormed = {"pv", "pv2"}
    MaxProofs = 2
    Stale <- MCStale
INVARIANTS
    TypeOK
    HonestAccepted
    SameSeams
    AcceptedIsProved
    BoundBeforeDrawn
    RaisesOnShapeOnly
