SPECIFICATION Spec
CONSTANTS
    NumBetas = 3
    PowBits = 1
    Interactions <- MCInteractions
    Shard <- MCTall
    ChipNames <- MCChipNames
    Width <- MCWidth
    RowVars = 3
    MaxLog = 4
    LogStacking = 3
    WellFormed = {"pv", "pv2"}
    MaxProofs = 1
    Stale = {}
INVARIANTS
    HonestNotRejected
