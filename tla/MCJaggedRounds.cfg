CONSTANTS
    Cols <- MCCols
    Constrained = {1, 3}
    NumVars = 4
    ShrinkRounds = 3
    Shards <- MCShards
    Plans <- MCPlans
SPECIFICATION Spec
INVARIANTS
    TypeOK
    PackedStateIsExact
    AreaWithinCap
PROPERTY
    ImplementsFold
