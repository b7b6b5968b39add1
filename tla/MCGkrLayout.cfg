CONSTANTS
    Width <- MCWidth
    Prep <- MCPrep
    Manifest <- MCManifest
    NumRowVariables = 3
    LogStacking = 2
    RowStacking = 16
    Classes <- MCClasses
    Shards <- MCShards
    ChunkCells = 4
SPECIFICATION Spec
INVARIANTS
    TypeOK
    LayoutIsTight
    LayerIsExact
    PyramidFits
    OpenIsExact
