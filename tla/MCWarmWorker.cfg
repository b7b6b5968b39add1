CONSTANTS
    Chain <- MCChain
    Threads = 2
    Kinds <- MCKinds
    Modes <- MCModes
    Seeds <- MCSeeds
    Settings <- MCSettings
SPECIFICATION FairSpec
INVARIANTS
    TypeOK
    KeysAreTheProves
    OthersStillWarm
    NothingExecutes
    ExitTellsTheTruth
PROPERTIES
    WorkerEnds
