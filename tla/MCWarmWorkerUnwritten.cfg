CONSTANTS
    Chain <- MCChain
    Threads = 2
    Kinds <- MCKinds
    Modes <- MCModes
    Seeds <- MCSeeds
    Settings <- MCDefaults
SPECIFICATION Spec
INVARIANT
    SuccessMeansCached
