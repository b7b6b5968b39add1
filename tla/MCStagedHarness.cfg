SPECIFICATION FairSpec
CONSTANT
    Sweeps <- MCSweeps
INVARIANTS
    TypeOK
    StageAlone
    FailFast
    VerdictIsOwn
    RidersCompileNothing
PROPERTIES
    ProvesAsComposite
    SweepEnds
