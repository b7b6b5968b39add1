SPECIFICATION Spec
CONSTANT
    Sweeps <- MCUnproved
INVARIANT
    AllOkMeansProved
