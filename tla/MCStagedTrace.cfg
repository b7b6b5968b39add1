SPECIFICATION Spec
CONSTANT
    Sweeps <- MCProfiled
INVARIANT
    TraceSpansLastPass
