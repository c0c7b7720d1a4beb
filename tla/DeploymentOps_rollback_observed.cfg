SPECIFICATION Spec
CONSTANTS
    Ops = {o1}
    Images = {i1, i2}
    None = None
    ScaleArgs <- MCScaleArgs
    RollbackArgs <- MCRollbackArgs
    IntSpan = 8
    MaxTries = 5
    MaxReplicas = 2
    MaxRv = 5
INVARIANTS
    RollbackObserved
