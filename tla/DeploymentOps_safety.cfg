SPECIFICATION Spec
CONSTANTS
    Ops = {o1, o2}
    Images = {i1, i2}
    None = None
    ScaleArgs <- MCScaleArgs
    RollbackArgs <- MCRollbackArgs
    IntSpan = 8
    MaxTries = 2
    MaxReplicas = 2
    MaxRv = 5
SYMMETRY Symmetry
INVARIANTS
    TypeOK
    CopyFaithful
    AppliedOnce
    RestartObserved
    SuccessWritten
    PreviousFound
PROPERTIES
    NoLostUpdate
    ListedNumberHolds
