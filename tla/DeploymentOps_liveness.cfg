SPECIFICATION FairSpec
CONSTANTS
    Ops = {o1, o2}
    Images = {i1, i2}
    None = None
    ScaleArgs = {0, 1}
    RollbackArgs = {0}
    IntSpan = 8
    MaxTries = 2
    MaxReplicas = 1
    MaxRv = 3
PROPERTIES
    Returns
