\* One autoretrieve, no failures, obj_refs written after the content row.
CONSTANTS
    Nodes = {a1}
    BadAddr = {}
    BatchSize = 2
    MaxID = 3
    PinLag = TRUE
    SoftDelete = FALSE
    FaultKinds <- MCNoFaults
    MaxFaults = 0
    MaxFlaps = 0
SPECIFICATION Spec
INVARIANT MatchingRowIsIndexed
