\* Two reachable autoretrieves, objects joined when the content is created,
\* every call may fail: is every row the loop skips advertised, and does it
\* stand for indexed content?
CONSTANTS
    Nodes = {a1, a2}
    BadAddr = {}
    BatchSize = 2
    MaxID = 4
    PinLag = FALSE
    SoftDelete = FALSE
    FaultKinds <- MCAllFaults
    MaxFaults = 2
    MaxFlaps = 1
SPECIFICATION Spec
SYMMETRY MCSymmetry
INVARIANT TypeOK
INVARIANT MatchingRowIsAdvertised
INVARIANT MatchingRowIsIndexed
PROPERTY RowsNeverShrink
