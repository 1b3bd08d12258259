\* One autoretrieve, contents may be deleted, one announcement may fail:
\* is a row the loop skips still advertised once the last content is gone?
CONSTANTS
    Nodes = {a1}
    BadAddr = {}
    BatchSize = 2
    MaxID = 3
    PinLag = FALSE
    SoftDelete = TRUE
    FaultKinds <- MCPutFaults
    MaxFaults = 1
    MaxFlaps = 0
SPECIFICATION Spec
INVARIANT MatchingRowIsAdvertised
