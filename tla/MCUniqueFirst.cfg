\* Two reachable autoretrieves, no failures at all: does every one of
\* them get its published_batches rows?
CONSTANTS
    Nodes = {a1, a2}
    BadAddr = {}
    BatchSize = 2
    MaxID = 3
    PinLag = FALSE
    SoftDelete = FALSE
    FaultKinds <- MCNoFaults
    MaxFaults = 0
    MaxFlaps = 0
SPECIFICATION FairSpec
PROPERTY LedgerConverges
