\* One autoretrieve,
\* contents deleted and pinned late, reads and retractions may fail; under
\* the loop's and the indexer's fairness.
CONSTANTS
    Nodes = {a1}
    BadAddr = {}
    BatchSize = 2
    MaxID = 4
    PinLag = TRUE
    SoftDelete = TRUE
    FaultKinds <- MCReadRemoveFaults
    MaxFaults = 2
    MaxFlaps = 0
SPECIFICATION FairSpec
PROPERTY LedgerConverges
