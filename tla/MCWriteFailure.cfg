\* One autoretrieve; only ledger writes fail, once.
CONSTANTS
    Nodes = {a1}
    BadAddr = {}
    BatchSize = 2
    MaxID = 3
    PinLag = FALSE
    SoftDelete = FALSE
    FaultKinds <- MCWriteFaults
    MaxFaults = 1
    MaxFlaps = 0
SPECIFICATION FairSpec
PROPERTY CatalogEventuallyIndexed
