\* One reachable autoretrieve and one whose address does not parse, objects
\* joined when the content is created,
\* reads and network calls may fail; under the loop's and the indexer's
\* fairness.
CONSTANTS
    Nodes = {a1, a2}
    BadAddr = {a2}
    BatchSize = 2
    MaxID = 5
    PinLag = FALSE
    SoftDelete = FALSE
    FaultKinds <- MCNoWriteFaults
    MaxFaults = 3
    MaxFlaps = 2
SPECIFICATION FairSpec
PROPERTY LedgerConverges
PROPERTY CatalogEventuallyIndexed
PROPERTY ImplementsLedger
