CONSTANTS
    Radix = 3
    Width = 2
    MaxContent = 10
    p1 = p1
    p2 = p2
    Peers = {p1, p2}
    PeerCode <- MCPeerCode
SPECIFICATION Spec
INVARIANT EveryBatchRoundTrips
