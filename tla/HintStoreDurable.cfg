SPECIFICATION HintSpec
CONSTANTS
    h1 = h1
    h2 = h2
    p1 = p1
    Hints <- MCHints
    Peers <- MCPeers
    PeerOf <- MCPeerOf
    Weight <- MCWeight
    MaxBytes = 2
    Durable = TRUE
    MaxCrashes = 2
    MaxFaults = 2
    Torn = torn
INVARIANTS
    StoreConsistent
    AppliedOnce
    NoHintMislaid
PROPERTIES
    HintsDrain
