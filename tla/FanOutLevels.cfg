SPECIFICATION Spec
CONSTANTS
    Peers <- MCPeers
    DcOf <- MCDcOf
    RackOf <- MCRackOf
    Ring <- MCRing
    LocalDc = "dc1"
    LocalRack = "r0"
    Payloads <- MCVersions
    Removed <- MCRemoved
    Contents <- MCContents
    NVals <- MCNVals
    Workload <- MCWorkload
INVARIANTS
    OneAnswer
    LevelKept
    NoQuorumJustified
    ReplicasSpared
PROPERTIES
    
    RepairedReadIsFresh
