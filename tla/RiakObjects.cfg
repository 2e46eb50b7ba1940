SPECIFICATION ObjectSpec
CONSTANTS
    g1 = g1
    d1 = d1
    Nodes <- MCNodes
    Replicas <- MCReplicas
    DurableNodes <- MCDurableNodes
    Puts = {1, 2}
    Gets = {g1}
    Dels = {d1}
    W = 2
    PW = 0
    DW = 2
    R = 2
    PR = 0
    AllowMult = {TRUE, FALSE}
    Coordinates <- MCCoordinates
    MaxOps = 3
    MaxErrors = 1
    MaxSilent = 1
INVARIANTS
    Frontier
    QuorumCovered
    ReadYourQuorum
    RepairConverges
CHECK_DEADLOCK FALSE
