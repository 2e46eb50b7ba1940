SPECIFICATION Spec
CONSTANTS
    n1 = n1
    n2 = n2
    n3 = n3
    Nodes <- MCNodes
    Shaky <- MCShaky
    Base = 1
    NsDilation = 1
    NsMax = 1
    MaxLost = 1
    MaxCrashes = 1
    MaxLate = 1
    MaxCalls = 1
INVARIANTS
    NoStaleAccusation
    RoutesOnlyToAlive
PROPERTIES
    DeadAreConfirmed
    LiveAreRestored
