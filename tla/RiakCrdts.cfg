SPECIFICATION Spec
CONSTANTS
    n1 = n1
    n2 = n2
    n3 = n3
    e = e
    u1 = u1
    u2 = u2
    u3 = u3
    u4 = u4
    u5 = u5
    u6 = u6
    f1 = f1
    Nodes <- MCNodes
    Elements = {e}
    Updates <- MCUpdates
    OpOf <- MCOpOf
    Fetches = {f1}
    AtNode <- MCAtNode
    Types = {"counter", "set"}
    MaxDrops = 1
INVARIANTS
    NoDoubleCount
    AcceptedKept
    AddWins
    Converges
CHECK_DEADLOCK FALSE
