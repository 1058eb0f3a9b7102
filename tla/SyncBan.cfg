SPECIFICATION Spec
CONSTANTS
    p1 = p1
    p2 = p2
    a1 = a1
    a2 = a2
    a3 = a3
    a4 = a4
    b2 = b2
    Peers = {p1}
    NetworkName = NetworkName
    None = None
    Genesis = Genesis
    Blocks = {a1, a2, a3, a4}
    Parent <- MCParent
    Known <- MCKnownAll
    Invalid = {}
    InitBlockWnd = 1
    HeaderReqLimit = 2
    ConfirmDepth = 1
    InitialPeers = 1
    MaxFaults = 0
CHECK_DEADLOCK FALSE
INVARIANTS HonestNotBanned
