SPECIFICATION PartsSpec
CONSTANTS
    Values = {v1, v2}
    Fields = {f1, f2}
    Default = Default
    Undefined = Undefined
    NoTransaction = NoTransaction
    MaxLen = 3
    KeepHandles = FALSE
    g = g
    a1 = a1
    a2 = a2
    b1 = b1
    b2 = b2
    x = x
    y = y
    Blocks = {g, a1, a2, b1, b2}
    Genesis = g
    Parent <- MCParent
    Txs <- MCTxs
    Invalid = {b2}
    None = None
    MaxFaults = 1
    MaxCount = 3
    MaxNodes = 5
    MaxUses = 5
    Null = Null
    Nodes = {n1, n2, n3}
    RandomNodes = {n1}
    StaticPeers = {n1, n2, n3}
    MinOutbound = 2
    Validators = {n1, n2}
    MinConnections = 1
    Bans = {1, Forever}
    Forever = Forever
    NotBanned = NotBanned
    Times = {1, 2}
    MaxDials = 3
    MaxTime = 1
    MaxBreaks = 1
    HeaderLength = 2
    Packages <- MCPackages
INVARIANTS EnginesAgree BestViewsAgree CacheNotAhead NoThrow ConnectionsAgree PackagesInOrder
PROPERTIES AddEnds BannedOut
CHECK_DEADLOCK FALSE
