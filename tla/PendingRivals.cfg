SPECIFICATION RivalsSpec
CONSTANTS
    p1 = p1
    p2 = p2
    Addresses = {p1, p2}
    Txs <- MCRivals
    GenesisBalance <- MCBalance
    ValueChain = TRUE
    FeeLimit = 3
    MaxPendingCount = 4
    TxLiveTime = 1
    RecordTime = 1
    MaxBlocks = 0
    MaxTime = 0
INVARIANTS QueueExecutable
CHECK_DEADLOCK FALSE
