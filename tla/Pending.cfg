SPECIFICATION PoolSpec
CONSTANTS
    p1 = p1
    p2 = p2
    Addresses = {p1, p2}
    Txs <- MCTxs
    GenesisBalance <- MCBalance
    ValueChain = TRUE
    FeeLimit = 3
    MaxPendingCount = 2
    TxLiveTime = 1
    RecordTime = 2
    MaxBlocks = 2
    MaxTime = 1
INVARIANTS TypeOK QueueExecutable NonceInMemory ReplacedStaysInPlace PoolBounded
PROPERTIES NothingVanishes
CHECK_DEADLOCK FALSE
