SPECIFICATION ChainsSpec
CONSTANTS
    None = None
    Undefined = Undefined
    Null = Null
    Nothing = Nothing
    \* DposElection
    p1 = p1
    p2 = p2
    p3 = p3
    v1 = v1
    v2 = v2
    Voters = {v1, v2}
    Producers = {p1, p2, p3}
    GenesisCandidates = {p1, p2}
    InitialMiners <- MCInitialMiners
    StakeAmounts = {1, 2}
    MaxStake = 2
    MaxVotes = 2
    MinCreator = 2
    MaxCreator = 2
    ReSelectionBlocks = 2
    UnbanBlocks = 3
    TimeOffsetToLastBlock = 3
    TimeBan = 3
    MaxBlocks = 5
    Steps = {1, 3}
    \* DposChain
    n1 = n1
    n2 = n2
    Nodes = {n1, n2}
    GenesisMiners <- MCGenesisMiners
    Lists <- MCLists
    BlockInterval = 2
    MaxBlockIntervalOffset = 1
    Early = 1
    MaxClock = 6
    Faults = 1
    \* ValueExecutor
    u1 = u1
    u2 = u2
    Users = {u1, u2}
    Coinbase = u2
    SysAddress = System
    PreBalance = 2
    Wages = {0, 1}
    Amounts = {0, 1, 2}
    MaxTransactions = 2
    MaxCalls = 2
    RollbackReplacesTree = FALSE
    \* DbftElection
    d1 = d1
    d2 = d2
    d3 = d3
    admin = admin
    other = other
    Order <- MCOrder
    GenesisValidators <- MCGenesisValidators
    SuperAdmin = admin
    Callers = {admin, other}
    MinWaitBlocksToMiner = 2
    MinValidator = 1
    MaxValidator = 2
    MaxView = 1
    MaxNumber = 4
    MaxLosses = 1
    Absent = Absent
    \* BlockRoutines
    m1 = m1
    m2 = m2
    m3 = m3
    w1 = w1
    Mining = {m1, m2, m3}
    Verifying = {w1}
    MaxFaults = 1
INVARIANTS VotesAddUp MinersInOffice MinersGoOn TurnsTaken CoinsKept ReceiptsHold ValidatorsKnown DifficultyAgreed RoutinesSettle
PROPERTIES BanHolds
CHECK_DEADLOCK FALSE
