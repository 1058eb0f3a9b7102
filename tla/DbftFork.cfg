SPECIFICATION Spec
CONSTANTS
    n1 = n1
    n2 = n2
    n3 = n3
    Node = {n1, n2, n3}
    MinerLists <- MCLists3
    ReSelectionBlocks = 10
    AgreeRateNumerator = 2
    AgreeRateDenominator = 3
    Correct = {n1, n2, n3}
    Links <- Chain3
    ExecOutcomes = {TRUE}
    EarlyTimers = {FALSE}
    Laggards = {n1}
    MaxSkew = 0
    MaxCrashes = 0
    MaxLost = 0
    MaxHeight = 1
    MaxView = 1
    MaxTime = 4
INVARIANTS NoFork
CHECK_DEADLOCK FALSE
