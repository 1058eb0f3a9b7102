SPECIFICATION Spec
CONSTANTS
    n1 = n1
    n2 = n2
    n3 = n3
    Node = {n1, n2, n3}
    MinerLists <- MCListsLeave
    ReSelectionBlocks = 1
    AgreeRateNumerator = 2
    AgreeRateDenominator = 3
    Correct = {n1, n2, n3}
    Links <- Star3
    ExecOutcomes = {TRUE}
    EarlyTimers = {FALSE}
    Laggards = {n2}
    MaxSkew = 0
    MaxCrashes = 1
    MaxLost = 1
    MaxHeight = 2
    MaxView = 1
    MaxTime = 3
INVARIANTS MinedBlocksVerify
PROPERTIES TreeSpec
CHECK_DEADLOCK FALSE
