SPECIFICATION FairSpec
CONSTANTS
    n1 = n1
    n2 = n2
    n3 = n3
    Node = {n1, n2, n3}
    MinerLists <- MCLists3
    ReSelectionBlocks = 10
    AgreeRateNumerator = 2
    AgreeRateDenominator = 3
    Correct = {n2, n3}
    Links <- FullMesh
    ExecOutcomes = {TRUE}
    EarlyTimers = {TRUE, FALSE}
    Laggards = {}
    MaxSkew = 0
    MaxCrashes = 0
    MaxLost = 0
    MaxHeight = 3
    MaxView = 1
    MaxTime = 16
PROPERTIES BlocksGetMined
CHECK_DEADLOCK FALSE
