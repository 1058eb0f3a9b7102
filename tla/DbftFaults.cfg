SPECIFICATION Spec
CONSTANTS
    n1 = n1
    n2 = n2
    n3 = n3
    Node = {n1, n2, n3}
    MinerLists <- MCLists3
    ReSelectionBlocks = 10
    AgreeRateNumerator = 2
    AgreeRateDenominator = 3
    Correct = {n1, n2}
    Links <- FullMesh
    ExecOutcomes = {TRUE, FALSE}
    EarlyTimers = {TRUE, FALSE}
    Laggards = {n1, n2}
    MaxSkew = 1
    MaxCrashes = 1
    MaxLost = 1
    MaxHeight = 1
    MaxView = 1
    MaxTime = 4
INVARIANTS TypeOK OneProposalPerView TimerArmed
CHECK_DEADLOCK FALSE
