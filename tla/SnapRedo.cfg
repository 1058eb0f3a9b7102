SPECIFICATION Spec
CONSTANTS
    r1 = r1
    r2 = r2
    Readers = {r1}
    Chain = Chain
    None = None
    Mork = FALSE
    ConfirmDepth = 1
    SharedMining = FALSE
    IOErrors = FALSE
    MaxHeight = 3
    MaxClosing = 1
    MaxCrashes = 0
INVARIANTS ViewExact
CHECK_DEADLOCK FALSE
