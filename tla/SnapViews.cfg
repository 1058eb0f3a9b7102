SPECIFICATION Spec
CONSTANTS
    r1 = r1
    r2 = r2
    Readers = {r1, r2}
    Chain = Chain
    None = None
    Mork = TRUE
    ConfirmDepth = 1
    SharedMining = TRUE
    IOErrors = TRUE
    MaxHeight = 3
    MaxClosing = 1
    MaxCrashes = 1
SYMMETRY ReaderSymmetry
INVARIANTS TypeOK ReadableViews UsersCounted ViewComplete
CHECK_DEADLOCK FALSE
