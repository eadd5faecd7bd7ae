SPECIFICATION Spec
CONSTANTS
    Importer = {i1}
    MaxLayer = 3
    MaxEvent = 2
    MaxEntry = 2
    Content = {1}
    Batch = 2
    Starts <- UsedOrNot
    MaxTry = 2
    MaxCounter = 2
    MaxTrouble = 1
    Gated = TRUE
INVARIANTS
    StreamInv
    RestoreIsFaithful
    FailuresGiveBack
CHECK_DEADLOCK FALSE
