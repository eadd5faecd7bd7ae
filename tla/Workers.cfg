SPECIFICATION Spec
CONSTANTS
    Proc = {p1, p2, p3}
    Inv = {i1, i2}
    MaxCode = 2
    MaxPool = 2
    MaxAsk = 1
    Scenarios <- TightOrPushed
    None = None
INVARIANTS
    WorkersInv
    RepliesMatch
    NoStaleCode
PROPERTIES
    EveryInvocationEnds
CHECK_DEADLOCK FALSE
