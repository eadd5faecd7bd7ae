\* Client transactions in seven small worlds (MCTransactions.tla).
SPECIFICATION Spec
CONSTANTS
    Scenarios <- Worlds
INVARIANTS
    TxInv
PROPERTIES
    ReadsStillTrue
    NothingDangles
    NothingReused
    FateIsTold
    ReapedWereIdle
CHECK_DEADLOCK FALSE
