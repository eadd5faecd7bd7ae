SPECIFICATION Spec
CONSTANTS
    Source = {"a", "b"}
    Derived = {"c", "d", "e"}
    Reads <- DiamondReads
    Reader = {r1}
    Requests <- Asked
    Waiter = {w1}
    Budgets <- OverlapBudgets
    Overlap = TRUE
    None = None
INVARIANTS
    StampIsTrue
CHECK_DEADLOCK FALSE
