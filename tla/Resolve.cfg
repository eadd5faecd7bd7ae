SPECIFICATION Spec
CONSTANTS
    Source = {"a", "b"}
    Derived = {"c", "d", "e"}
    Reads <- DiamondReads
    Reader = {r1}
    Requests <- Asked
    Waiter = {w1}
    Budgets <- ReadBudgets
    Overlap = FALSE
    None = None
INVARIANTS
    ReadsInv
    CurrentIsTrue
    StampIsTrue
PROPERTIES
    Reached
CHECK_DEADLOCK FALSE
