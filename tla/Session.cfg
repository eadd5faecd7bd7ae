SPECIFICATION Spec
CONSTANTS
    r1 = r1
    r2 = r2
    k1 = k1
    k2 = k2
    Conn = {c1, c2}
    Registry = {r1, r2}
    Present = {r1}
    Secret = {k1, k2}
    ScopeOf <- Scopes
    Scenarios <- KeysOrWork
    MaxSlot = 2
    Racing = FALSE
    None = None
INVARIANTS
    SessionInv
    WithinScope
PROPERTIES
    OnlyKeyHolders
    Answered
CHECK_DEADLOCK FALSE
