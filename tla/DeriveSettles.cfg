\* Clients landing layers at any point of a round, or pushes with deaths,
\* failing runs and rounds, or rebuilds: what a merge drops or a round skips
\* is found again, and a settled branch is a fixpoint.
SPECIFICATION Spec
CONSTANTS
    Producers = {"A", "B"}
    Entity = {e1}
    Buffer = {"x", "y", "a", "b"}
    SourceOf <- FanSource
    NextRead <- FanReads
    Output <- FanWrites
    Value = {0, 1}
    Tombstone = Tombstone
    None = None
    Client = Client
    Budgets <- SettleBudgets
    Limit = 8
INVARIANTS
    SettledIsFixpoint
CHECK_DEADLOCK FALSE
