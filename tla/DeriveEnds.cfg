\* A chain of three producers over objects that clients write and delete during
\* the round, and two producers that never agree, one failing or pushed again,
\* under fairness: what lands is closed and labelled truly, every round ends and
\* the branch settles.
SPECIFICATION FairSpec
CONSTANTS
    Producers = {"A", "B", "C", "P", "Q"}
    Entity = {e1}
    Buffer = {"object", "x", "a", "b", "c", "p", "q"}
    SourceOf <- LineSource
    NextRead <- LineReads
    Output <- LineWrites
    Value = {0, 1}
    Tombstone = Tombstone
    None = None
    Client = Client
    Budgets <- LineLoopBudgets
    Limit = 3
INVARIANTS
    DeriveInv
    LabelsReplay
PROPERTIES
    NothingResurrected
    Settles
CHECK_DEADLOCK FALSE
