\* A fork's first round runs its parent's migrations over what the fork wrote:
\* SPEC.md, "diverges only where it writes".
SPECIFICATION Spec
CONSTANTS
    None = "none"
    Field = {"f", "g"}
    Repo = {"A", "B"}
    Name = {"p", "u1", "d1", "u2", "d2"}
    Type = {"T1", "T2", "T3"}
    Code = {"k1", "k2"}
    Descriptions <- Book
    Scenarios <- Forks
INVARIANTS
    DivergesOnlyWhereItWrites
CHECK_DEADLOCK FALSE
