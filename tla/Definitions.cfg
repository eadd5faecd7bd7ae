\* Definitions, their migrations, pushes, forks and merges: Versioned, Merged, Repeated, Raw and Renewed.
SPECIFICATION Spec
CONSTANTS
    None = "none"
    Field = {"f", "g"}
    Repo = {"A", "B"}
    Name = {"p", "u1", "d1", "u2", "d2"}
    Type = {"T1", "T2", "T3"}
    Code = {"k1", "k2"}
    Descriptions <- Book
    Scenarios <- Worlds
INVARIANTS
    DefsInv
    LastWriteReachesAll
    HalvesDoNotChase
    RepeatIsSilent
PROPERTIES
    MergeCarriesTheSchema
CHECK_DEADLOCK FALSE
