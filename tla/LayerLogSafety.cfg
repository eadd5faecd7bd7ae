\* Two branches, three layers open at once, guards, crashes; one client cell
\* and one derived cell are enough for a cell to be touched, guarded and derived.
SPECIFICATION Spec
CONSTANTS
    Branch = {main, side}
    Root = main
    SourceCell = {x}
    DerivedCell = {d}
    GuardedCell = {x}
    MaxLayer = 3
    Preempted = {"derived"}
INVARIANTS
    LogInv
    IndexIsSound
PROPERTIES
    PassedGuardsAreTrue
    LandsAtomically
    RoundSnapshotStable
CHECK_DEADLOCK FALSE
