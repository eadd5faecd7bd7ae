\* Servers that boot one at a time, commands, kills and lost socket files.
SPECIFICATION Spec
CONSTANTS
    p = p
    q = q
    k1 = k1
    k2 = k2
    Server = {p, q}
    Command = {c}
    Store = {s1, s2}
    Present = {s1}
    Socket = {k1, k2}
    Addresses <- SameOrOther
    FaultSets = {{}, {"kill", "early"}, {"tidy"}}
    None = None
INVARIANTS
    ServingInv
    ServedOnce
    StopMeansReleased
PROPERTIES
    StopEnds
CONSTRAINT Bounds
CHECK_DEADLOCK FALSE
