----------------------------- MODULE MCServing -----------------------------
(***************************************************************************)
(* Two servers over one data directory with one or two stores, on the same *)
(* socket or on two, and one embedded command that can come back.          *)
(***************************************************************************)
EXTENDS Serving, TLC

CONSTANTS p, q, k1, k2

SameOrOther == {[a \in Server |-> k1], (p :> k1) @@ (q :> k2)}
\* The servers differ in nothing but their names, so p boots first; and nothing
\* is claimed of commands once socket files disappear, so none runs then.
Bounds ==
    /\ pc[q] = "idle" \/ pc[p] # "idle"
    /\ "tidy" \in faults => \A c \in Command : pc[c] = "idle"
=============================================================================
