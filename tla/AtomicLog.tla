----------------------------- MODULE AtomicLog ------------------------------
(***************************************************************************)
(* What the log promises a reader (SPEC 6.2): a layer is not there, and    *)
(* then, in one step, all of it is there for good.  No step takes a layer  *)
(* back, changes what it holds, or makes two of them appear together.      *)
(***************************************************************************)
CONSTANTS Id, Place, Item     \* layer ids, branches, cells

VARIABLE landed               \* the layers a reader can see

Landing == [id : Id, branch : Place, holds : SUBSET Item]

Init == landed = {}

Land(l) ==
    /\ l \in Landing
    /\ \A other \in landed : other.id # l.id
    /\ landed' = landed \cup {l}

\* The layer that lands is the one the step adds.
Next == \E l \in landed' \ landed : Land(l)

Spec == Init /\ [][Next]_landed
=============================================================================
