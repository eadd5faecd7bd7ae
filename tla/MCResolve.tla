----------------------------- MODULE MCResolve -----------------------------
(***************************************************************************)
(* Two source cells, a cell derived from one of them, one derived from     *)
(* that and the other, and one derived from both of these, to which the    *)
(* first leads twice.                                                      *)
(***************************************************************************)
EXTENDS Resolve

Inputs(c) == CASE c = "c" -> <<"a">> [] c = "d" -> <<"c", "b">> [] c = "e" -> <<"d", "c">>
DiamondReads == [c \in {"c", "d", "e"} |-> Inputs(c)]

Wanting(cell, want, pinned) == [cell |-> cell, want |-> want, pinned |-> pinned]

Asked == {Wanting("e", "any", FALSE), Wanting("e", "validated", FALSE),
          Wanting("e", "validated", TRUE), Wanting("e", "current", FALSE)}

Spend(writes, asks, waits, breaks, settled) ==
    [writes |-> writes, asks |-> asks, waits |-> waits, breaks |-> breaks,
     settled |-> settled]

\* A reader among client layers; the same with a producer that fails; a waiter among
\* rounds, with a producer that fails.
ReadBudgets == {Spend(2, 1, 0, 0, TRUE), Spend(1, 1, 0, 1, TRUE), Spend(1, 1, 0, 0, FALSE),
                Spend(2, 0, 1, 1, FALSE)}

\* Three client layers and nobody reading, for what lands while one is open.
OverlapBudgets == {Spend(3, 0, 0, 0, TRUE)}
=============================================================================
