------------------------------ MODULE MCStream ------------------------------
(***************************************************************************)
(* One importer and a registry of three layers: a store that never used    *)
(* its operational files, imported where nothing is, and one that did, out *)
(* of order, imported over an empty store.                                 *)
(***************************************************************************)
EXTENDS Stream

UsedOrNot ==
    {[there |-> FALSE,
      files |-> [next |-> 1, timeout |-> 0, producers |-> <<>>, broken |-> <<>>,
                 paused |-> <<>>]],
     [there |-> TRUE,
      files |-> [next |-> 2, timeout |-> 5, producers |-> <<2, 1>>, broken |-> <<1>>,
                 paused |-> <<2, 1, 2>>]]}
=============================================================================
