----------------------------- MODULE MCWorkers -----------------------------
(***************************************************************************)
(* Two invocations at a time, of one command.                              *)
(***************************************************************************)
EXTENDS Workers

\* One process for two invocations, with starts that fail and workers that crash;
\* and one for each, with an edit, pushes and a round that panics.
TightOrPushed ==
    {[faults |-> {"start", "die", "cell"}, size |-> 1],
     [faults |-> {"start"}, size |-> 2],
     [faults |-> {"edit", "panic"}, size |-> 2]}
=============================================================================
