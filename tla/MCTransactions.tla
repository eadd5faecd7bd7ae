--------------------------- MODULE MCTransactions ---------------------------
(***************************************************************************)
(* Small worlds for the transactions: all requests run to their end;       *)
(* anything may fail; the clock runs; clients that create objects; files   *)
(* beside the store that are torn while they are written.                  *)
(***************************************************************************)
EXTENDS Transactions

(* Two clients over one object, two layers each. *)
Quiet ==
    [named |-> {0}, maxTx |-> 2, maxFork |-> 2, maxWrite |-> 2, maxTrunk |-> 5,
     maxAlloc |-> 0, maxTime |-> 0, timeout |-> 1, remembered |-> 1,
     faults |-> FALSE, torn |-> {}]

(* The process may die between any two durable steps, storage may fail while a *)
(* transaction lands; nothing expires.                                         *)
Faulty ==
    [named |-> {0}, maxTx |-> 2, maxFork |-> 2, maxWrite |-> 1, maxTrunk |-> 3,
     maxAlloc |-> 0, maxTime |-> 0, timeout |-> 1, remembered |-> 1,
     faults |-> TRUE, torn |-> {}]

(* The clock runs past the idle timeout, also while a request is at work; only *)
(* transactions that wrote nothing are committed.                              *)
Ageing ==
    [named |-> {0}, maxTx |-> 2, maxFork |-> 2, maxWrite |-> 1, maxTrunk |-> 1,
     maxAlloc |-> 0, maxTime |-> 2, timeout |-> 1, remembered |-> 1,
     faults |-> TRUE, torn |-> {}]

(* `borg tx timeout 0s`: one tick expires, also while a transaction lands. *)
Hasty ==
    [named |-> {0}, maxTx |-> 2, maxFork |-> 2, maxWrite |-> 1, maxTrunk |-> 2,
     maxAlloc |-> 0, maxTime |-> 1, timeout |-> 0, remembered |-> 1,
     faults |-> TRUE, torn |-> {}]

(* Two clients creating objects, with faults. *)
Creating ==
    [named |-> {}, maxTx |-> 2, maxFork |-> 2, maxWrite |-> 1, maxTrunk |-> 1,
     maxAlloc |-> 2, maxTime |-> 0, timeout |-> 1, remembered |-> 2,
     faults |-> TRUE, torn |-> {}]

(* The same with a table that may be torn: its one handle is given again. *)
Forgetting == [Creating EXCEPT !.maxTx = 1, !.torn = {"table"}]

(* Two clients creating objects and writing to them, the counter of object ids *)
(* and the pause flags torn now and then.                                      *)
Recounting ==
    [named |-> {}, maxTx |-> 2, maxFork |-> 2, maxWrite |-> 1, maxTrunk |-> 2,
     maxAlloc |-> 1, maxTime |-> 0, timeout |-> 1, remembered |-> 2,
     faults |-> TRUE, torn |-> {"counter", "pauses"}]

Worlds == {Quiet, Faulty, Ageing, Hasty, Creating, Forgetting, Recounting}
=============================================================================
