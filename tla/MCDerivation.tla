---------------------------- MODULE MCDerivation ----------------------------
(***************************************************************************)
(* Producers to run the derivation engine on.  Each workload is a handful  *)
(* of small programs: the buffer each reads next and what it writes.       *)
(***************************************************************************)
EXTENDS Derivation

Spend(source, push, fail, crash, retry, rebuild, midRound) ==
    [source |-> source, push |-> push, fail |-> fail, crash |-> crash,
     retry |-> retry, rebuild |-> rebuild, midRound |-> midRound]

(* The producers and client buffers a budget is spent on. *)
On(b, producers, circular, inputs, permits) ==
    [k \in DOMAIN b \cup {"producers", "circular", "inputs", "permits"} |->
        CASE k = "producers" -> producers [] k = "circular" -> circular
          [] k = "inputs" -> inputs [] k = "permits" -> permits [] OTHER -> b[k]]

(* Interference alone, then pushes with deaths, failures or rebuilds. *)
SettleBudgets ==
    {On(b, {"A", "B"}, FALSE, {"x", "y"}, 2) :
     b \in {Spend(4, 0, 0, 0, 0, 0, TRUE), Spend(2, 1, 0, 2, 0, 0, FALSE),
            Spend(2, 1, 1, 0, 0, 0, FALSE), Spend(2, 1, 0, 0, 0, 1, FALSE)}}

(* A chain under interference, and a cycle with a failure and a push or a retry. *)
LineLoopBudgets ==
    {On(Spend(3, 0, 0, 0, 0, 0, TRUE), {"A", "B", "C"}, FALSE, {"object", "x"}, 2)}
    \cup {On(b, {"P", "Q"}, TRUE, {"x"}, 1) :
          b \in {Spend(2, 1, 1, 0, 0, 0, FALSE), Spend(1, 0, 1, 0, 1, 0, FALSE)}}

Has(seen, b) == b \in DOMAIN seen
Num(v) == IF v = None \/ v = Tombstone THEN 2 ELSE v

(* Fan: A copies x; B reads x and a, and y only if a is 1.  B maps over x,  *)
(* so a round that moves x runs B before and after it sees A's output.      *)
FanSource(p) == "x"

FanReads(p, seen) ==
    CASE ~Has(seen, "x") -> "x"
      [] p = "B" /\ Has(seen, "x") /\ ~Has(seen, "a") -> "a"
      [] p = "B" /\ Has(seen, "a") /\ ~Has(seen, "y") /\ Num(seen["a"]) = 1 -> "y"
      [] OTHER -> None

FanWrites(p, v, seen) ==
    IF p = "A" THEN [b \in {"a"} |-> Num(seen["x"])]
    ELSE [b \in {"b"} |-> Num(seen["x"]) + 3 * Num(seen["a"])
                          + 9 * (IF Has(seen, "y") THEN Num(seen["y"]) ELSE 3) + 36 * v]

(* Line: A copies x to a, B copies a to b, C copies b to c, over objects.  *)
(* Loop: P and Q each read what the other writes, and never agree.         *)
LineSource(p) ==
    CASE p = "A" -> "object" [] p = "B" -> "a" [] p = "C" -> "b" [] OTHER -> "x"

LineReads(p, seen) ==
    CASE p = "A" /\ ~Has(seen, "x") -> "x"
      [] p = "B" /\ ~Has(seen, "a") -> "a"
      [] p = "C" /\ ~Has(seen, "b") -> "b"
      [] p \in {"P", "Q"} /\ ~Has(seen, "x") -> "x"
      [] p = "P" /\ Has(seen, "x") /\ ~Has(seen, "q") -> "q"
      [] p = "Q" /\ Has(seen, "x") /\ ~Has(seen, "p") -> "p"
      [] OTHER -> None

LineWrites(p, v, seen) ==
    CASE p = "A" -> [b \in {"a"} |-> Num(seen["x"])]
      [] p = "B" -> [b \in {"b"} |-> Num(seen["a"])]
      [] p = "C" -> [b \in {"c"} |-> Num(seen["b"])]
      [] p = "P" -> [b \in {"p"} |-> (Num(seen["q"]) + 1) % 3]
      [] OTHER   -> [b \in {"q"} |-> Num(seen["p"])]
=============================================================================
