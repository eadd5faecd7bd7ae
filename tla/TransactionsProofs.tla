------------------------ MODULE TransactionsProofs ------------------------
(***************************************************************************)
(* What transactions promise, proved for any number of clients, branches,  *)
(* layers and objects and whatever the bounds of the scenario: the table   *)
(* agrees with the store between requests, no transaction lands on reads   *)
(* that moved or on objects that were deleted, names are used once, every  *)
(* end leaves word, and only silence expires (ops.rs, branch.rs replay).   *)
(*                                                                         *)
(* The argument follows the gate: a request in progress holds what it      *)
(* checked when it began, because nobody else runs until it ends or dies.  *)
(***************************************************************************)
EXTENDS Transactions, WellFoundedInduction, TLAPS

---------------------------------------------------------------------------
(* Induction over the numbers, for a predicate given as a set.              *)

(* A set of numbers has a least one. *)
LEMMA LeastNumber ==
    ASSUME NEW S, S \subseteq Nat, S # {}
    PROVE  \E m \in S : \A k \in S : m <= k
<1> DEFINE Below == {pair \in Nat \X Nat : pair[1] < pair[2]}
<1>1. IsWellFoundedOn(Below, Nat)
    BY NatLessThanWellFounded, Zenon DEF OpToRel
<1>2. \A k, m \in Nat : k < m => <<k, m>> \in Below
    OBVIOUS
<1> HIDE DEF Below
<1>3. PICK m \in S : \A k \in S : ~ (<<k, m>> \in Below)
    BY <1>1, WFMin, Zenon
<1>4. \A k \in S : ~ (k < m)
    BY <1>2, <1>3
<1>5. \A k \in S : m <= k
    BY <1>4
<1> QED BY <1>5

(* A set that holds zero, and with a number the next, holds them all. *)
LEMMA EveryNumber ==
    ASSUME NEW S, 0 \in S, \A n \in Nat : n \in S => n + 1 \in S
    PROVE  Nat \subseteq S
<1> DEFINE Left == Nat \ S
<1>1. SUFFICES ASSUME Left # {} PROVE FALSE
    OBVIOUS
<1>2. PICK m \in Left : \A k \in Left : m <= k
    BY <1>1, LeastNumber
<1>3. m \in Nat /\ m # 0 /\ m \notin S
    BY <1>2
<1>4. m - 1 \in Nat /\ m = (m - 1) + 1 /\ ~(m <= m - 1)
    BY <1>3
<1>5. m - 1 \in S
    BY <1>2, <1>4
<1>6. (m - 1) + 1 \in S
    BY <1>4, <1>5
<1> QED BY <1>3, <1>4, <1>6

---------------------------------------------------------------------------
TrunkLayer == [by : Fork \cup {Nobody}, n : 1..(MaxWrite + 1), w : Layer]
ChildRec   == [fork : Nat, layers : Seq(Layer)]
SpentRec   == [id : Handle, fate : Fate]
Table      == [next : 1..(MaxTx + 1), open : Seq(Entry), spent : Seq(SpentRec)]

Request ==
    {Idle}
    \cup [kind : {"begin"}, branch : Fork, asked : 0..MaxTime]
    \cup [kind : {"create"}, tx : Handle, object : 1..MaxAlloc, asked : 0..MaxTime]
    \cup [kind : {"write", "save"}, tx : Handle, layer : Layer, reads : SUBSET Cell,
          parents : SUBSET Cell, asked : 0..MaxTime, at : 0..MaxTime]
    \cup [kind : {"land"}, tx : Handle, k : Nat \ {0}, asked : 0..MaxTime]

Open(t) == ToSet(t.open)

(* Every variable has its shape. *)
Shaped ==
    /\ scenario \in Scenarios
    /\ trunk \in Seq(TrunkLayer) /\ trunk # <<>>
    /\ child \in Seq(ChildRec) /\ Len(child) <= MaxFork
    /\ \A b \in DOMAIN child : /\ child[b].fork \in 1..Len(trunk)
                               /\ Len(child[b].layers) <= MaxWrite
    /\ \A i \in DOMAIN trunk : trunk[i].by <= Len(child)
    /\ paused \subseteq 1..Len(child)
    /\ table \in Table /\ Len(table.spent) <= Remembered
    /\ alloc \in 1..(MaxAlloc + 1)
    /\ op \in Request
    /\ now \in 0..MaxTime
    /\ issued \subseteq Handle
    /\ saw \in [Handle -> SUBSET Cell]
    /\ lastUse \in [Handle -> 0..MaxTime]

(* The table: one entry to a handle and to a branch, and handles that are  *)
(* spent are neither open nor ahead of the counter.                        *)
Distinct(s) ==
    \A i, j \in DOMAIN s : (s[i].id = s[j].id \/ s[i].branch = s[j].branch) => i = j

Tabled ==
    /\ Distinct(table.open)
    /\ \A e \in Open(table) : /\ e.id < table.next /\ e.id \in issued
                              /\ e.branch \in DOMAIN child
                              /\ e.writes \subseteq OwnWrites(e.branch)
                              /\ lastUse[e.id] <= e.touched /\ e.touched <= now
    /\ \A s \in ToSet(table.spent) : s.id < table.next /\ ~Known(table, s.id)

(* The request at the gate still has what it checked when it began. *)
Gated ==
    /\ op.kind = "begin" => /\ table.next <= MaxTx
                            /\ op.branch \in DOMAIN child /\ LandedOf(op.branch) = {}
                            /\ \A e \in Open(table) : e.branch # op.branch
    /\ op.kind \in {"create", "write", "save", "land"} => Known(table, op.tx)
    /\ op.kind \in {"create", "write"} => Len(Layers(op.tx)) < MaxWrite
    /\ op.kind = "create" => op.object < alloc
    /\ op.kind = "write" /\ ~TornCounter =>
          \A c \in DOMAIN op.layer : c[2] \in Named \/ c[2] < alloc
    /\ op.kind \in {"write", "save"} =>
          op.parents \subseteq op.reads \ EntryOf(table, op.tx).writes
    /\ op.kind = "save" => DOMAIN op.layer \subseteq OwnWrites(EntryOf(table, op.tx).branch)
    /\ op.kind = "land" => op.k <= Len(Layers(op.tx)) + 1
    /\ op.kind # "none" => op.asked <= now
    /\ op.kind \in {"write", "save"} => op.asked <= op.at /\ op.at <= now

(* A transaction that is landing: nobody else has moved what it read, and  *)
(* until it has landed a layer nothing of it dangles.                      *)
LandsSoundly ==
    op.kind = "land" =>
        LET e == EntryOf(table, op.tx)
        IN /\ ~MovedByOthers(e, e.reads)
           /\ op.k = 1 => ~Dangling(e)

(* No cell is written of an object nobody was given, as long as what was   *)
(* given is counted.                                                       *)
NamesGiven ==
    /\ ~TornCounter => \A b \in DOMAIN child : \A c \in OwnWrites(b) :
                           c[2] \in Named \/ c[2] < alloc
    /\ AllocatedIsFresh

(* Between requests an open transaction has left no trace, and derivation  *)
(* is paused on its branch and on no other.                                *)
Traceless ==
    ~Faults =>
        /\ \A e \in Open(table) : \/ op.kind = "land" /\ op.tx = e.id
                                  \/ LandedOf(e.branch) = {}
        /\ paused = {e.branch : e \in Open(table)}
                        \cup (IF op.kind = "begin" THEN {op.branch} ELSE {})

(* What clients know of a handle is about its one transaction. *)
Remembering ==
    /\ \A h \in Handle : saw[h] # {} => h \in issued
    /\ ~TornTable => /\ \A h \in issued : h < table.next
                    /\ \A e \in Open(table) : saw[e.id] \subseteq e.reads

TxSafe == Shaped /\ Tabled /\ Gated /\ LandsSoundly /\ NamesGiven /\ Traceless /\ Remembering

-----------------------------------------------------------------------------
(* retain                                                                  *)

(* One step of Vec::retain's pass: what is kept of the first n elements,   *)
(* given what f says is kept of fewer.                                     *)
KeptOf(f, s, wanted, n) ==
    IF n = 0 THEN <<>>
    ELSE IF s[n] \in wanted THEN Append(f[n - 1], s[n]) ELSE f[n - 1]

(* The pass reaches the end of the sequence. *)
LEMMA PassEnds ==
    ASSUME NEW T, NEW s \in Seq(T), NEW wanted
    PROVE  \E f : f = [n \in 0..Len(s) |-> KeptOf(f, s, wanted, n)]
<1> DEFINE Far == {m \in Nat : m <= Len(s) =>
                      \E f : f = [n \in 0..m |-> KeptOf(f, s, wanted, n)]}
<1>1. 0 \in Far
  <2> DEFINE f == [n \in 0..0 |-> <<>>]
  <2>1. \A n \in 0..0 : f[n] = KeptOf(f, s, wanted, n)
        BY DEF KeptOf
  <2>2. f = [n \in 0..0 |-> KeptOf(f, s, wanted, n)]
        BY <2>1
  <2> QED BY <2>2
<1>2. ASSUME NEW m \in Nat, m \in Far PROVE m + 1 \in Far
  <2> SUFFICES ASSUME m + 1 <= Len(s)
               PROVE  \E f : f = [n \in 0..(m + 1) |-> KeptOf(f, s, wanted, n)]
      OBVIOUS
  <2>1. Len(s) \in Nat /\ m <= Len(s)
        OBVIOUS
  <2>2. PICK f : f = [n \in 0..m |-> KeptOf(f, s, wanted, n)]
        BY <1>2, <2>1
  <2> DEFINE g == [n \in 0..(m + 1) |-> KeptOf(f, s, wanted, n)]
  <2>3. \A n \in 0..m : f[n] = g[n]
    <3> DEFINE h == [n \in 0..m |-> KeptOf(f, s, wanted, n)]
    <3>1. \A n \in 0..m : h[n] = KeptOf(f, s, wanted, n)
          OBVIOUS
    <3>2. f = h
          BY <2>2
    <3> HIDE DEF h
    <3>3. \A n \in 0..m : f[n] = KeptOf(f, s, wanted, n)
          BY <3>1, <3>2, Zenon
    <3> QED BY <3>3
  <2>4. \A n \in 0..(m + 1) : KeptOf(f, s, wanted, n) = KeptOf(g, s, wanted, n)
    <3>1. \A n \in 0..(m + 1) : n # 0 => n - 1 \in 0..m
          OBVIOUS
    <3> HIDE DEF g
    <3> QED BY <2>3, <3>1 DEF KeptOf
  <2>5. g = [n \in 0..(m + 1) |-> KeptOf(g, s, wanted, n)]
        BY <2>4
  <2> QED BY <2>5
<1> HIDE DEF Far
<1>3. Len(s) \in Nat /\ Len(s) \in Far
    BY <1>1, <1>2, EveryNumber
<1> QED BY <1>3 DEF Far

(* What retain keeps is what was wanted, and each of its elements was an   *)
(* element of its own before.                                              *)
LEMMA RetainedIs ==
    ASSUME NEW T, NEW s \in Seq(T), NEW wanted
    PROVE  /\ Retained(s, wanted) \in Seq(T)
           /\ ToSet(Retained(s, wanted)) = ToSet(s) \cap wanted
           /\ \E from \in [DOMAIN Retained(s, wanted) -> DOMAIN s] :
                 /\ \A i, j \in DOMAIN Retained(s, wanted) : from[i] = from[j] => i = j
                 /\ \A i \in DOMAIN Retained(s, wanted) : Retained(s, wanted)[i] = s[from[i]]
<1> DEFINE f == CHOOSE f : f = [n \in 0..Len(s) |-> KeptOf(f, s, wanted, n)]
           Prefix(n) == {s[i] : i \in 1..n}
           Right(n) == /\ f[n] \in Seq(T)
                       /\ \A x : x \in ToSet(f[n]) <=> x \in Prefix(n) /\ x \in wanted
                       /\ \E from \in [1..Len(f[n]) -> 1..n] :
                             /\ \A i, j \in 1..Len(f[n]) : from[i] = from[j] => i = j
                             /\ \A i \in 1..Len(f[n]) : f[n][i] = s[from[i]]
           Far == {n \in Nat : n <= Len(s) => Right(n)}
<1>0. Retained(s, wanted) = f[Len(s)]
    BY Zenon DEF Retained, KeptOf
<1>1. \A n \in 0..Len(s) : f[n] = KeptOf(f, s, wanted, n)
  <2>1. f = [n \in 0..Len(s) |-> KeptOf(f, s, wanted, n)]
        BY PassEnds
  <2> HIDE DEF f
  <2> DEFINE h == [n \in 0..Len(s) |-> KeptOf(f, s, wanted, n)]
  <2>2. \A n \in 0..Len(s) : h[n] = KeptOf(f, s, wanted, n)
        OBVIOUS
  <2>3. f = h
        BY <2>1
  <2> HIDE DEF h
  <2> QED BY <2>2, <2>3, Zenon
<1> HIDE DEF f
<1>2. Right(0)
  <2>1. f[0] = <<>>
        BY <1>1 DEF KeptOf
  <2>2. ToSet(f[0]) = {} /\ Prefix(0) = {}
        BY <2>1 DEF ToSet
  <2>3. f[0] \in Seq(T) /\ 1..Len(f[0]) = {}
        BY <2>1
  <2> DEFINE none == [i \in {} |-> 0]
  <2>4. none \in [1..Len(f[0]) -> 1..0] /\ \A i, j \in 1..Len(f[0]) : FALSE
        BY <2>3
  <2> HIDE DEF none, Prefix
  <2> QED BY <2>2, <2>3, <2>4
<1>3. ASSUME NEW n \in Nat, n + 1 <= Len(s), Right(n) PROVE Right(n + 1)
  <2>1. /\ n + 1 \in 1..Len(s) /\ s[n + 1] \in T
        /\ f[n + 1] = IF s[n + 1] \in wanted THEN Append(f[n], s[n + 1]) ELSE f[n]
    <3>1. n + 1 \in 0..Len(s) /\ n + 1 # 0 /\ (n + 1) - 1 = n /\ n + 1 \in 1..Len(s)
          BY <1>3
    <3> QED BY <1>1, <3>1 DEF KeptOf
  <2>2. Prefix(n + 1) = Prefix(n) \cup {s[n + 1]}
    <3>1. 1..(n + 1) = (1..n) \cup {n + 1}
          OBVIOUS
    <3> QED BY <3>1
  <2>3. PICK from \in [1..Len(f[n]) -> 1..n] :
             /\ \A i, j \in 1..Len(f[n]) : from[i] = from[j] => i = j
             /\ \A i \in 1..Len(f[n]) : f[n][i] = s[from[i]]
        BY <1>3
  <2>4. CASE s[n + 1] \notin wanted
    <3>1. f[n + 1] = f[n]
          BY <2>1, <2>4
    <3>2. \A x : x \in ToSet(f[n + 1]) <=> x \in Prefix(n + 1) /\ x \in wanted
          BY <1>3, <2>2, <2>4, <3>1
    <3>3. from \in [1..Len(f[n]) -> 1..(n + 1)]
          OBVIOUS
    <3> HIDE DEF Prefix
    <3> QED BY <1>3, <2>3, <3>1, <3>2, <3>3
  <2>5. CASE s[n + 1] \in wanted
    <3>1. f[n + 1] = Append(f[n], s[n + 1]) /\ f[n] \in Seq(T)
          BY <1>3, <2>1, <2>5
    <3>2. /\ f[n + 1] \in Seq(T) /\ Len(f[n + 1]) = Len(f[n]) + 1 /\ Len(f[n]) \in Nat
          /\ f[n + 1][Len(f[n]) + 1] = s[n + 1]
          /\ \A i \in 1..Len(f[n]) : f[n + 1][i] = f[n][i]
          BY <2>1, <3>1
    <3>3. ToSet(f[n + 1]) = ToSet(f[n]) \cup {s[n + 1]}
      <4>1. DOMAIN f[n + 1] = 1..(Len(f[n]) + 1) /\ DOMAIN f[n] = 1..Len(f[n])
            BY <3>1, <3>2
      <4>2. 1..(Len(f[n]) + 1) = (1..Len(f[n])) \cup {Len(f[n]) + 1}
            BY <3>2
      <4>3. \A x : x \in ToSet(f[n + 1]) <=> \E i \in 1..(Len(f[n]) + 1) : x = f[n + 1][i]
            BY <4>1 DEF ToSet
      <4>4. \A x : x \in ToSet(f[n]) <=> \E i \in 1..Len(f[n]) : x = f[n][i]
            BY <4>1 DEF ToSet
      <4>5. ASSUME NEW x
            PROVE  (\E i \in 1..(Len(f[n]) + 1) : x = f[n + 1][i])
                      <=> (\E i \in 1..Len(f[n]) : x = f[n][i]) \/ x = s[n + 1]
        <5>1. \A i : i \in 1..(Len(f[n]) + 1) <=> i \in 1..Len(f[n]) \/ i = Len(f[n]) + 1
              BY <4>2
        <5> QED BY <3>2, <5>1, Zenon
      <4>6. \A x : x \in ToSet(f[n + 1]) <=> x \in ToSet(f[n]) \/ x = s[n + 1]
            BY <4>3, <4>4, <4>5, Zenon
      <4> QED BY <4>6
    <3>4. \A x : x \in ToSet(f[n + 1]) <=> x \in Prefix(n + 1) /\ x \in wanted
          BY <1>3, <2>2, <2>5, <3>3
    <3> DEFINE onto == [i \in 1..Len(f[n + 1]) |-> IF i <= Len(f[n]) THEN from[i] ELSE n + 1]
    <3>5. onto \in [1..Len(f[n + 1]) -> 1..(n + 1)]
      <4>1. \A i \in 1..Len(f[n + 1]) : i <= Len(f[n]) => from[i] \in 1..n
            BY <2>3, <3>2
      <4> QED BY <4>1
    <3>6. \A i \in 1..Len(f[n]) : onto[i] = from[i] /\ onto[i] # n + 1
      <4>1. \A i \in 1..Len(f[n]) : from[i] \in 1..n /\ i \in 1..Len(f[n + 1]) /\ i <= Len(f[n])
            BY <2>3, <3>2
      <4> QED BY <4>1
    <3>7. onto[Len(f[n]) + 1] = n + 1
          BY <3>2
    <3> HIDE DEF onto, Prefix
    <3>8. \A i \in 1..Len(f[n + 1]) : i \in 1..Len(f[n]) \/ i = Len(f[n]) + 1
          BY <3>2
    <3>9. \A i, j \in 1..Len(f[n + 1]) : onto[i] = onto[j] => i = j
          BY <2>3, <3>6, <3>7, <3>8
    <3>10. \A i \in 1..Len(f[n + 1]) : f[n + 1][i] = s[onto[i]]
          BY <2>3, <3>2, <3>6, <3>7, <3>8
    <3> QED BY <3>2, <3>4, <3>5, <3>9, <3>10
  <2> QED BY <2>4, <2>5
<1>4. Len(s) \in Far /\ Len(s) \in Nat
  <2>1. 0 \in Far
        BY <1>2
  <2>2. \A n \in Nat : n \in Far => n + 1 \in Far
    <3> HIDE DEF Right
    <3>1. ASSUME NEW n \in Nat, n \in Far, n + 1 <= Len(s) PROVE Right(n + 1)
      <4>1. n <= Len(s)
            BY <3>1
      <4>2. Right(n)
            BY <3>1, <4>1
      <4> QED BY <1>3, <3>1, <4>2
    <3> QED BY <3>1
  <2> HIDE DEF Far
  <2> QED BY <2>1, <2>2, EveryNumber
<1>5. Right(Len(s))
    BY <1>4
<1>6. Prefix(Len(s)) = ToSet(s) /\ DOMAIN s = 1..Len(s)
    BY DEF ToSet
<1>7. DOMAIN Retained(s, wanted) = 1..Len(f[Len(s)])
    BY <1>0, <1>5
<1>8. ToSet(Retained(s, wanted)) = ToSet(s) \cap wanted
    BY <1>0, <1>5, <1>6
<1>9. \E from \in [DOMAIN Retained(s, wanted) -> DOMAIN s] :
         /\ \A i, j \in DOMAIN Retained(s, wanted) : from[i] = from[j] => i = j
         /\ \A i \in DOMAIN Retained(s, wanted) : Retained(s, wanted)[i] = s[from[i]]
  <2>1. \E from \in [1..Len(f[Len(s)]) -> 1..Len(s)] :
             /\ \A i, j \in 1..Len(f[Len(s)]) : from[i] = from[j] => i = j
             /\ \A i \in 1..Len(f[Len(s)]) : f[Len(s)][i] = s[from[i]]
        BY <1>5
  <2> HIDE DEF Right
  <2> QED BY <1>0, <1>6, <1>7, <2>1
<1>10. Retained(s, wanted) \in Seq(T)
    BY <1>0, <1>5
<1> QED BY <1>8, <1>9, <1>10

-----------------------------------------------------------------------------
(* The bounds                                                              *)

(* A behaviour keeps its scenario, and so its bounds.                      *)
LEMMA Bounds ==
    ASSUME scenario \in Scenarios
    PROVE  /\ MaxTx \in Nat /\ MaxFork \in Nat /\ MaxWrite \in Nat /\ MaxTrunk \in Nat
           /\ MaxAlloc \in Nat /\ MaxTime \in Nat /\ Timeout \in Nat
           /\ Remembered \in Nat /\ Remembered > 0
           /\ Faults \in BOOLEAN /\ TornTable \in BOOLEAN /\ (TornTable => Faults)
           /\ (TornCounter => Faults) /\ (TornPauses => Faults)
           /\ Named \cap (1..MaxAlloc) = {}
BY TxAssumption
DEF TxAssumption, MaxTx, MaxFork, MaxWrite, MaxTrunk, MaxAlloc, MaxTime, Timeout, Remembered,
    Faults, TornTable, TornCounter, TornPauses, Named

(* What a scenario bounds is the same before and after a step. *)
LEMMA SameBounds ==
    ASSUME scenario' = scenario
    PROVE  /\ MaxTx' = MaxTx /\ MaxFork' = MaxFork /\ MaxWrite' = MaxWrite /\ MaxAlloc' = MaxAlloc
           /\ MaxTime' = MaxTime /\ Timeout' = Timeout /\ Remembered' = Remembered
           /\ (Faults' <=> Faults)
           /\ (TornTable' <=> TornTable) /\ (TornCounter' <=> TornCounter) /\ Named' = Named
           /\ Cell' = Cell /\ Handle' = Handle /\ Fork' = Fork
           /\ Layer' = Layer /\ TrunkLayer' = TrunkLayer /\ ChildRec' = ChildRec
           /\ Table' = Table /\ Request' = Request
<1>1. /\ MaxTx' = MaxTx /\ MaxFork' = MaxFork /\ MaxWrite' = MaxWrite /\ MaxAlloc' = MaxAlloc
      /\ MaxTime' = MaxTime /\ Timeout' = Timeout /\ Remembered' = Remembered
      /\ (Faults' <=> Faults)
      /\ (TornTable' <=> TornTable) /\ (TornCounter' <=> TornCounter) /\ Named' = Named
    BY DEF MaxTx, MaxFork, MaxWrite, MaxAlloc, MaxTime, Timeout, Remembered, Faults, TornTable,
           TornCounter, Named
<1>2. Cell' = Cell /\ Handle' = Handle /\ Fork' = Fork
    BY <1>1 DEF Cell, Object, Handle, Fork
<1>3. Layer' = Layer
    BY <1>2 DEF Layer
<1>4. Entry' = Entry /\ TrunkLayer' = TrunkLayer /\ ChildRec' = ChildRec /\ SpentRec' = SpentRec
    BY <1>1, <1>2, <1>3 DEF Entry, TrunkLayer, ChildRec, SpentRec
<1>5. Table' = Table
    BY <1>1, <1>4 DEF Table
<1>6. Request' = Request
    BY <1>1, <1>2, <1>3 DEF Request
<1> QED BY <1>1, <1>2, <1>3, <1>4, <1>5, <1>6

-----------------------------------------------------------------------------
(* The table                                                               *)

(* transaction_index finds the entry of that handle, the only one. *)
LEMMA EntryIs ==
    ASSUME NEW t, NEW h, Known(t, h)
    PROVE  EntryOf(t, h) \in Open(t) /\ EntryOf(t, h).id = h
BY DEF Known, EntryOf, Open

LEMMA OneEntry ==
    ASSUME NEW t, Distinct(t.open), NEW e \in Open(t)
    PROVE  /\ \A f \in Open(t) : (f.id = e.id \/ f.branch = e.branch) => f = e
           /\ EntryOf(t, e.id) = e
<1>1. \A f \in Open(t) : (f.id = e.id \/ f.branch = e.branch) => f = e
    BY DEF Distinct, Open, ToSet
<1>2. Known(t, e.id)
    BY DEF Known, Open
<1> QED BY <1>1, <1>2, EntryIs

(* What the table must be on its own. *)
Sound(t) == t \in Table /\ Len(t.spent) <= Remembered /\ Distinct(t.open)

(* retire keeps the newest fates, as many as it remembers (ops.rs:726). *)
LEMMA RememberIs ==
    ASSUME scenario \in Scenarios, NEW S, NEW s \in Seq(S)
    PROVE  /\ Remember(s) \in Seq(S) /\ Len(Remember(s)) <= Remembered
           /\ Len(Remember(s)) <= Len(s)
           /\ \A j \in 1..Len(Remember(s)) :
                 /\ (Len(s) - Len(Remember(s))) + j \in 1..Len(s)
                 /\ Remember(s)[j] = s[(Len(s) - Len(Remember(s))) + j]
           /\ Len(Remember(s)) < Len(s) => Len(Remember(s)) = Remembered
           /\ s # <<>> => Len(Remember(s)) > 0
<1>1. Remembered \in Nat /\ Remembered > 0 /\ Len(s) \in Nat
    BY Bounds
<1>2. CASE Len(s) > Remembered
  <2>1. Remember(s) = SubSeq(s, Len(s) - Remembered + 1, Len(s))
        BY <1>2 DEF Remember
  <2>2. /\ Len(s) - Remembered + 1 \in 1..Len(s)
        /\ Len(s) - (Len(s) - Remembered + 1) + 1 = Remembered
        BY <1>1, <1>2
  <2> DEFINE m == Len(s) - Remembered + 1
  <2>3. m \in 1..Len(s) /\ Len(s) - m + 1 = Remembered /\ m - 1 = Len(s) - Remembered
        BY <1>1, <1>2
  <2> HIDE DEF m
  <2>4. /\ SubSeq(s, m, Len(s)) \in Seq(S)
        /\ Len(SubSeq(s, m, Len(s))) = Remembered
        /\ \A j \in 1..Remembered : SubSeq(s, m, Len(s))[j] = s[(m - 1) + j]
        BY <1>1, <2>3
  <2>5. \A j \in 1..Remembered : (Len(s) - Remembered) + j \in 1..Len(s)
        BY <1>1, <1>2
  <2>6. Remember(s) = SubSeq(s, m, Len(s))
        BY <2>1 DEF m
  <2> QED BY <1>1, <1>2, <2>3, <2>4, <2>5, <2>6
<1>3. CASE ~(Len(s) > Remembered)
  <2>1. Remember(s) = SubSeq(s, 1, Len(s))
        BY <1>3 DEF Remember
  <2>2. SubSeq(s, 1, Len(s)) = s
        BY <1>1
  <2>3. Remember(s) = s /\ Len(s) <= Remembered
        BY <1>1, <1>3, <2>1, <2>2
  <2>4. \A j \in 1..Len(s) : (Len(s) - Len(s)) + j = j
        BY <1>1
  <2>5. s # <<>> => Len(s) > 0
        BY <1>1
  <2> QED BY <1>1, <2>3, <2>4, <2>5
<1> QED BY <1>2, <1>3

(* Taking entries out of the table leaves the others as they were. *)
LEMMA RetainedOpen ==
    ASSUME NEW t \in Table, Distinct(t.open), NEW wanted
    PROVE  /\ Retained(t.open, wanted) \in Seq(Entry)
           /\ ToSet(Retained(t.open, wanted)) = Open(t) \cap wanted
           /\ Distinct(Retained(t.open, wanted))
<1> DEFINE s == t.open
           r == Retained(s, wanted)
<1>1. s \in Seq(Entry)
    BY DEF Table
<1>2. /\ r \in Seq(Entry) /\ ToSet(r) = ToSet(s) \cap wanted
      /\ \E from \in [DOMAIN r -> DOMAIN s] :
            /\ \A i, j \in DOMAIN r : from[i] = from[j] => i = j
            /\ \A i \in DOMAIN r : r[i] = s[from[i]]
    BY <1>1, RetainedIs
<1> HIDE DEF r
<1>3. Distinct(r)
    BY <1>2 DEF Distinct
<1> QED BY <1>2, <1>3 DEF Open, r

(* A transaction that ends leaves the table for the memory of the spent.   *)
LEMMA RetireIs ==
    ASSUME scenario \in Scenarios, NEW t, Sound(t), NEW h \in Handle, NEW fate \in Fate
    PROVE  /\ Sound(Retire(t, h, fate)) /\ Retire(t, h, fate).next = t.next
           /\ Open(Retire(t, h, fate)) = {e \in Open(t) : e.id # h}
           /\ Retire(t, h, fate).spent = Remember(Append(t.spent, [id |-> h, fate |-> fate]))
           /\ \A s \in ToSet(Retire(t, h, fate).spent) :
                 s \in ToSet(t.spent) \/ s = [id |-> h, fate |-> fate]
<1> DEFINE left == Retained(t.open, {e \in ToSet(t.open) : e.id # h})
           last == [id |-> h, fate |-> fate]
           all  == Append(t.spent, last)
           r    == Retire(t, h, fate)
<1>0. t \in Table /\ Distinct(t.open) /\ Len(t.spent) <= Remembered /\ t.spent \in Seq(SpentRec)
    BY DEF Sound, Table
<1>1. left \in Seq(Entry) /\ Distinct(left) /\ ToSet(left) = {e \in Open(t) : e.id # h}
  <2>1. /\ left \in Seq(Entry) /\ Distinct(left)
        /\ ToSet(left) = Open(t) \cap {e \in ToSet(t.open) : e.id # h}
        BY <1>0, RetainedOpen
  <2> QED BY <2>1 DEF Open
<1>2. last \in SpentRec
    BY DEF SpentRec
<1>3. all \in Seq(SpentRec) /\ Remember(all) \in Seq(SpentRec) /\ Len(Remember(all)) <= Remembered
  <2>1. all \in Seq(SpentRec)
        BY <1>0, <1>2
  <2> HIDE DEF all
  <2> QED BY <2>1, RememberIs
<1>4. r = [t EXCEPT !.open = left, !.spent = Remember(all)]
  <2> HIDE DEF left
  <2>1. Without(t, h) = [t EXCEPT !.open = left]
        BY DEF Without, left
  <2> QED BY <2>1, <1>0 DEF Retire, Table
<1>5. \A s \in ToSet(Remember(all)) : s \in ToSet(t.spent) \/ s = last
  <2>1. ASSUME NEW j \in 1..Len(Remember(all)) PROVE Remember(all)[j] \in ToSet(all)
    <3> DEFINE i == (Len(all) - Len(Remember(all))) + j
    <3> HIDE DEF all
    <3>1. i \in 1..Len(all) /\ Remember(all)[j] = all[i]
          BY <1>3, RememberIs
    <3> QED BY <1>3, <3>1 DEF ToSet
  <2>2. \A s \in ToSet(all) : s \in ToSet(t.spent) \/ s = last
        BY <1>0, <1>2 DEF ToSet
  <2> HIDE DEF all, last
  <2>3. ToSet(Remember(all)) = {Remember(all)[j] : j \in 1..Len(Remember(all))}
        BY <1>3 DEF ToSet
  <2> QED BY <2>1, <2>2, <2>3
<1> HIDE DEF left, all, last, r
<1>6. r \in Table /\ r.open = left /\ r.spent = Remember(all) /\ r.next = t.next
    BY <1>0, <1>1, <1>3, <1>4 DEF Table
<1>7. r = Retire(t, h, fate)
    BY DEF r
<1> QED BY <1>1, <1>3, <1>5, <1>6, <1>7 DEF Sound, Open, all, last

(* An entry is replaced where it stands. *)
LEMMA WithIs ==
    ASSUME NEW t, Sound(t), NEW h, Known(t, h), NEW e \in Entry, e.id = h,
           e.branch = EntryOf(t, h).branch
    PROVE  /\ Sound(With(t, h, e)) /\ With(t, h, e).next = t.next /\ With(t, h, e).spent = t.spent
           /\ Open(With(t, h, e)) = {f \in Open(t) : f.id # h} \cup {e}
<1> DEFINE s == t.open
           r == [i \in DOMAIN s |-> IF s[i].id = h THEN e ELSE s[i]]
<1>0. t \in Table /\ Distinct(s) /\ Len(t.spent) <= Remembered /\ s \in Seq(Entry)
    BY DEF Sound, Table
<1>1. With(t, h, e) = [t EXCEPT !.open = r]
    BY DEF With
<1>2. r \in Seq(Entry) /\ DOMAIN r = DOMAIN s
    BY <1>0
<1>3. \A i \in DOMAIN s : s[i].id = h => s[i] = EntryOf(t, h)
  <2>1. ASSUME NEW i \in DOMAIN s, s[i].id = h PROVE s[i] = EntryOf(t, h)
    <3>1. s[i] \in Open(t)
          BY DEF Open, ToSet
    <3> QED BY <1>0, <2>1, <3>1, OneEntry
  <2> QED BY <2>1
<1>4. \A i \in DOMAIN s : r[i].id = s[i].id /\ r[i].branch = s[i].branch
    BY <1>3
<1>5. Distinct(r)
    BY ZenonT(60), <1>0, <1>2, <1>4 DEF Distinct
<1>6. ToSet(r) = {f \in Open(t) : f.id # h} \cup {e}
  <2>1. PICK i \in DOMAIN s : s[i].id = h
        BY DEF Known, ToSet
  <2>2. r[i] = e
        BY <2>1
  <2>3. \A j \in DOMAIN s : r[j] = e \/ (r[j] = s[j] /\ s[j].id # h)
        OBVIOUS
  <2>4. \A j \in DOMAIN s : s[j].id # h => r[j] = s[j]
        OBVIOUS
  <2> HIDE DEF r
  <2> QED BY <1>2, <2>2, <2>3, <2>4 DEF ToSet, Open
<1> HIDE DEF r
<1>7. With(t, h, e) \in Table /\ With(t, h, e).open = r
    BY <1>0, <1>1, <1>2 DEF Table
<1>8. With(t, h, e).next = t.next /\ With(t, h, e).spent = t.spent
    BY <1>0, <1>1 DEF Table
<1> QED BY <1>0, <1>5, <1>6, <1>7, <1>8 DEF Sound, Open
(* Word of how the transactions in `ended` ended, in what is remembered:   *)
(* each has its word with only words of `lately` after it, or the memory   *)
(* is full of those.                                                       *)
Tells(spent, lately, ended) ==
    \A h \in ended :
        \/ \E j \in DOMAIN spent : /\ spent[j].id = h
                                   /\ \A i \in DOMAIN spent : i >= j => spent[i].id \in lately
        \/ Len(spent) >= Remembered /\ \A i \in DOMAIN spent : spent[i].id \in lately

(* Forgetting the oldest loses no word but to words as late. *)
LEMMA RememberTells ==
    ASSUME scenario \in Scenarios, NEW spent \in Seq(SpentRec), NEW lately, NEW ended,
           Tells(spent, lately, ended)
    PROVE  Tells(Remember(spent), lately, ended)
<1> DEFINE r == Remember(spent)
           d == Len(spent) - Len(r)
<1>1. /\ r \in Seq(SpentRec) /\ Len(r) <= Remembered /\ Len(r) <= Len(spent)
      /\ \A j \in 1..Len(r) : d + j \in 1..Len(spent) /\ r[j] = spent[d + j]
      /\ Len(r) < Len(spent) => Len(r) = Remembered
    BY RememberIs
<1>2. Remembered \in Nat /\ Len(r) \in Nat /\ Len(spent) \in Nat /\ d \in Nat
    BY <1>1, Bounds
<1>3. DOMAIN r = 1..Len(r) /\ DOMAIN spent = 1..Len(spent)
    BY <1>1
<1> HIDE DEF r
<1>4. ASSUME NEW h \in ended
      PROVE  \/ \E j \in DOMAIN r : r[j].id = h /\ \A i \in DOMAIN r : i >= j => r[i].id \in lately
             \/ Len(r) >= Remembered /\ \A i \in DOMAIN r : r[i].id \in lately
  <2>1. CASE Len(spent) >= Remembered /\ \A i \in DOMAIN spent : spent[i].id \in lately
    <3>1. \A i \in DOMAIN r : r[i].id \in lately
          BY <1>1, <1>3, <2>1
    <3>2. Len(r) >= Remembered
          BY <1>1, <1>2, <2>1
    <3> QED BY <3>1, <3>2
  <2>2. ASSUME NEW j \in DOMAIN spent, spent[j].id = h,
               \A i \in DOMAIN spent : i >= j => spent[i].id \in lately
        PROVE  \/ \E k \in DOMAIN r : r[k].id = h /\ \A i \in DOMAIN r : i >= k => r[i].id \in lately
               \/ Len(r) >= Remembered /\ \A i \in DOMAIN r : r[i].id \in lately
    <3>1. CASE j > d
      <4>1. j - d \in 1..Len(r) /\ d + (j - d) = j
            BY <1>2, <1>3, <2>2, <3>1
      <4>2. r[j - d].id = h
            BY <1>1, <2>2, <4>1
      <4>3. \A i \in 1..Len(r) : i >= j - d => d + i >= j
            BY <1>2, <1>3
      <4>4. \A i \in DOMAIN r : i >= j - d => r[i].id \in lately
            BY <1>1, <1>3, <2>2, <4>3
      <4> QED BY <1>3, <4>1, <4>2, <4>4
    <3>2. CASE ~(j > d)
      <4>0. j \in 1..Len(spent) /\ d = Len(spent) - Len(r)
            BY <1>3, <2>2 DEF r
      <4>1. Len(r) = Remembered
            BY <1>1, <1>2, <3>2, <4>0
      <4>2. \A i \in 1..Len(r) : d + i >= j
            BY <1>2, <1>3, <3>2
      <4>3. \A i \in DOMAIN r : r[i].id \in lately
            BY <1>1, <1>3, <2>2, <4>2
      <4> QED BY <1>2, <4>1, <4>3
    <3> QED BY <3>1, <3>2
  <2> QED BY <2>1, <2>2 DEF Tells
<1> QED BY <1>4 DEF Tells, r

(* The next word is as late as any. *)
LEMMA AppendTells ==
    ASSUME NEW spent \in Seq(SpentRec), NEW lately, NEW ended, NEW word \in SpentRec,
           word.id \in lately, Tells(spent, lately, ended), scenario \in Scenarios
    PROVE  Tells(Append(spent, word), lately, ended \cup {word.id})
<1> DEFINE q == Append(spent, word)
<1>1. /\ Len(spent) \in Nat /\ DOMAIN spent = 1..Len(spent) /\ DOMAIN q = 1..(Len(spent) + 1)
      /\ Len(q) = Len(spent) + 1 /\ q[Len(spent) + 1] = word
      /\ \A i \in 1..Len(spent) : q[i] = spent[i]
    OBVIOUS
<1>2. Remembered \in Nat
    BY Bounds
<1> HIDE DEF q
<1>3. \A i \in DOMAIN q : i \in DOMAIN spent \/ i = Len(spent) + 1
    BY <1>1
<1>4. ASSUME NEW h \in ended
      PROVE  \/ \E j \in DOMAIN q : q[j].id = h /\ \A i \in DOMAIN q : i >= j => q[i].id \in lately
             \/ Len(q) >= Remembered /\ \A i \in DOMAIN q : q[i].id \in lately
  <2>1. CASE Len(spent) >= Remembered /\ \A i \in DOMAIN spent : spent[i].id \in lately
    <3>1. \A i \in DOMAIN q : q[i].id \in lately
          BY <1>1, <1>3, <2>1
    <3> QED BY <1>1, <1>2, <2>1, <3>1
  <2>2. ASSUME NEW j \in DOMAIN spent, spent[j].id = h,
               \A i \in DOMAIN spent : i >= j => spent[i].id \in lately
        PROVE  \E k \in DOMAIN q : q[k].id = h /\ \A i \in DOMAIN q : i >= k => q[i].id \in lately
    <3>1. j \in DOMAIN q /\ q[j].id = h
          BY <1>1, <2>2
    <3>2. \A i \in DOMAIN q : i >= j => q[i].id \in lately
          BY <1>1, <1>3, <2>2
    <3> QED BY <3>1, <3>2
  <2> QED BY <2>1, <2>2 DEF Tells
<1>5. \E j \in DOMAIN q : q[j].id = word.id /\ \A i \in DOMAIN q : i >= j => q[i].id \in lately
  <2>1. Len(spent) + 1 \in DOMAIN q
        BY <1>1
  <2>2. \A i \in DOMAIN q : i >= Len(spent) + 1 => i = Len(spent) + 1
        BY <1>1
  <2> QED BY <1>1, <2>1, <2>2
<1> QED BY <1>4, <1>5 DEF Tells, q

(* The sweep takes out what was idle for too long, and leaves word.        *)
LEMMA SweptIs ==
    ASSUME scenario \in Scenarios, NEW t, Sound(t)
    PROVE  /\ Sound(Swept(t)) /\ Swept(t).next = t.next
           /\ Expiring(t) \subseteq Open(t) /\ Open(Swept(t)) = Open(t) \ Expiring(t)
           /\ \A s \in ToSet(Swept(t).spent) :
                 s \in ToSet(t.spent) \/ \E e \in Expiring(t) : s = [id |-> e.id, fate |-> "expired"]
           /\ Tells(Swept(t).spent, {e.id : e \in Expiring(t)}, {e.id : e \in Expiring(t)})
<1> DEFINE dead  == Retained(t.open, Expiring(t))
           alive == Retained(t.open, ToSet(t.open) \ Expiring(t))
           words == [i \in DOMAIN dead |-> [id |-> dead[i].id, fate |-> "expired"]]
           all   == t.spent \o words
           ids   == {e.id : e \in Expiring(t)}
<1>0. /\ t \in Table /\ Distinct(t.open) /\ Len(t.spent) <= Remembered /\ t.spent \in Seq(SpentRec)
      /\ Expiring(t) \subseteq Open(t)
    BY DEF Sound, Table, Expiring, Open
<1>1. dead \in Seq(Entry) /\ ToSet(dead) = Expiring(t)
  <2>1. dead \in Seq(Entry) /\ ToSet(dead) = Open(t) \cap Expiring(t)
        BY <1>0, RetainedOpen
  <2> QED BY <1>0, <2>1
<1>2. alive \in Seq(Entry) /\ Distinct(alive) /\ ToSet(alive) = Open(t) \ Expiring(t)
  <2>1. /\ alive \in Seq(Entry) /\ Distinct(alive)
        /\ ToSet(alive) = Open(t) \cap (ToSet(t.open) \ Expiring(t))
        BY <1>0, RetainedOpen
  <2> QED BY <2>1 DEF Open
<1>3. Swept(t) = [t EXCEPT !.open = alive, !.spent = Remember(all)]
    BY <1>0, Zenon DEF Swept
<1> HIDE DEF dead, alive
<1>4. /\ words \in Seq(SpentRec) /\ DOMAIN words = 1..Len(dead) /\ Len(words) = Len(dead)
      /\ Len(dead) \in Nat /\ DOMAIN dead = 1..Len(dead)
  <2>1. \A i \in DOMAIN dead : [id |-> dead[i].id, fate |-> "expired"] \in SpentRec
    <3>1. \A i \in DOMAIN dead : dead[i] \in Entry
          BY <1>1
    <3>2. \A i \in DOMAIN dead : dead[i].id \in Handle
          BY <3>1 DEF Entry
    <3> QED BY <3>2 DEF SpentRec, Fate
  <2> QED BY <1>1, <2>1
<1>5. \A i \in 1..Len(dead) : dead[i] \in Expiring(t) /\ words[i] = [id |-> dead[i].id, fate |-> "expired"]
    BY <1>1, <1>4 DEF ToSet
<1>6. \A e \in Expiring(t) : \E i \in 1..Len(dead) : dead[i] = e
    BY <1>1, <1>4 DEF ToSet
<1> HIDE DEF words
<1>7. /\ all \in Seq(SpentRec) /\ Len(all) = Len(t.spent) + Len(words) /\ Len(t.spent) \in Nat
      /\ DOMAIN all = 1..(Len(t.spent) + Len(words))
      /\ \A i \in 1..Len(t.spent) : all[i] = t.spent[i]
      /\ \A i \in 1..Len(words) : all[Len(t.spent) + i] = words[i]
    BY <1>0, <1>4
<1> HIDE DEF all
<1>8. \A i \in DOMAIN all : \/ i \in 1..Len(t.spent)
                            \/ i - Len(t.spent) \in 1..Len(words)
                               /\ i = Len(t.spent) + (i - Len(t.spent))
    BY <1>4, <1>7
<1>9. /\ Remember(all) \in Seq(SpentRec) /\ Len(Remember(all)) <= Remembered
      /\ \A s \in ToSet(Remember(all)) : s \in ToSet(all)
  <2>1. /\ Remember(all) \in Seq(SpentRec) /\ Len(Remember(all)) <= Remembered
        /\ \A j \in 1..Len(Remember(all)) :
             /\ (Len(all) - Len(Remember(all))) + j \in 1..Len(all)
             /\ Remember(all)[j] = all[(Len(all) - Len(Remember(all))) + j]
        BY <1>7, RememberIs
  <2> DEFINE r == Remember(all)
             d == Len(all) - Len(r)
  <2>2. \A j \in 1..Len(r) : d + j \in DOMAIN all /\ r[j] = all[d + j]
        BY <1>7, <2>1
  <2>3. DOMAIN r = 1..Len(r)
        BY <2>1
  <2>4. r \in Seq(SpentRec) /\ Len(r) <= Remembered
        BY <2>1
  <2> HIDE DEF r, d
  <2>5. \A s \in ToSet(r) : s \in ToSet(all)
        BY <2>2, <2>3 DEF ToSet
  <2> QED BY <2>4, <2>5 DEF r
<1>10. \A s \in ToSet(all) :
          s \in ToSet(t.spent) \/ \E e \in Expiring(t) : s = [id |-> e.id, fate |-> "expired"]
  <2>1. ASSUME NEW i \in DOMAIN all
        PROVE  all[i] \in ToSet(t.spent)
               \/ \E e \in Expiring(t) : all[i] = [id |-> e.id, fate |-> "expired"]
    <3>1. CASE i \in 1..Len(t.spent)
          BY <1>0, <1>7, <3>1 DEF ToSet
    <3>2. CASE i \notin 1..Len(t.spent)
      <4> DEFINE k == i - Len(t.spent)
      <4>1. k \in 1..Len(words) /\ all[i] = words[k]
            BY <1>7, <1>8, <3>2
      <4> HIDE DEF k
      <4> QED BY <1>4, <1>5, <4>1
    <3> QED BY <3>1, <3>2
  <2> QED BY <2>1 DEF ToSet
<1>11. Tells(all, ids, ids)
  <2>1. ASSUME NEW e \in Expiring(t)
        PROVE  \E j \in DOMAIN all : /\ all[j].id = e.id
                                     /\ \A i \in DOMAIN all : i >= j => all[i].id \in ids
    <3>1. PICK k \in 1..Len(dead) : dead[k] = e
          BY <1>6
    <3>2. Len(t.spent) + k \in DOMAIN all /\ all[Len(t.spent) + k].id = e.id
          BY <1>4, <1>5, <1>7, <3>1
    <3>3. ASSUME NEW i \in DOMAIN all, i >= Len(t.spent) + k PROVE all[i].id \in ids
      <4> DEFINE n == i - Len(t.spent)
      <4>1. n \in 1..Len(words) /\ all[i] = words[n]
            BY SMTT(60), <1>7, <1>8, <3>3
      <4> HIDE DEF n
      <4> QED BY <1>4, <1>5, <4>1
    <3> QED BY <3>2, <3>3
  <2> QED BY <2>1 DEF Tells
<1>12. Tells(Remember(all), ids, ids)
    BY <1>7, <1>11, RememberTells
<1>13. /\ Swept(t) \in Table /\ Swept(t).open = alive /\ Swept(t).spent = Remember(all)
       /\ Swept(t).next = t.next
    BY <1>0, <1>2, <1>3, <1>9 DEF Table
<1> QED BY <1>0, <1>2, <1>9, <1>10, <1>12, <1>13 DEF Sound, Open

-----------------------------------------------------------------------------
(* The steps                                                               *)

(* A table t and a set of paused branches that a request may go on from:   *)
(* those it found, or what the sweep left of them.                         *)
Narrowed(t, pauses) ==
    /\ Sound(t) /\ t.next = table.next
    /\ Open(t) \subseteq Open(table)
    /\ \A s \in ToSet(t.spent) : s.id < t.next /\ ~Known(t, s.id)
    /\ pauses \subseteq 1..Len(child)
    /\ ~Faults /\ op.kind # "begin" => pauses = {e.branch : e \in Open(t)}

LEMMA AsFound ==
    ASSUME TxSafe
    PROVE  Narrowed(table, paused)
<1>1. Sound(table)
    BY DEF TxSafe, Shaped, Tabled, Sound
<1>2. ~Faults /\ op.kind # "begin" => paused = {e.branch : e \in Open(table)}
    BY DEF TxSafe, Traceless
<1> QED BY <1>1, <1>2 DEF Narrowed, TxSafe, Shaped, Tabled

(* The sweep that every request runs first (ops.rs:697). *)
LEMMA AsSwept ==
    ASSUME TxSafe
    PROVE  Narrowed(Swept(table), Unpaused(table))
<1> DEFINE t == Swept(table)
<1>0. scenario \in Scenarios /\ Sound(table) /\ Distinct(table.open)
    BY DEF TxSafe, Shaped, Tabled, Sound
<1>1. /\ Sound(t) /\ t.next = table.next
      /\ Expiring(table) \subseteq Open(table) /\ Open(t) = Open(table) \ Expiring(table)
      /\ \A s \in ToSet(t.spent) :
            s \in ToSet(table.spent)
               \/ \E e \in Expiring(table) : s = [id |-> e.id, fate |-> "expired"]
    BY <1>0, SweptIs
<1> HIDE DEF t
<1>2. ASSUME NEW s \in ToSet(t.spent) PROVE s.id < t.next /\ ~Known(t, s.id)
  <2>1. CASE s \in ToSet(table.spent)
    <3>1. s.id < table.next /\ ~Known(table, s.id)
          BY <2>1 DEF TxSafe, Tabled
    <3> QED BY <1>1, <3>1 DEF Known, Open
  <2>2. ASSUME NEW e \in Expiring(table), s = [id |-> e.id, fate |-> "expired"]
        PROVE  s.id < t.next /\ ~Known(t, s.id)
    <3>1. e \in Open(table) /\ e.id < table.next /\ s.id = e.id
          BY <1>1, <2>2 DEF TxSafe, Tabled
    <3>2. \A f \in Open(t) : f.id # e.id
      <4>1. \A f \in Open(table) : f.id = e.id => f = e
            BY <1>0, <3>1, OneEntry
      <4> QED BY <1>1, <2>2, <4>1
    <3> QED BY <1>1, <3>1, <3>2 DEF Known, Open
  <2> QED BY <1>1, <2>1, <2>2
<1>3. Unpaused(table) \subseteq 1..Len(child)
    BY DEF TxSafe, Shaped, Unpaused
<1>4. ASSUME ~Faults, op.kind # "begin"
      PROVE  Unpaused(table) = {e.branch : e \in Open(t)}
  <2>1. paused = {e.branch : e \in Open(table)}
        BY <1>4 DEF TxSafe, Traceless
  <2>2. \A e, f \in Open(table) : e.branch = f.branch => e = f
        BY <1>0, OneEntry
  <2> QED BY <1>1, <2>1, <2>2 DEF Unpaused
<1> QED BY <1>1, <1>2, <1>3, <1>4 DEF Narrowed, t

(* What a request finds in a narrowed table is what was there. *)
LEMMA FoundThere ==
    ASSUME TxSafe, NEW t, NEW pauses, Narrowed(t, pauses), NEW h, Known(t, h)
    PROVE  /\ EntryOf(t, h) \in Open(t) /\ EntryOf(t, h) \in Open(table)
           /\ EntryOf(t, h).id = h /\ EntryOf(table, h) = EntryOf(t, h) /\ Known(table, h)
           /\ EntryOf(t, h) \in Entry /\ h \in Handle
<1>1. EntryOf(t, h) \in Open(t) /\ EntryOf(t, h).id = h
    BY EntryIs
<1>2. EntryOf(t, h) \in Open(table)
    BY <1>1 DEF Narrowed
<1>3. EntryOf(table, h) = EntryOf(t, h)
    BY <1>1, <1>2, OneEntry DEF TxSafe, Tabled
<1>4. EntryOf(t, h) \in Entry
    BY <1>2 DEF TxSafe, Shaped, Table, Open, ToSet
<1>5. Known(table, h)
    BY <1>1, <1>2 DEF Known, Open
<1>6. h \in Handle
    BY <1>1, <1>4 DEF Entry
<1> QED BY <1>1, <1>2, <1>3, <1>4, <1>5, <1>6

(* A request that leaves the table at the sweep and goes on to make        *)
(* something durable: no entry changes.                                    *)
LEMMA SweepingRequest ==
    ASSUME TxSafe, op = Idle, table' = Swept(table),
           UNCHANGED <<trunk, now, issued, saw, lastUse, scenario>>,
           paused' = Unpaused(table) \cup (IF op'.kind = "begin" THEN {op'.branch} ELSE {}),
           DOMAIN child \subseteq DOMAIN child',
           \A b \in DOMAIN child : OwnWrites(b) \subseteq OwnWrites(b)'
    PROVE  /\ table' \in Table /\ Len(table'.spent) <= Remembered
           /\ Tabled' /\ Traceless' /\ Remembering'
<1>0. Narrowed(table', Unpaused(table)) /\ op.kind = "none"
    BY AsSwept DEF Idle
<1>s. /\ (Faults' <=> Faults)
      /\ (TornTable' <=> TornTable) /\ (TornCounter' <=> TornCounter) /\ Handle' = Handle
    BY SameBounds
<1>1. /\ Sound(table') /\ table'.next = table.next /\ Open(table') \subseteq Open(table)
      /\ \A s \in ToSet(table'.spent) : s.id < table'.next /\ ~Known(table', s.id)
      /\ ~Faults => Unpaused(table) = {e.branch : e \in Open(table')}
    BY <1>0 DEF Narrowed
<1>2. Tabled'
  <2>1. \A e \in Open(table') : /\ e.id < table'.next /\ e.id \in issued'
                               /\ e.branch \in DOMAIN child'
                               /\ e.writes \subseteq OwnWrites(e.branch)'
                               /\ lastUse'[e.id] <= e.touched /\ e.touched <= now'
        BY <1>1 DEF TxSafe, Tabled
  <2>2. Distinct(table'.open)
        BY <1>1 DEF Sound
  <2> QED BY <1>1, <2>1, <2>2 DEF Tabled, Distinct, Open, Known
<1>3. Traceless'
  <2>1. ASSUME ~Faults, NEW e \in Open(table') PROVE LandedOf(e.branch)' = {}
    <3>1. LandedOf(e.branch) = {}
          BY <1>0, <1>1, <2>1 DEF TxSafe, Traceless
    <3> QED BY <3>1 DEF LandedOf
  <2> QED BY <1>1, <1>s, <2>1 DEF Traceless, Open
<1>4. Remembering'
    BY <1>1, <1>s DEF TxSafe, Remembering, Open
<1> QED BY <1>1, <1>2, <1>3, <1>4 DEF Sound

(* A request that ends by writing its transaction's entry: a read, the     *)
(* save of a write, a commit that is rejected.                             *)
LEMMA SavingRequest ==
    ASSUME TxSafe, NEW t, Narrowed(t, paused'), op.kind # "begin",
           NEW h, Known(t, h), NEW e \in Entry, e.id = h, e.branch = EntryOf(t, h).branch,
           NEW asked \in 0..MaxTime, asked <= e.touched, e.touched <= now,
           table' = With(t, h, e), op' = Idle,
           UNCHANGED <<store, alloc, now, issued, scenario>>,
           lastUse' = [lastUse EXCEPT ![h] = asked],
           saw' \in [Handle -> SUBSET Cell], \A g \in Handle : g # h => saw'[g] = saw[g],
           ~TornTable => saw'[h] \subseteq e.reads,
           e.writes \subseteq OwnWrites(e.branch),
           ~Faults => LandedOf(e.branch) = {} /\ (op.kind = "land" => op.tx = h)
    PROVE  TxSafe'
<1>0. /\ h \in Handle /\ EntryOf(t, h) \in Open(table) /\ EntryOf(t, h) \in Open(t)
      /\ EntryOf(t, h).id = h
    BY FoundThere
<1>s. /\ (Faults' <=> Faults)
      /\ (TornTable' <=> TornTable) /\ (TornCounter' <=> TornCounter) /\ Handle' = Handle
      /\ Table' = Table /\ Request' = Request /\ Cell' = Cell /\ Remembered' = Remembered
      /\ TrunkLayer' = TrunkLayer /\ ChildRec' = ChildRec /\ MaxFork' = MaxFork
      /\ MaxWrite' = MaxWrite /\ MaxAlloc' = MaxAlloc /\ MaxTime' = MaxTime /\ Named' = Named
      /\ (TornCounter' <=> TornCounter)
    BY SameBounds
<1>1. /\ Sound(t) /\ t.next = table.next /\ Open(t) \subseteq Open(table)
      /\ \A s \in ToSet(t.spent) : s.id < t.next /\ ~Known(t, s.id)
      /\ paused' \subseteq 1..Len(child)
      /\ ~Faults => paused' = {f.branch : f \in Open(t)}
    BY DEF Narrowed
<1>2. /\ Sound(table') /\ table'.next = table.next /\ table'.spent = t.spent
      /\ Open(table') = {f \in Open(t) : f.id # h} \cup {e}
    BY <1>0, <1>1, WithIs
<1>3. \A b \in DOMAIN child : OwnWrites(b)' = OwnWrites(b)
    BY DEF store, OwnWrites
<1>u. trunk' = trunk /\ child' = child /\ op'.kind = "none"
    BY DEF store, Idle
<1>4. Shaped'
  <2>1. lastUse' \in [Handle -> 0..MaxTime]
        BY DEF TxSafe, Shaped
  <2>2. op' \in Request
        BY DEF Request
  <2> QED BY <1>1, <1>2, <1>s, <1>u, <2>1, <2>2 DEF TxSafe, Shaped, Sound
<1>5. Tabled'
  <2>1. ASSUME NEW f \in Open(table')
        PROVE  /\ f.id < table'.next /\ f.id \in issued'
               /\ f.branch \in DOMAIN child'
               /\ f.writes \subseteq OwnWrites(f.branch)'
               /\ lastUse'[f.id] <= f.touched /\ f.touched <= now'
    <3>1. CASE f # e
      <4>1. f \in Open(table) /\ f.id # h
            BY <1>1, <1>2, <3>1
      <4>2. /\ f.id < table.next /\ f.id \in issued /\ f.branch \in DOMAIN child
            /\ f.writes \subseteq OwnWrites(f.branch)
            /\ lastUse[f.id] <= f.touched /\ f.touched <= now
            BY <4>1 DEF TxSafe, Tabled
      <4>3. lastUse'[f.id] = lastUse[f.id]
            BY <4>1, <4>2 DEF TxSafe, Shaped
      <4> QED BY <1>2, <1>3, <1>u, <4>2, <4>3
    <3>2. CASE f = e
      <4>1. /\ h < table.next /\ h \in issued /\ e.branch \in DOMAIN child
            BY <1>0 DEF TxSafe, Tabled
      <4>2. lastUse'[h] = asked
            BY <1>0 DEF TxSafe, Shaped
      <4> QED BY <1>2, <1>3, <1>u, <3>2, <4>1, <4>2
    <3> QED BY <3>1, <3>2
  <2>2. \A k : Known(table', k) => Known(t, k)
    <3>1. \A k : Known(table', k) <=> \E f \in Open(table') : f.id = k
          BY DEF Known, Open
    <3>2. \A k : Known(t, k) <=> \E f \in Open(t) : f.id = k
          BY DEF Known, Open
    <3> QED BY <1>0, <1>2, <3>1, <3>2
  <2> QED BY <1>1, <1>2, <2>1, <2>2 DEF Tabled, Sound, Distinct, Open, Known
<1>6. Gated' /\ LandsSoundly'
    BY <1>u DEF Gated, LandsSoundly
<1>7. NamesGiven'
    BY <1>u, <1>3, <1>s DEF TxSafe, NamesGiven, AllocatedIsFresh
<1>8. Traceless'
  <2>1. ASSUME ~Faults, NEW f \in Open(table') PROVE LandedOf(f.branch)' = {}
    <3>1. LandedOf(f.branch) = {}
          BY <1>1, <1>2, <2>1 DEF TxSafe, Traceless
    <3> QED BY <1>u, <3>1 DEF LandedOf
  <2>2. {f.branch : f \in Open(t)} = {f.branch : f \in Open(table')}
    <3>1. \A f \in Open(t) : f.id = h => f = EntryOf(t, h)
          BY <1>0, <1>1, OneEntry DEF Sound
    <3> QED BY <1>0, <1>2, <3>1
  <2> QED BY <1>1, <1>s, <1>u, <2>1, <2>2 DEF Traceless, Open
<1>9. Remembering'
  <2>1. \A g \in Handle : saw'[g] # {} => g \in issued
    <3>1. h \in issued
          BY <1>0 DEF TxSafe, Tabled
    <3> QED BY <3>1 DEF TxSafe, Remembering
  <2>2. ASSUME ~TornTable, NEW f \in Open(table') PROVE saw'[f.id] \subseteq f.reads
    <3>1. CASE f = e
          BY <2>2, <3>1
    <3>2. CASE f # e
      <4>1. f \in Open(table) /\ f.id # h /\ f.id \in issued
            BY <1>1, <1>2, <3>2 DEF TxSafe, Tabled
      <4>2. f.id \in Handle
            BY <4>1 DEF TxSafe, Shaped
      <4> QED BY <2>2, <4>1, <4>2 DEF TxSafe, Remembering
    <3> QED BY <3>1, <3>2
  <2> QED BY <1>2, <1>s, <2>1, <2>2 DEF TxSafe, Remembering, Open
<1> QED BY <1>4, <1>5, <1>6, <1>7, <1>8, <1>9 DEF TxSafe

(* A request that ends its transaction: an abort, or a commit whose layers *)
(* have all landed.                                                        *)
LEMMA EndingRequest ==
    ASSUME TxSafe, NEW t, NEW pauses, Narrowed(t, pauses), op.kind # "begin",
           NEW h, Known(t, h), NEW fate \in Fate, table' = Retire(t, h, fate),
           paused' = pauses \ {EntryOf(t, h).branch}, op' = Idle,
           UNCHANGED <<store, alloc, now, issued, saw, scenario>>,
           NEW asked \in 0..MaxTime, lastUse' = [lastUse EXCEPT ![h] = asked],
           op.kind = "land" => op.tx = h
    PROVE  TxSafe'
<1>0. /\ h \in Handle /\ EntryOf(t, h) \in Open(table) /\ EntryOf(t, h) \in Open(t)
      /\ EntryOf(t, h).id = h
    BY FoundThere
<1>s. /\ (Faults' <=> Faults)
      /\ (TornTable' <=> TornTable) /\ (TornCounter' <=> TornCounter) /\ Handle' = Handle
      /\ Table' = Table /\ Request' = Request /\ Cell' = Cell /\ Remembered' = Remembered
      /\ TrunkLayer' = TrunkLayer /\ ChildRec' = ChildRec /\ MaxFork' = MaxFork
      /\ MaxWrite' = MaxWrite /\ MaxAlloc' = MaxAlloc /\ MaxTime' = MaxTime /\ Named' = Named
      /\ (TornCounter' <=> TornCounter)
    BY SameBounds
<1>1. /\ Sound(t) /\ t.next = table.next /\ Open(t) \subseteq Open(table)
      /\ \A s \in ToSet(t.spent) : s.id < t.next /\ ~Known(t, s.id)
      /\ pauses \subseteq 1..Len(child)
      /\ ~Faults => pauses = {f.branch : f \in Open(t)}
    BY DEF Narrowed
<1>2. /\ Sound(table') /\ table'.next = table.next
      /\ Open(table') = {f \in Open(t) : f.id # h}
      /\ \A s \in ToSet(table'.spent) : s \in ToSet(t.spent) \/ s = [id |-> h, fate |-> fate]
  <2>1. scenario \in Scenarios
        BY DEF TxSafe, Shaped
  <2>2. Sound(t) /\ h \in Handle /\ fate \in Fate
        BY <1>0, <1>1
  <2> DEFINE r == Retire(t, h, fate)
  <2>3. Sound(r) /\ r.next = t.next
        BY <2>1, <2>2, RetireIs
  <2>4. Open(r) = {e \in Open(t) : e.id # h}
        BY ZenonT(60), <2>1, <2>2, RetireIs
  <2>5. \A s \in ToSet(r.spent) : s \in ToSet(t.spent) \/ s = [id |-> h, fate |-> fate]
        BY <2>1, <2>2, RetireIs
  <2> HIDE DEF r
  <2>6. table' = r
        BY DEF r
  <2> QED BY <1>1, <2>3, <2>4, <2>5, <2>6
<1>3. \A b \in DOMAIN child : OwnWrites(b)' = OwnWrites(b)
    BY DEF store, OwnWrites
<1>u. trunk' = trunk /\ child' = child /\ op'.kind = "none"
    BY DEF store, Idle
<1>4. Shaped'
  <2>1. lastUse' \in [Handle -> 0..MaxTime]
        BY DEF TxSafe, Shaped
  <2>2. op' \in Request
        BY DEF Request
  <2> QED BY <1>1, <1>2, <1>s, <1>u, <2>1, <2>2 DEF TxSafe, Shaped, Sound
<1>5. Tabled'
  <2>1. ASSUME NEW f \in Open(table')
        PROVE  /\ f.id < table'.next /\ f.id \in issued'
               /\ f.branch \in DOMAIN child'
               /\ f.writes \subseteq OwnWrites(f.branch)'
               /\ lastUse'[f.id] <= f.touched /\ f.touched <= now'
    <3>1. f \in Open(table) /\ f.id # h
          BY <1>1, <1>2, <2>1
    <3>2. /\ f.id < table.next /\ f.id \in issued /\ f.branch \in DOMAIN child
          /\ f.writes \subseteq OwnWrites(f.branch)
          /\ lastUse[f.id] <= f.touched /\ f.touched <= now
          BY <3>1 DEF TxSafe, Tabled
    <3>3. lastUse'[f.id] = lastUse[f.id]
          BY <3>1, <3>2 DEF TxSafe, Shaped
    <3> QED BY <1>2, <1>3, <1>u, <3>2, <3>3
  <2>2. ASSUME NEW s \in ToSet(table'.spent) PROVE s.id < table'.next /\ ~Known(table', s.id)
    <3>1. s.id < table.next
          BY <1>0, <1>1, <1>2, <2>2 DEF TxSafe, Tabled
    <3>2. ~Known(table', s.id)
      <4>1. s \in ToSet(t.spent) => \A f \in Open(t) : f.id # s.id
            BY <1>1 DEF Known, Open
      <4> QED BY <1>2, <2>2, <4>1 DEF Known, Open
    <3> QED BY <1>2, <3>1, <3>2
  <2> QED BY <1>2, <2>1, <2>2 DEF Tabled, Sound, Distinct, Open, Known
<1>6. Gated' /\ LandsSoundly'
    BY <1>u DEF Gated, LandsSoundly
<1>7. NamesGiven'
    BY <1>u, <1>3, <1>s DEF TxSafe, NamesGiven, AllocatedIsFresh
<1>8. Traceless'
  <2>1. ASSUME ~Faults, NEW f \in Open(table') PROVE LandedOf(f.branch)' = {}
    <3>1. LandedOf(f.branch) = {}
          BY <1>1, <1>2, <2>1 DEF TxSafe, Traceless
    <3> QED BY <1>u, <3>1 DEF LandedOf
  <2>2. {f.branch : f \in Open(t)} \ {EntryOf(t, h).branch} = {f.branch : f \in Open(table')}
    <3>1. \A f \in Open(t) : f.id = h => f = EntryOf(t, h)
          BY <1>0, <1>1, OneEntry DEF Sound
    <3>2. \A f \in Open(t) : f.branch = EntryOf(t, h).branch => f = EntryOf(t, h)
          BY <1>0, <1>1, OneEntry DEF Sound
    <3> QED BY <1>0, <1>2, <3>1, <3>2
  <2> QED BY <1>1, <1>s, <1>u, <2>1, <2>2 DEF Traceless, Open
<1>9. Remembering'
    BY <1>1, <1>2, <1>s DEF TxSafe, Remembering, Open
<1> QED BY <1>4, <1>5, <1>6, <1>7, <1>8, <1>9 DEF TxSafe

-----------------------------------------------------------------------------
(* The requests, one after the other                                       *)

(* The cells that a sequence of layers writes. *)
Cells(s) == UNION {DOMAIN s[k] : k \in DOMAIN s}

LEMMA OwnCells == \A b : OwnWrites(b) = Cells(child[b].layers)
BY DEF OwnWrites, Cells

LEMMA CellsOf == \A s, x : x \in Cells(s) <=> \E k \in DOMAIN s : x \in DOMAIN s[k]
BY DEF Cells

(* One more layer adds the cells it writes. *)
LEMMA CellsAppended ==
    ASSUME NEW s \in Seq(Layer), NEW w \in Layer
    PROVE  Cells(Append(s, w)) = Cells(s) \cup DOMAIN w
<1> DEFINE q == Append(s, w)
<1>1. /\ Len(s) \in Nat /\ DOMAIN s = 1..Len(s) /\ DOMAIN q = 1..(Len(s) + 1)
      /\ q[Len(s) + 1] = w /\ \A i \in DOMAIN s : q[i] = s[i]
    OBVIOUS
<1> HIDE DEF q
<1>2. \A i : i \in DOMAIN q <=> i \in DOMAIN s \/ i = Len(s) + 1
    BY <1>1
<1>3. ASSUME NEW x PROVE x \in Cells(q) <=> x \in Cells(s) \/ x \in DOMAIN w
  <2>1. (\E k \in DOMAIN q : x \in DOMAIN q[k])
           => (\E k \in DOMAIN s : x \in DOMAIN s[k]) \/ x \in DOMAIN w
        BY <1>1, <1>2
  <2>2. (\E k \in DOMAIN s : x \in DOMAIN s[k]) => \E k \in DOMAIN q : x \in DOMAIN q[k]
        BY <1>1, <1>2
  <2>3. Len(s) + 1 \in DOMAIN q /\ q[Len(s) + 1] = w
        BY <1>1
  <2> QED BY <2>1, <2>2, <2>3, CellsOf, Zenon
<1>4. Cells(q) = Cells(s) \cup DOMAIN w
    BY <1>3
<1> QED BY <1>4 DEF q

(* What a branch holds after one more layer on it. *)
LEMMA LayerAdded ==
    ASSUME child \in Seq(ChildRec), NEW b \in DOMAIN child, NEW w \in Layer,
           child' = [child EXCEPT ![b].layers = Append(@, w)]
    PROVE  /\ child' \in Seq(ChildRec) /\ Len(child') = Len(child) /\ DOMAIN child' = DOMAIN child
           /\ \A d \in DOMAIN child : child'[d].fork = child[d].fork
           /\ \A d \in DOMAIN child : d # b => child'[d] = child[d]
           /\ Len(child'[b].layers) = Len(child[b].layers) + 1
           /\ OwnWrites(b)' = OwnWrites(b) \cup DOMAIN w
           /\ \A d \in DOMAIN child : d # b => OwnWrites(d)' = OwnWrites(d)
<1> DEFINE s == child[b].layers
           q == Append(s, w)
<1>1. child[b] \in ChildRec /\ s \in Seq(Layer)
  <2>1. child[b] \in ChildRec
        OBVIOUS
  <2> QED BY <2>1 DEF ChildRec
<1>2. child' = [child EXCEPT ![b] = [child[b] EXCEPT !.layers = q]]
    OBVIOUS
<1>3. /\ q \in Seq(Layer) /\ Len(q) = Len(s) + 1 /\ Len(s) \in Nat
      /\ DOMAIN s = 1..Len(s) /\ DOMAIN q = 1..(Len(s) + 1)
      /\ q[Len(s) + 1] = w /\ \A i \in 1..Len(s) : q[i] = s[i]
    BY <1>1
<1> HIDE DEF q
<1>4. [child[b] EXCEPT !.layers = q] \in ChildRec
    BY <1>1, <1>3 DEF ChildRec
<1>5. /\ child' \in Seq(ChildRec) /\ Len(child') = Len(child) /\ DOMAIN child' = DOMAIN child
      /\ child'[b].layers = q /\ child'[b].fork = child[b].fork
      /\ \A d \in DOMAIN child : d # b => child'[d] = child[d]
  <2> DEFINE new == [child[b] EXCEPT !.layers = q]
  <2>1. new.layers = q /\ new.fork = child[b].fork
        BY <1>1 DEF ChildRec
  <2> HIDE DEF new
  <2>2. new \in ChildRec /\ child' = [child EXCEPT ![b] = new]
        BY <1>2, <1>4 DEF new
  <2>3. /\ child' \in Seq(ChildRec) /\ Len(child') = Len(child) /\ DOMAIN child' = DOMAIN child
        /\ child'[b] = new /\ \A d \in DOMAIN child : d # b => child'[d] = child[d]
    <3>1. DOMAIN child = 1..Len(child) /\ Len(child) \in Nat
          /\ \A d \in DOMAIN child : child[d] \in ChildRec
          OBVIOUS
    <3>2. DOMAIN child' = DOMAIN child /\ child'[b] = new
          /\ \A d \in DOMAIN child : d # b => child'[d] = child[d]
          BY <2>2
    <3>3. child' \in Seq(ChildRec)
      <4>1. child' \in [1..Len(child) -> ChildRec]
            BY <2>2, <3>1, <3>2
      <4> QED BY <3>1, <4>1
    <3>4. DOMAIN child' = 1..Len(child') /\ Len(child') \in Nat
          BY <3>3
    <3> QED BY <3>1, <3>2, <3>3, <3>4
  <2> QED BY <2>1, <2>3
<1>6. Cells(q) = Cells(s) \cup DOMAIN w
    BY <1>1, CellsAppended DEF q
<1>7. OwnWrites(b)' = OwnWrites(b) \cup DOMAIN w
  <2>1. OwnWrites(b)' = Cells(child'[b].layers)
        BY DEF OwnWrites, Cells
  <2>2. OwnWrites(b) = Cells(s)
        BY OwnCells
  <2> QED BY <1>5, <1>6, <2>1, <2>2
<1>8. \A d \in DOMAIN child : d # b => OwnWrites(d)' = OwnWrites(d)
    BY <1>5 DEF OwnWrites
<1> QED BY <1>3, <1>5, <1>7, <1>8 DEF q

(* A cell a session writes is a cell, and the layer it makes a layer. *)
LEMMA SessionLayer ==
    ASSUME NEW b, NEW c \in Cell, NEW v \in Written
    PROVE  /\ SessionWrites(b, c, v) \in Layer
           /\ DOMAIN SessionWrites(b, c, v) \subseteq {c} \cup SessionReads(c)
           /\ SessionReads(c) \subseteq Cell
           /\ \A d \in SessionReads(c) : d[2] = c[2]
<1>1. Exists(c) \in Cell /\ Exists(c)[2] = c[2]
    BY DEF Cell, Exists
<1>2. SessionReads(c) \subseteq Cell /\ \A d \in SessionReads(c) : d[2] = c[2]
    BY <1>1 DEF SessionReads
<1> DEFINE implied == {e \in SessionReads(c) : ~HasRecord(b, e)}
           W == {c} \cup implied
<1>3. SessionWrites(b, c, v) = [w \in W |-> IF w = c THEN v ELSE "value"]
    BY DEF SessionWrites
<1>4. W \subseteq Cell /\ W \subseteq {c} \cup SessionReads(c)
    BY <1>2
<1> HIDE DEF W
<1>5. [w \in W |-> IF w = c THEN v ELSE "value"] \in [W -> Written]
    BY DEF Written
<1> QED BY <1>2, <1>3, <1>4, <1>5 DEF Layer

LEMMA SweepOnlyKeeps == TxSafe /\ SweepOnly => TxSafe'
<1> SUFFICES ASSUME TxSafe, SweepOnly PROVE TxSafe'
    OBVIOUS
<1>0. /\ op = Idle /\ op' = Idle /\ table' = Swept(table) /\ paused' = Unpaused(table)
      /\ trunk' = trunk /\ child' = child
      /\ UNCHANGED <<alloc, now, issued, saw, lastUse, scenario>>
    BY DEF SweepOnly, store, history
<1>1. op.kind = "none" /\ op'.kind = "none"
    BY <1>0 DEF Idle
<1>2. \A b \in DOMAIN child : OwnWrites(b)' = OwnWrites(b)
    BY <1>0 DEF OwnWrites
<1>3. /\ table' \in Table /\ Len(table'.spent) <= Remembered
      /\ Tabled' /\ Traceless' /\ Remembering'
    BY <1>0, <1>1, <1>2, SweepingRequest
<1>s. /\ Table' = Table /\ Request' = Request /\ Cell' = Cell /\ Remembered' = Remembered
      /\ TrunkLayer' = TrunkLayer /\ ChildRec' = ChildRec /\ MaxFork' = MaxFork /\ Handle' = Handle
      /\ MaxWrite' = MaxWrite /\ MaxAlloc' = MaxAlloc /\ MaxTime' = MaxTime /\ Named' = Named
      /\ (TornCounter' <=> TornCounter)
    BY <1>0, SameBounds
<1>4. paused' \subseteq 1..Len(child)
    BY <1>0 DEF TxSafe, Shaped, Unpaused
<1>5. Shaped'
    BY <1>0, <1>3, <1>4, <1>s DEF TxSafe, Shaped
<1>6. Gated' /\ LandsSoundly'
    BY <1>1 DEF Gated, LandsSoundly
<1>7. NamesGiven'
    BY <1>0, <1>1, <1>2, <1>s DEF TxSafe, NamesGiven, AllocatedIsFresh
<1> QED BY <1>3, <1>5, <1>6, <1>7 DEF TxSafe

(* What the branches hold after one more of them. *)
LEMMA BranchAdded ==
    ASSUME child \in Seq(ChildRec), NEW n \in Nat, NEW b, b = Len(child) + 1,
           child' = Append(child, [fork |-> n, layers |-> <<>>])
    PROVE  /\ child' \in Seq(ChildRec) /\ Len(child') = Len(child) + 1 /\ Len(child) \in Nat
           /\ DOMAIN child = 1..Len(child) /\ DOMAIN child' = 1..(Len(child) + 1)
           /\ \A d \in DOMAIN child : child'[d] = child[d] /\ OwnWrites(d)' = OwnWrites(d)
           /\ child'[b] = [fork |-> n, layers |-> <<>>]
           /\ OwnWrites(b)' = {}
<1> DEFINE new == [fork |-> n, layers |-> <<>>]
<1>1. new \in ChildRec /\ new.layers = <<>>
    BY DEF ChildRec
<1> HIDE DEF new
<1>2. child' = Append(child, new)
    BY DEF new
<1>3. /\ child' \in Seq(ChildRec) /\ Len(child') = Len(child) + 1 /\ Len(child) \in Nat
      /\ DOMAIN child = 1..Len(child) /\ DOMAIN child' = 1..(Len(child) + 1)
      /\ \A d \in DOMAIN child : child'[d] = child[d]
      /\ child'[Len(child) + 1] = new
    BY <1>1, <1>2
<1>4. \A d \in DOMAIN child : OwnWrites(d)' = OwnWrites(d)
    BY <1>3 DEF OwnWrites
<1>5. OwnWrites(b)' = {}
    BY <1>1, <1>3 DEF OwnWrites
<1> QED BY <1>3, <1>4, <1>5 DEF new

(* What branches hold: layers, of cells. *)
LEMMA Branches ==
    ASSUME Shaped, NEW d \in DOMAIN child
    PROVE  /\ child[d].layers \in Seq(Layer) /\ child[d].fork \in 1..Len(trunk)
           /\ Len(child[d].layers) \in 0..MaxWrite /\ OwnWrites(d) \subseteq Cell
<1>1. child[d] \in ChildRec
    BY DEF Shaped
<1>2. child[d].layers \in Seq(Layer)
    BY <1>1 DEF ChildRec
<1>3. OwnWrites(d) \subseteq Cell
  <2> SUFFICES ASSUME NEW x \in OwnWrites(d) PROVE x \in Cell
      OBVIOUS
  <2>1. PICK k \in DOMAIN child[d].layers : x \in DOMAIN child[d].layers[k]
        BY DEF OwnWrites
  <2> DEFINE w == child[d].layers[k]
  <2>2. w \in Layer
        BY <1>2, <2>1
  <2> HIDE DEF w
  <2>3. x \in DOMAIN w
        BY <2>1 DEF w
  <2> QED BY <2>2, <2>3 DEF Layer
<1> QED BY <1>2, <1>3 DEF Shaped

(* Layers of the parent were landed by branches there are. *)
LEMMA Authors ==
    ASSUME Shaped, NEW i \in DOMAIN trunk
    PROVE  /\ trunk[i] \in TrunkLayer /\ trunk[i].by \in 0..Len(child)
           /\ trunk[i].n \in 1..(MaxWrite + 1) /\ trunk[i].w \in Layer
<1>1. trunk[i] \in TrunkLayer
    BY DEF Shaped
<1>2. trunk[i].by \in Fork \cup {Nobody} /\ trunk[i].n \in 1..(MaxWrite + 1) /\ trunk[i].w \in Layer
    BY <1>1 DEF TrunkLayer
<1>3. trunk[i].by <= Len(child) /\ Len(child) \in Nat
    BY DEF Shaped
<1>4. trunk[i].by \in Nat
    BY <1>2 DEF Fork, Nobody
<1> QED BY <1>1, <1>2, <1>3, <1>4

(* tx_begin, up to the fork: nothing of the new branch is anywhere yet. *)
LEMMA TxBeginKeeps == TxSafe /\ TxBegin => TxSafe'
<1> SUFFICES ASSUME TxSafe, TxBegin PROVE TxSafe'
    OBVIOUS
<1>p. PICK b : b = Len(child) + 1
    OBVIOUS
<1>0. /\ op = Idle /\ op' = [kind |-> "begin", branch |-> b, asked |-> now]
      /\ table' = Swept(table)
      /\ paused' = Unpaused(table) \cup {b} /\ trunk' = trunk
      /\ child' = Append(child, [fork |-> Len(trunk), layers |-> <<>>])
      /\ UNCHANGED <<alloc, now, issued, saw, lastUse, scenario>>
      /\ Len(child) < MaxFork /\ table.next <= MaxTx
    BY <1>p DEF TxBegin, store, history
<1>1. op'.kind = "begin" /\ op'.branch = b /\ op'.asked = now /\ op.kind = "none"
    BY <1>0 DEF Idle
<1>s. /\ Table' = Table /\ Request' = Request /\ Cell' = Cell /\ Remembered' = Remembered
      /\ TrunkLayer' = TrunkLayer /\ ChildRec' = ChildRec /\ MaxFork' = MaxFork /\ Handle' = Handle
      /\ MaxWrite' = MaxWrite /\ MaxAlloc' = MaxAlloc /\ MaxTime' = MaxTime /\ Named' = Named
      /\ (TornCounter' <=> TornCounter)
      /\ MaxTx' = MaxTx /\ MaxWrite \in Nat /\ MaxFork \in Nat
    BY <1>0, SameBounds, Bounds DEF TxSafe, Shaped
<1>b. /\ Len(trunk) \in Nat /\ Len(trunk) \in 1..Len(trunk)
      /\ now \in 0..MaxTime /\ now <= now
    BY Bounds DEF TxSafe, Shaped
<1>2. /\ child' \in Seq(ChildRec) /\ Len(child') = b /\ Len(child) \in Nat
      /\ DOMAIN child = 1..Len(child) /\ DOMAIN child' = 1..b
      /\ \A d \in DOMAIN child : child'[d] = child[d] /\ OwnWrites(d)' = OwnWrites(d)
      /\ child'[b] = [fork |-> Len(trunk), layers |-> <<>>] /\ OwnWrites(b)' = {}
  <2>1. child \in Seq(ChildRec)
        BY DEF TxSafe, Shaped
  <2> QED BY <1>0, <1>b, <1>p, <2>1, BranchAdded
<1>3. DOMAIN child \subseteq DOMAIN child' /\ b \in DOMAIN child' /\ b \notin DOMAIN child
      /\ \A d \in DOMAIN child' : d \in DOMAIN child \/ d = b
    BY <1>2, <1>p
<1>f. b \in Fork
    BY <1>0, <1>2, <1>s, <1>p DEF Fork
<1>4. /\ table' \in Table /\ Len(table'.spent) <= Remembered
      /\ Tabled' /\ Traceless' /\ Remembering'
  <2>1. \A d \in DOMAIN child : OwnWrites(d) \subseteq OwnWrites(d)'
        BY <1>2
  <2>2. paused' = Unpaused(table) \cup (IF op'.kind = "begin" THEN {op'.branch} ELSE {})
        BY <1>0, <1>1
  <2> QED BY <1>0, <1>3, <2>1, <2>2, SweepingRequest
<1>n. Narrowed(table', Unpaused(table))
    BY <1>0, AsSwept
<1>5. Shaped'
  <2>1. \A d \in DOMAIN child' : /\ child'[d].fork \in 1..Len(trunk')
                                 /\ Len(child'[d].layers) <= MaxWrite
    <3>1. child'[b].fork \in 1..Len(trunk') /\ Len(child'[b].layers) <= MaxWrite
          BY <1>0, <1>b, <1>2, <1>s
    <3>2. \A d \in DOMAIN child : /\ child[d].fork \in 1..Len(trunk)
                                  /\ Len(child[d].layers) <= MaxWrite
          BY DEF TxSafe, Shaped
    <3> QED BY <1>0, <1>2, <1>3, <3>1, <3>2
  <2>2. op' \in Request
        BY <1>0, <1>b, <1>f DEF Request
  <2>3. paused' \subseteq 1..Len(child')
        BY <1>0, <1>2, <1>3, <1>n DEF Narrowed
  <2>4. \A i \in DOMAIN trunk' : trunk'[i].by <= Len(child')
    <3>1. \A i \in DOMAIN trunk : trunk[i].by \in 0..Len(child)
          BY Authors DEF TxSafe
    <3> QED BY <1>0, <1>2, <1>p, <3>1
  <2>5. Len(child') <= MaxFork
        BY <1>0, <1>2, <1>s, <1>p
  <2> QED BY <1>0, <1>2, <1>4, <1>s, <2>1, <2>2, <2>3, <2>4, <2>5 DEF TxSafe, Shaped
<1>6. Gated'
  <2>1. LandedOf(b)' = {}
    <3>1. \A i \in DOMAIN trunk : trunk[i].by # b
      <4>1. \A i \in DOMAIN trunk : trunk[i].by \in 0..Len(child)
            BY Authors DEF TxSafe
      <4> QED BY <1>2, <1>p, <4>1
    <3> QED BY <1>0, <3>1 DEF LandedOf
  <2>2. \A e \in Open(table') : e.branch # b
    <3>1. \A e \in Open(table) : e.branch \in DOMAIN child
          BY DEF TxSafe, Tabled
    <3> QED BY <1>3, <1>n, <3>1 DEF Narrowed
  <2>3. table'.next = table.next
        BY <1>n DEF Narrowed
  <2> QED BY <1>0, <1>1, <1>b, <1>3, <1>s, <2>1, <2>2, <2>3 DEF Gated, Open
<1>7. LandsSoundly'
    BY <1>1 DEF LandsSoundly
<1>8. NamesGiven'
  <2>1. ~TornCounter => \A d \in DOMAIN child' : \A c \in OwnWrites(d)' :
                           c[2] \in Named \/ c[2] < alloc
        BY <1>2, <1>3 DEF TxSafe, NamesGiven
  <2> QED BY <1>0, <1>1, <1>s, <2>1 DEF NamesGiven, AllocatedIsFresh
<1> QED BY <1>4, <1>5, <1>6, <1>7, <1>8 DEF TxSafe

(* tx_set, up to the commit of its session: there is room for the layer,   *)
(* its cells are of objects clients were given, and what the session       *)
(* probed is not what the transaction wrote before.                        *)
LEMMA TxSetKeeps ==
    ASSUME TxSafe, NEW h \in Handle, NEW c \in Cell, NEW v \in Written, TxSet(h, c, v)
    PROVE  TxSafe'
<1>t. Narrowed(Swept(table), Unpaused(table))
    BY AsSwept
<1>e. /\ EntryOf(Swept(table), h) \in Open(Swept(table)) /\ EntryOf(table, h) \in Open(table)
      /\ EntryOf(table, h).id = h /\ EntryOf(Swept(table), h) = EntryOf(table, h)
    BY <1>t, FoundThere DEF TxSet
<1>p. PICK e : e = EntryOf(table, h)
    OBVIOUS
<1>b. PICK b : b = e.branch
    OBVIOUS
<1>w. PICK w : w = SessionWrites(b, c, v)
    OBVIOUS
<1>q. PICK q : q = SessionReads(c) \ OwnWrites(b)
    OBVIOUS
<1>0. /\ op = Idle /\ table' = Swept(table) /\ paused' = Unpaused(table) /\ Addressable(c)
      /\ Len(child[b].layers) < MaxWrite /\ Known(Swept(table), h)
      /\ op' = [kind |-> "write", tx |-> h, layer |-> w, reads |-> SessionReads(c),
                parents |-> q, asked |-> now, at |-> now]
      /\ trunk' = trunk /\ child' = child
      /\ UNCHANGED <<alloc, now, issued, saw, lastUse, scenario>>
    BY <1>p, <1>b, <1>w, <1>q DEF TxSet, store, history
<1>1. /\ op'.kind = "write" /\ op'.tx = h /\ op'.reads = SessionReads(c) /\ op'.layer = w
      /\ op'.parents = q /\ op'.asked = now /\ op'.at = now /\ op.kind = "none"
    BY <1>0 DEF Idle
<1>s. /\ Table' = Table /\ Request' = Request /\ Cell' = Cell /\ Remembered' = Remembered
      /\ TrunkLayer' = TrunkLayer /\ ChildRec' = ChildRec /\ MaxFork' = MaxFork /\ Handle' = Handle
      /\ MaxWrite' = MaxWrite /\ MaxAlloc' = MaxAlloc /\ MaxTime' = MaxTime /\ Named' = Named
      /\ (TornCounter' <=> TornCounter)
      /\ MaxTx' = MaxTx
    BY <1>0, SameBounds
<1>n. now \in 0..MaxTime /\ now <= now
    BY Bounds DEF TxSafe, Shaped
<1>2. b \in DOMAIN child /\ e.writes \subseteq OwnWrites(b)
    BY <1>e, <1>p, <1>b DEF TxSafe, Tabled
<1>3. /\ w \in Layer /\ DOMAIN w \subseteq {c} \cup SessionReads(c)
      /\ SessionReads(c) \subseteq Cell /\ \A d \in SessionReads(c) : d[2] = c[2]
    BY <1>w, SessionLayer
<1>u. \A d : OwnWrites(d)' = OwnWrites(d)
    BY <1>0 DEF OwnWrites
<1>6. /\ table' \in Table /\ Len(table'.spent) <= Remembered
      /\ Tabled' /\ Traceless' /\ Remembering'
  <2>1. paused' = Unpaused(table) \cup (IF op'.kind = "begin" THEN {op'.branch} ELSE {})
        BY <1>0, <1>1
  <2> QED BY <1>0, <1>u, <2>1, SweepingRequest
<1>7. Shaped'
  <2>1. op' \in Request
    <3>1. q \subseteq Cell
          BY <1>3, <1>q
    <3> QED BY <1>0, <1>3, <1>n, <3>1 DEF Request
  <2>2. paused' \subseteq 1..Len(child)
        BY <1>0, <1>t DEF Narrowed
  <2> QED BY <1>0, <1>6, <1>s, <2>1, <2>2 DEF TxSafe, Shaped
<1>8. Gated'
  <2>1. Known(table', h) /\ EntryOf(table', h) = e
        BY <1>0, <1>e, <1>p
  <2>2. q \subseteq SessionReads(c) \ e.writes
        BY <1>2, <1>q
  <2>3. ~TornCounter => c[2] \in Named \/ c[2] < alloc
    <3>1. Exists(c)[2] = c[2]
          BY DEF Exists
    <3> QED BY <1>0, <3>1 DEF Addressable, TxSafe, NamesGiven
  <2>4. ~TornCounter => \A d \in DOMAIN w : d[2] \in Named \/ d[2] < alloc
    <3>1. \A d \in DOMAIN w : d[2] = c[2]
          BY <1>3
    <3> QED BY <2>3, <3>1
  <2> QED BY <1>0, <1>1, <1>b, <1>n, <1>s, <2>1, <2>2, <2>4 DEF Gated, Layers
<1>9. LandsSoundly'
    BY <1>1 DEF LandsSoundly
<1>10. NamesGiven'
    BY <1>0, <1>1, <1>u, <1>s DEF TxSafe, NamesGiven, AllocatedIsFresh
<1> QED BY <1>6, <1>7, <1>8, <1>9, <1>10 DEF TxSafe

(* tx_create, up to the counter: the id it takes was nobody's. *)
LEMMA TxCreateKeeps == ASSUME TxSafe, NEW h \in Handle, TxCreate(h) PROVE TxSafe'
<1>t. Narrowed(Swept(table), Unpaused(table))
    BY AsSwept
<1>e. /\ EntryOf(table, h) \in Open(table) /\ EntryOf(table, h).id = h
      /\ EntryOf(Swept(table), h) = EntryOf(table, h)
    BY <1>t, FoundThere DEF TxCreate
<1>p. PICK e : e = EntryOf(table, h)
    OBVIOUS
<1>0. /\ op = Idle /\ table' = Swept(table) /\ paused' = Unpaused(table)
      /\ alloc <= MaxAlloc /\ alloc' = alloc + 1 /\ Len(child[e.branch].layers) < MaxWrite
      /\ op' = [kind |-> "create", tx |-> h, object |-> alloc, asked |-> now]
      /\ trunk' = trunk /\ child' = child /\ UNCHANGED <<now, issued, saw, lastUse, scenario>>
      /\ Known(Swept(table), h)
    BY <1>p DEF TxCreate, store, history
<1>1. op'.kind = "create" /\ op'.tx = h /\ op'.object = alloc /\ op'.asked = now /\ op.kind = "none"
    BY <1>0 DEF Idle
<1>s. /\ Table' = Table /\ Request' = Request /\ Cell' = Cell /\ Remembered' = Remembered
      /\ TrunkLayer' = TrunkLayer /\ ChildRec' = ChildRec /\ MaxFork' = MaxFork /\ Handle' = Handle
      /\ MaxWrite' = MaxWrite /\ MaxAlloc' = MaxAlloc /\ MaxTime' = MaxTime /\ Named' = Named
      /\ (TornCounter' <=> TornCounter)
      /\ MaxTx' = MaxTx /\ MaxAlloc \in Nat /\ Named \cap (1..MaxAlloc) = {}
    BY <1>0, SameBounds, Bounds DEF TxSafe, Shaped
<1>2. \A d \in DOMAIN child : OwnWrites(d)' = OwnWrites(d)
    BY <1>0 DEF OwnWrites
<1>3. /\ table' \in Table /\ Len(table'.spent) <= Remembered
      /\ Tabled' /\ Traceless' /\ Remembering'
  <2>1. paused' = Unpaused(table) \cup (IF op'.kind = "begin" THEN {op'.branch} ELSE {})
        BY <1>0, <1>1
  <2> QED BY <1>0, <1>2, <2>1, SweepingRequest
<1>a. /\ alloc \in 1..MaxAlloc /\ alloc' \in 1..(MaxAlloc + 1)
      /\ now \in 0..MaxTime /\ now <= now
    BY <1>0, <1>s, Bounds DEF TxSafe, Shaped
<1>4. Shaped'
  <2>1. op' \in Request
        BY <1>0, <1>a DEF Request
  <2>2. paused' \subseteq 1..Len(child)
        BY <1>0, <1>t DEF Narrowed
  <2> QED BY <1>0, <1>3, <1>a, <1>s, <2>1, <2>2 DEF TxSafe, Shaped
<1>5. Gated'
  <2>1. Known(table', h) /\ EntryOf(table', h) = e
        BY <1>0, <1>e, <1>p
  <2>2. alloc < alloc'
        BY <1>0, <1>a
  <2> QED BY <1>0, <1>1, <1>a, <1>s, <2>1, <2>2 DEF Gated, Layers
<1>6. LandsSoundly'
    BY <1>1 DEF LandsSoundly
<1>7. NamesGiven'
  <2> SUFFICES ASSUME ~TornCounter PROVE NamesGiven'
      BY <1>s DEF NamesGiven, AllocatedIsFresh
  <2>1. \A d \in DOMAIN child : \A x \in OwnWrites(d) :
           /\ x[2] \in Named \/ x[2] < alloc'
           /\ x[2] # alloc
    <3>1. \A d \in DOMAIN child : \A x \in OwnWrites(d) : x[2] \in Named \/ x[2] < alloc
          BY DEF TxSafe, NamesGiven
    <3>2. alloc \notin Named
          BY <1>a, <1>s
    <3>3. \A d \in DOMAIN child : \A x \in OwnWrites(d) : x \in Cell
          BY Branches DEF TxSafe
    <3>4. \A x \in Cell : x[2] \in Named \/ x[2] \in 1..MaxAlloc
          BY DEF Cell, Object
    <3> QED BY <1>0, <1>a, <1>s, <3>1, <3>2, <3>3, <3>4
  <2>2. \A d \in DOMAIN child : <<"exists", alloc>> \notin OwnWrites(d)
        BY <2>1
  <2> QED BY <1>0, <1>1, <1>2, <1>s, <2>1, <2>2 DEF NamesGiven, AllocatedIsFresh
<1> QED BY <1>3, <1>4, <1>5, <1>6, <1>7 DEF TxSafe

(* tx_commit, up to landing: nothing the transaction read has moved, and   *)
(* nothing it wrote dangles.                                               *)
LEMMA LandingBegins ==
    ASSUME TxSafe, NEW h \in Handle, op = Idle, Known(Swept(table), h),
           MayLand(EntryOf(table, h)),
           op' = [kind |-> "land", tx |-> h, k |-> 1, asked |-> now],
           table' = Swept(table), paused' = Unpaused(table),
           UNCHANGED <<store, alloc, now, issued, saw, lastUse, scenario>>
    PROVE  TxSafe'
<1>t. Narrowed(Swept(table), Unpaused(table))
    BY AsSwept
<1>e. /\ EntryOf(table, h) \in Open(table) /\ EntryOf(table, h).id = h
      /\ EntryOf(Swept(table), h) = EntryOf(table, h)
    BY <1>t, FoundThere
<1>p. PICK e : e = EntryOf(table, h)
    OBVIOUS
<1>n. now \in 0..MaxTime /\ now <= now
    BY Bounds DEF TxSafe, Shaped
<1>1. /\ op'.kind = "land" /\ op'.tx = h /\ op'.k = 1 /\ op'.asked = now /\ op.kind = "none"
      /\ trunk' = trunk /\ child' = child
    BY DEF Idle, store
<1>s. /\ Table' = Table /\ Request' = Request /\ Cell' = Cell /\ Remembered' = Remembered
      /\ TrunkLayer' = TrunkLayer /\ ChildRec' = ChildRec /\ MaxFork' = MaxFork /\ Handle' = Handle
      /\ MaxWrite' = MaxWrite /\ MaxAlloc' = MaxAlloc /\ MaxTime' = MaxTime /\ Named' = Named
      /\ (TornCounter' <=> TornCounter)
      /\ MaxTx' = MaxTx
    BY SameBounds
<1>2. \A d \in DOMAIN child : OwnWrites(d)' = OwnWrites(d)
    BY <1>1 DEF OwnWrites
<1>3. /\ table' \in Table /\ Len(table'.spent) <= Remembered
      /\ Tabled' /\ Traceless' /\ Remembering'
  <2>1. paused' = Unpaused(table) \cup (IF op'.kind = "begin" THEN {op'.branch} ELSE {})
        BY <1>1
  <2> QED BY <1>1, <1>2, <2>1, SweepingRequest
<1>4. Shaped'
  <2>1. op' \in Request
        BY <1>n DEF Request
  <2>2. paused' \subseteq 1..Len(child)
        BY <1>t DEF Narrowed
  <2> QED BY <1>1, <1>3, <1>s, <2>1, <2>2 DEF TxSafe, Shaped
<1>f. Known(table', h) /\ EntryOf(table', h) = e
    BY <1>e, <1>p
<1>5. Gated'
  <2>1. e.branch \in DOMAIN child
        BY <1>e, <1>p DEF TxSafe, Tabled
  <2>2. 1 <= Len(child[e.branch].layers) + 1
        BY <2>1, Branches DEF TxSafe
  <2> QED BY <1>1, <1>f, <1>n, <2>2 DEF Gated, Layers
<1>6. LandsSoundly'
  <2>1. ~MovedByOthers(e, e.reads)
        BY <1>p DEF MayLand, ReadsMoved, MovedByOthers
  <2>2. ~Dangling(e)
        BY <1>p DEF MayLand
  <2>3. ~MovedByOthers(e, e.reads)' /\ ~Dangling(e)'
        BY <1>1, <2>1, <2>2 DEF MovedByOthers, Dangling, OwnWrites
  <2> QED BY <1>1, <1>f, <2>3 DEF LandsSoundly
<1>7. NamesGiven'
    BY <1>1, <1>2, <1>s DEF TxSafe, NamesGiven, AllocatedIsFresh
<1> QED BY <1>3, <1>4, <1>5, <1>6, <1>7 DEF TxSafe

(* A commit that is rejected ends as a use of the transaction. *)
LEMMA RejectionKeeps ==
    ASSUME TxSafe, NEW h \in Handle, op = Idle, Known(Swept(table), h),
           table' = With(Swept(table), h, Touch(EntryOf(table, h), now)),
           Answered(h, now), op' = op,
           paused' = Unpaused(table), UNCHANGED <<store, alloc, now, issued, saw, scenario>>
    PROVE  TxSafe'
<1> DEFINE e == EntryOf(table, h)
           f == Touch(e, now)
<1>t. Narrowed(Swept(table), paused')
    BY AsSwept
<1>n. now \in 0..MaxTime /\ now <= now
    BY Bounds DEF TxSafe, Shaped
<1>1. /\ e \in Open(table) /\ e \in Entry /\ e.id = h /\ EntryOf(Swept(table), h) = e
    BY <1>t, FoundThere
<1> HIDE DEF e
<1>2. /\ f \in Entry /\ f.id = h /\ f.branch = e.branch /\ f.touched = now
      /\ f.reads = e.reads /\ f.writes = e.writes
    BY <1>1 DEF TxSafe, Shaped, Touch, Entry
<1>3. /\ e.writes \subseteq OwnWrites(e.branch) /\ op.kind = "none"
    BY <1>1 DEF TxSafe, Tabled, Idle
<1>4. ~TornTable => saw[h] \subseteq f.reads
    BY <1>1, <1>2 DEF TxSafe, Remembering
<1>5. ~Faults => LandedOf(e.branch) = {}
    BY <1>1, <1>3 DEF TxSafe, Traceless
<1>6. table' = With(Swept(table), h, f)
    BY DEF e
<1> HIDE DEF f
<1>7. saw' = saw /\ saw \in [Handle -> SUBSET Cell]
    BY DEF TxSafe, Shaped
<1> QED BY <1>t, <1>n, <1>1, <1>2, <1>3, <1>4, <1>5, <1>6, <1>7, SavingRequest DEF Answered

(* tx_commit. *)
LEMMA TxCommitKeeps == ASSUME TxSafe, NEW h \in Handle, TxCommit(h) PROVE TxSafe'
<1>0. /\ op = Idle /\ Known(Swept(table), h) /\ paused' = Unpaused(table)
      /\ UNCHANGED <<store, alloc, now, issued, saw, scenario>>
    BY DEF TxCommit
<1>1. CASE /\ MayLand(EntryOf(table, h)) /\ op' = [kind |-> "land", tx |-> h, k |-> 1, asked |-> now]
           /\ table' = Swept(table) /\ lastUse' = lastUse
    BY <1>0, <1>1, LandingBegins
<1>2. CASE /\ table' = With(Swept(table), h, Touch(EntryOf(table, h), now))
           /\ Answered(h, now) /\ op' = op
    BY <1>0, <1>2, RejectionKeeps
<1> QED BY <1>1, <1>2 DEF TxCommit

(* tx_get: what the client is shown of the parent is recorded, or is the   *)
(* transaction's own.                                                      *)
LEMMA TxGetKeeps ==
    ASSUME TxSafe, NEW h \in Handle, NEW c \in Cell, TxGet(h, c)
    PROVE  TxSafe'
<1> DEFINE e == EntryOf(table, h)
           f == Touch(Observe(e, c), now)
<1>0. /\ op = Idle /\ op' = op /\ Known(Swept(table), h) /\ paused' = Unpaused(table)
      /\ table' = With(Swept(table), h, f)
      /\ saw' = [saw EXCEPT ![h] = IF c \in OwnWrites(e.branch) THEN @ ELSE @ \cup {c}]
      /\ lastUse' = [lastUse EXCEPT ![h] = now]
      /\ UNCHANGED <<store, alloc, now, issued, scenario>>
    BY DEF TxGet, Answered
<1>t. Narrowed(Swept(table), paused')
    BY <1>0, AsSwept
<1>n. now \in 0..MaxTime /\ now <= now
    BY Bounds DEF TxSafe, Shaped
<1>1. /\ e \in Open(table) /\ e \in Entry /\ e.id = h /\ EntryOf(Swept(table), h) = e
    BY <1>0, <1>t, FoundThere
<1> HIDE DEF e
<1>2. /\ f \in Entry /\ f.id = h /\ f.branch = e.branch /\ f.touched = now
      /\ f.writes = e.writes /\ f.reads = IF c \in e.writes THEN e.reads ELSE e.reads \cup {c}
    BY <1>1 DEF TxSafe, Shaped, Touch, Observe, Entry
<1>3. e.writes \subseteq OwnWrites(e.branch) /\ op.kind = "none"
    BY <1>0, <1>1 DEF TxSafe, Tabled, Idle
<1> HIDE DEF f
<1>4. /\ saw' \in [Handle -> SUBSET Cell] /\ \A g \in Handle : g # h => saw'[g] = saw[g]
      /\ saw'[h] = IF c \in OwnWrites(e.branch) THEN saw[h] ELSE saw[h] \cup {c}
    BY <1>0 DEF TxSafe, Shaped
<1>5. ~TornTable => saw'[h] \subseteq f.reads
  <2>1. ~TornTable => saw[h] \subseteq e.reads
        BY <1>1 DEF TxSafe, Remembering
  <2> QED BY <1>2, <1>3, <1>4, <2>1
<1>6. ~Faults => LandedOf(f.branch) = {}
    BY <1>1, <1>2, <1>3 DEF TxSafe, Traceless
<1>7. f.writes \subseteq OwnWrites(f.branch) /\ f.branch = EntryOf(Swept(table), h).branch
    BY <1>1, <1>2, <1>3
<1>8. /\ op' = Idle /\ op.kind # "begin" /\ op.kind # "land" /\ Known(Swept(table), h)
      /\ table' = With(Swept(table), h, f)
      /\ saw' \in [Handle -> SUBSET Cell] /\ \A g \in Handle : g # h => saw'[g] = saw[g]
      /\ lastUse' = [lastUse EXCEPT ![h] = now]
      /\ UNCHANGED <<store, alloc, now, issued, scenario>>
    BY <1>0, <1>3, <1>4
<1> QED BY <1>t, <1>n, <1>2, <1>5, <1>6, <1>7, <1>8, SavingRequest

(* The save of tx_set and tx_create: the probes are recorded before the    *)
(* writes hide them.                                                       *)
LEMMA TxSaveKeeps == TxSafe /\ TxSave => TxSafe'
<1> SUFFICES ASSUME TxSafe, TxSave PROVE TxSafe'
    OBVIOUS
<1>h. PICK h : h = op.tx
    OBVIOUS
<1>k. /\ op.kind = "save" /\ Known(table, h) /\ op.reads \subseteq Cell /\ op.layer \in Layer
      /\ op.parents \subseteq Cell /\ h \in Handle /\ op.asked \in 0..MaxTime
      /\ op.at \in 0..MaxTime /\ op.asked <= op.at /\ op.at <= now
    BY <1>h DEF TxSave, TxSafe, Shaped, Gated, Request, Idle
<1>d. PICK written : written = DOMAIN op.layer
    OBVIOUS
<1>c. written \subseteq Cell
    BY <1>d, <1>k DEF Layer
<1> DEFINE e == EntryOf(table, h)
           f == Touch(Absorb(e, op.reads, written), op.at)
<1>0. /\ op' = Idle /\ table' = With(table, h, f) /\ paused' = paused
      /\ saw' = [saw EXCEPT ![h] = @ \cup op.parents]
      /\ lastUse' = [lastUse EXCEPT ![h] = op.asked]
      /\ UNCHANGED <<store, alloc, now, issued, scenario>>
    BY <1>h, <1>d DEF TxSave, Answered
<1>t. Narrowed(table, paused')
    BY <1>0, AsFound
<1>1. /\ e \in Open(table) /\ e \in Entry /\ e.id = h
    BY <1>k, <1>t, FoundThere
<1>g. written \subseteq OwnWrites(e.branch) /\ op.parents \subseteq op.reads \ e.writes
    BY <1>h, <1>d, <1>k DEF TxSafe, Gated
<1> HIDE DEF e
<1>2. /\ f \in Entry /\ f.id = h /\ f.branch = e.branch /\ f.touched = op.at
      /\ f.writes = e.writes \cup written /\ f.reads = e.reads \cup (op.reads \ e.writes)
    BY <1>1, <1>c, <1>k DEF TxSafe, Shaped, Touch, Absorb, Entry
<1>3. f.writes \subseteq OwnWrites(f.branch)
    BY <1>1, <1>2, <1>g DEF TxSafe, Tabled
<1> HIDE DEF f
<1>4. /\ saw' \in [Handle -> SUBSET Cell] /\ \A g \in Handle : g # h => saw'[g] = saw[g]
      /\ saw'[h] = saw[h] \cup op.parents
    BY <1>0, <1>k DEF TxSafe, Shaped
<1>5. ~TornTable => saw'[h] \subseteq f.reads
  <2>1. ~TornTable => saw[h] \subseteq e.reads
        BY <1>1 DEF TxSafe, Remembering
  <2> QED BY <1>2, <1>g, <1>4, <2>1
<1>6. ~Faults => LandedOf(f.branch) = {}
    BY <1>1, <1>2, <1>k DEF TxSafe, Traceless
<1>7. f.branch = EntryOf(table, h).branch
    BY <1>2 DEF e
<1> QED BY ZenonT(60), <1>0, <1>t, <1>k, <1>2, <1>3, <1>4, <1>5, <1>6, <1>7, SavingRequest

(* A storage error while landing: the transaction is as it was, and its    *)
(* client has had an answer.                                               *)
LEMMA LandFailsKeeps == TxSafe /\ LandFails => TxSafe'
<1> SUFFICES ASSUME TxSafe, LandFails PROVE TxSafe'
    OBVIOUS
<1>h. PICK h : h = op.tx
    OBVIOUS
<1>k. /\ op.kind = "land" /\ Known(table, h) /\ Faults /\ op.asked \in 0..MaxTime
      /\ op.asked <= now /\ now \in 0..MaxTime /\ now <= now
    BY <1>h, Bounds DEF LandFails, TxSafe, Shaped, Gated, Request, Idle
<1> DEFINE e == EntryOf(table, h)
           f == Touch(e, now)
<1>0. /\ op' = Idle /\ table' = With(table, h, f) /\ paused' = paused /\ saw' = saw
      /\ lastUse' = [lastUse EXCEPT ![h] = op.asked]
      /\ UNCHANGED <<store, alloc, now, issued, scenario>>
    BY <1>h DEF LandFails, Answered
<1>t. Narrowed(table, paused')
    BY <1>0, AsFound
<1>1. /\ e \in Open(table) /\ e \in Entry /\ e.id = h
    BY <1>k, <1>t, FoundThere
<1> HIDE DEF e
<1>2. /\ f \in Entry /\ f.id = h /\ f.branch = e.branch /\ f.touched = now
      /\ f.writes = e.writes /\ f.reads = e.reads
    BY <1>1, <1>k DEF TxSafe, Shaped, Touch, Entry
<1>3. f.writes \subseteq OwnWrites(f.branch)
    BY <1>1, <1>2 DEF TxSafe, Tabled
<1> HIDE DEF f
<1>4. saw' \in [Handle -> SUBSET Cell] /\ \A g \in Handle : saw'[g] = saw[g]
    BY <1>0 DEF TxSafe, Shaped
<1>5. ~TornTable => saw'[h] \subseteq f.reads
    BY <1>0, <1>1, <1>2 DEF TxSafe, Remembering
<1>7. f.branch = EntryOf(table, h).branch
    BY <1>2 DEF e
<1> QED BY <1>0, <1>t, <1>k, <1>2, <1>3, <1>4, <1>5, <1>7, SavingRequest

(* tx_abort. *)
LEMMA TxAbortKeeps == ASSUME TxSafe, NEW h \in Handle, TxAbort(h) PROVE TxSafe'
<1>0. /\ op = Idle /\ op' = Idle /\ Known(Swept(table), h)
      /\ table' = Retire(Swept(table), h, "aborted")
      /\ paused' = Unpaused(table) \ {EntryOf(table, h).branch}
      /\ lastUse' = [lastUse EXCEPT ![h] = now]
      /\ UNCHANGED <<store, alloc, now, issued, saw, scenario>>
    BY DEF TxAbort, Answered
<1>t. Narrowed(Swept(table), Unpaused(table))
    BY AsSwept
<1>1. EntryOf(Swept(table), h) = EntryOf(table, h)
    BY <1>0, <1>t, FoundThere
<1>2. op.kind = "none" /\ "aborted" \in Fate /\ now \in 0..MaxTime
    BY <1>0 DEF Idle, Fate, TxSafe, Shaped
<1>3. paused' = Unpaused(table) \ {EntryOf(Swept(table), h).branch}
    BY <1>0, <1>1
<1> QED BY <1>0, <1>t, <1>2, <1>3, EndingRequest

(* The end of tx_commit: every layer has landed. *)
LEMMA TxCommitSaveKeeps == TxSafe /\ TxCommitSave => TxSafe'
<1> SUFFICES ASSUME TxSafe, TxCommitSave PROVE TxSafe'
    OBVIOUS
<1>h. PICK h : h = op.tx
    OBVIOUS
<1>0. /\ op.kind = "land" /\ op' = Idle /\ table' = Retire(table, h, "committed")
      /\ paused' = paused \ {EntryOf(table, h).branch}
      /\ lastUse' = [lastUse EXCEPT ![h] = op.asked]
      /\ UNCHANGED <<store, alloc, now, issued, saw, scenario>>
    BY <1>h DEF TxCommitSave, Answered
<1>t. Narrowed(table, paused)
    BY AsFound
<1>1. Known(table, h) /\ "committed" \in Fate /\ op.asked \in 0..MaxTime
    BY <1>h, <1>0 DEF TxSafe, Shaped, Gated, Fate, Request, Idle
<1> QED BY <1>0, <1>h, <1>t, <1>1, EndingRequest

(* The session of a creation: the existence cell of the id it was given. *)
LEMMA TxCreateSetKeeps == TxSafe /\ TxCreateSet => TxSafe'
<1> SUFFICES ASSUME TxSafe, TxCreateSet PROVE TxSafe'
    OBVIOUS
<1>h. PICK h : h = op.tx
    OBVIOUS
<1>a. PICK asked : asked = op.asked
    OBVIOUS
<1>k. /\ op.kind = "create" /\ Known(table, h) /\ op.object \in 1..MaxAlloc /\ h \in Handle
      /\ op.object < alloc /\ asked \in 0..MaxTime /\ asked <= now
      /\ now \in 0..MaxTime /\ now <= now
    BY <1>h, <1>a, Bounds DEF TxCreateSet, TxSafe, Shaped, Gated, Request, Idle
<1>c. PICK c : c = <<"exists", op.object>>
    OBVIOUS
<1>w. PICK w : w = [x \in {c} |-> "value"]
    OBVIOUS
<1>0. /\ op' = [kind |-> "write", tx |-> h, layer |-> w, reads |-> {}, parents |-> {},
                asked |-> asked, at |-> now]
      /\ trunk' = trunk /\ child' = child
      /\ UNCHANGED <<paused, table, alloc, now, issued, saw, lastUse, scenario>>
    BY <1>h, <1>a, <1>c, <1>w DEF TxCreateSet, store, history
<1>1. /\ op'.kind = "write" /\ op'.tx = h /\ op'.layer = w /\ op'.parents = {} /\ op'.reads = {}
      /\ op'.asked = asked /\ op'.at = now
    BY <1>0
<1>s. /\ Table' = Table /\ Request' = Request /\ Cell' = Cell /\ Remembered' = Remembered
      /\ TrunkLayer' = TrunkLayer /\ ChildRec' = ChildRec /\ MaxFork' = MaxFork /\ Handle' = Handle
      /\ MaxWrite' = MaxWrite /\ MaxAlloc' = MaxAlloc /\ MaxTime' = MaxTime /\ Named' = Named
      /\ MaxTx' = MaxTx /\ (Faults' <=> Faults)
      /\ (TornTable' <=> TornTable) /\ (TornCounter' <=> TornCounter)
    BY <1>0, SameBounds
<1>3. c \in Cell /\ w \in Layer /\ DOMAIN w = {c} /\ c[2] = op.object
  <2>1. c \in Cell /\ c[2] = op.object
        BY <1>k, <1>c DEF Cell, Object
  <2>2. w \in [{c} -> Written] /\ {c} \subseteq Cell
        BY <1>w, <2>1 DEF Written
  <2> QED BY <2>1, <2>2 DEF Layer
<1>u. \A d : OwnWrites(d)' = OwnWrites(d)
    BY <1>0 DEF OwnWrites
<1>7. Shaped'
  <2>1. op' \in Request
        BY <1>0, <1>k, <1>3 DEF Request
  <2> QED BY <1>0, <1>s, <2>1 DEF TxSafe, Shaped
<1>5. Tabled'
    BY <1>0, <1>u DEF TxSafe, Tabled, Distinct, Open, Known
<1>8. Gated'
  <2>1. Known(table', h)
        BY <1>0, <1>k
  <2>2. Len(Layers(h)) < MaxWrite
        BY <1>h, <1>k DEF TxSafe, Gated
  <2>3. \A x \in DOMAIN w : x[2] < alloc
        BY <1>3, <1>k
  <2> QED BY <1>0, <1>1, <1>k, <1>s, <2>1, <2>2, <2>3 DEF Gated, Layers
<1>9. LandsSoundly'
    BY <1>1 DEF LandsSoundly
<1>10. NamesGiven'
    BY <1>0, <1>1, <1>u, <1>s DEF TxSafe, NamesGiven, AllocatedIsFresh
<1>11. Traceless'
    BY <1>0, <1>1, <1>k, <1>s DEF TxSafe, Traceless, Open, LandedOf
<1>12. Remembering'
    BY <1>0, <1>s DEF TxSafe, Remembering, Open
<1> QED BY <1>5, <1>7, <1>8, <1>9, <1>10, <1>11, <1>12 DEF TxSafe

(* The layer of a session reaches the branch: what is going to be saved is *)
(* what the branch holds by then.                                          *)
LEMMA SessionCommitKeeps == TxSafe /\ SessionCommit => TxSafe'
<1> SUFFICES ASSUME TxSafe, SessionCommit PROVE TxSafe'
    OBVIOUS
<1>h. PICK h : h = op.tx
    OBVIOUS
<1>w. PICK w : w = op.layer
    OBVIOUS
<1>k. op.kind = "write" /\ Known(table, h) /\ w \in Layer /\ h \in Handle
    BY <1>h, <1>w DEF SessionCommit, TxSafe, Shaped, Gated, Request, Idle
<1>p. PICK e : e = EntryOf(table, h)
    OBVIOUS
<1>b. PICK b : b = e.branch
    OBVIOUS
<1>0. /\ child' = [child EXCEPT ![b].layers = Append(@, w)]
      /\ op' = [op EXCEPT !.kind = "save"]
      /\ trunk' = trunk /\ UNCHANGED <<paused, table, alloc, now, issued, saw, lastUse, scenario>>
    BY <1>h, <1>p, <1>b, <1>w DEF SessionCommit, history
<1>o. op \in [kind : {"write", "save"}, tx : Handle, layer : Layer, reads : SUBSET Cell,
              parents : SUBSET Cell, asked : 0..MaxTime, at : 0..MaxTime]
    BY <1>k DEF TxSafe, Shaped, Request, Idle
<1>1. /\ op'.kind = "save" /\ op'.tx = h /\ op'.layer = w /\ op'.parents = op.parents
      /\ op'.reads = op.reads /\ op'.asked = op.asked /\ op'.at = op.at /\ op' \in Request
    BY <1>0, <1>h, <1>o, <1>w DEF Request
<1>s. /\ Table' = Table /\ Request' = Request /\ Cell' = Cell /\ Remembered' = Remembered
      /\ TrunkLayer' = TrunkLayer /\ ChildRec' = ChildRec /\ MaxFork' = MaxFork /\ Handle' = Handle
      /\ MaxWrite' = MaxWrite /\ MaxAlloc' = MaxAlloc /\ MaxTime' = MaxTime /\ Named' = Named
      /\ MaxTx' = MaxTx /\ MaxWrite \in Nat /\ (Faults' <=> Faults)
      /\ (TornTable' <=> TornTable) /\ (TornCounter' <=> TornCounter)
    BY <1>0, SameBounds, Bounds DEF TxSafe, Shaped
<1>e. e \in Open(table) /\ e.id = h
    BY <1>k, <1>p, EntryIs
<1>2. b \in DOMAIN child /\ child \in Seq(ChildRec) /\ Len(child[b].layers) < MaxWrite
    BY <1>e, <1>h, <1>k, <1>p, <1>b DEF TxSafe, Shaped, Tabled, Gated, Layers
<1>4. /\ child' \in Seq(ChildRec) /\ Len(child') = Len(child) /\ DOMAIN child' = DOMAIN child
      /\ \A d \in DOMAIN child : child'[d].fork = child[d].fork
      /\ \A d \in DOMAIN child : d # b => child'[d] = child[d]
      /\ Len(child'[b].layers) = Len(child[b].layers) + 1
      /\ OwnWrites(b)' = OwnWrites(b) \cup DOMAIN w
      /\ \A d \in DOMAIN child : d # b => OwnWrites(d)' = OwnWrites(d)
    BY <1>0, <1>2, <1>k, LayerAdded
<1>7. Shaped'
  <2>1. \A d \in DOMAIN child' : /\ child'[d].fork \in 1..Len(trunk')
                                 /\ Len(child'[d].layers) <= MaxWrite
    <3>1. \A d \in DOMAIN child : /\ child[d].fork \in 1..Len(trunk)
                                  /\ Len(child[d].layers) <= MaxWrite
          BY DEF TxSafe, Shaped
    <3>2. Len(child[b].layers) \in Nat
          BY <1>2 DEF ChildRec
    <3>3. Len(child'[b].layers) <= MaxWrite
          BY <1>2, <1>4, <1>s, <3>2
    <3> QED BY <1>0, <1>4, <3>1, <3>3
  <2> QED BY <1>0, <1>1, <1>4, <1>s, <2>1 DEF TxSafe, Shaped
<1>5. Tabled'
  <2>1. \A f \in Open(table) : f.writes \subseteq OwnWrites(f.branch)'
        BY <1>4 DEF TxSafe, Tabled
  <2> QED BY <1>0, <1>4, <2>1 DEF TxSafe, Tabled, Distinct, Open, Known
<1>8. Gated'
  <2>1. Known(table', h) /\ EntryOf(table', h) = e
        BY <1>0, <1>k, <1>p
  <2>2. op.parents \subseteq op.reads \ e.writes
        BY <1>h, <1>k, <1>p DEF TxSafe, Gated
  <2>3. op.asked <= now /\ op.asked <= op.at /\ op.at <= now
        BY <1>k DEF TxSafe, Gated
  <2> QED BY <1>0, <1>1, <1>4, <1>b, <2>1, <2>2, <2>3 DEF Gated
<1>9. LandsSoundly'
    BY <1>1 DEF LandsSoundly
<1>10. NamesGiven'
  <2>1. ~TornCounter => \A x \in DOMAIN w : x[2] \in Named \/ x[2] < alloc
        BY <1>k, <1>w DEF TxSafe, Gated
  <2>2. ~TornCounter => \A d \in DOMAIN child : \A x \in OwnWrites(d)' :
                           x[2] \in Named \/ x[2] < alloc
        BY <1>4, <2>1 DEF TxSafe, NamesGiven
  <2> QED BY <1>0, <1>1, <1>4, <1>s, <2>2 DEF NamesGiven, AllocatedIsFresh
<1>11. Traceless'
    BY <1>0, <1>1, <1>k, <1>s DEF TxSafe, Traceless, Open, LandedOf
<1>12. Remembering'
    BY <1>0, <1>s DEF TxSafe, Remembering, Open
<1> QED BY <1>5, <1>7, <1>8, <1>9, <1>10, <1>11, <1>12 DEF TxSafe

(* The save of tx_begin: a new handle, for a branch nobody else has. *)
LEMMA TxBeginSaveKeeps == TxSafe /\ TxBeginSave => TxSafe'
<1> SUFFICES ASSUME TxSafe, TxBeginSave PROVE TxSafe'
    OBVIOUS
<1>h. PICK h : h = table.next
    OBVIOUS
<1>b. PICK b : b = op.branch
    OBVIOUS
<1>s. /\ Table' = Table /\ Request' = Request /\ Cell' = Cell /\ Remembered' = Remembered
      /\ TrunkLayer' = TrunkLayer /\ ChildRec' = ChildRec /\ MaxFork' = MaxFork /\ Handle' = Handle
      /\ MaxWrite' = MaxWrite /\ MaxAlloc' = MaxAlloc /\ MaxTime' = MaxTime /\ Named' = Named
      /\ (TornCounter' <=> TornCounter)
      /\ MaxTx' = MaxTx /\ MaxTx \in Nat /\ (Faults' <=> Faults)
      /\ (TornTable' <=> TornTable) /\ (TornCounter' <=> TornCounter)
    BY SameBounds, Bounds DEF TxSafe, Shaped, TxBeginSave
<1>k. /\ op.kind = "begin" /\ h \in 1..MaxTx /\ h \in Handle /\ b \in Fork /\ b \in DOMAIN child
      /\ LandedOf(b) = {} /\ \A f \in Open(table) : f.branch # b
  <2>1. op.kind = "begin" /\ h <= MaxTx /\ b \in DOMAIN child /\ LandedOf(b) = {}
        /\ \A f \in Open(table) : f.branch # b
        BY <1>h, <1>b DEF TxBeginSave, TxSafe, Gated
  <2>2. b \in Fork
        BY <1>b, <2>1 DEF TxSafe, Shaped, Request, Idle
  <2>3. h \in 1..(MaxTx + 1)
        BY <1>h DEF TxSafe, Shaped, Table
  <2> QED BY <1>s, <2>1, <2>2, <2>3 DEF Handle
<1>a. PICK asked : asked = op.asked
    OBVIOUS
<1>q. asked \in 0..MaxTime /\ asked <= now /\ now \in 0..MaxTime /\ now <= now
    BY <1>a, <1>k, Bounds DEF TxSafe, Shaped, Gated, Request, Idle
<1>n. PICK new : new = [id |-> h, branch |-> b, fork |-> child[b].fork, touched |-> now,
                        reads |-> {}, writes |-> {}]
    OBVIOUS
<1>0. /\ table' = [table EXCEPT !.next = @ + 1, !.open = Append(@, new)]
      /\ issued' = issued \cup {h} /\ lastUse' = [lastUse EXCEPT ![h] = asked]
      /\ op' = Idle /\ trunk' = trunk /\ child' = child
      /\ UNCHANGED <<paused, alloc, now, saw, scenario>>
    BY <1>h, <1>a, <1>b, <1>n DEF TxBeginSave, Answered, store
<1>1. /\ new \in Entry /\ new.id = h /\ new.branch = b /\ new.touched = now /\ new.writes = {}
      /\ new.reads = {}
  <2>1. child[b].fork \in Nat
    <3>1. child[b].fork \in 1..Len(trunk)
          BY <1>k, Branches DEF TxSafe
    <3> QED BY <3>1
  <2>2. now \in 0..MaxTime
        BY DEF TxSafe, Shaped
  <2> QED BY <1>k, <1>n, <2>1, <2>2 DEF Entry
<1>2. table \in Table /\ table.open \in Seq(Entry) /\ table.spent \in Seq(SpentRec)
      /\ Distinct(table.open) /\ Len(table.spent) <= Remembered
    BY DEF TxSafe, Shaped, Tabled, Table
<1>3. /\ table' \in Table /\ table'.next = h + 1 /\ table'.open = Append(table.open, new)
      /\ table'.spent = table.spent
  <2>1. Append(table.open, new) \in Seq(Entry) /\ h + 1 \in 1..(MaxTx + 1)
        BY <1>1, <1>2, <1>k, <1>s
  <2> QED BY <1>0, <1>2, <1>h, <2>1 DEF Table
<1>4. /\ DOMAIN table'.open = 1..(Len(table.open) + 1) /\ Len(table.open) \in Nat
      /\ DOMAIN table.open = 1..Len(table.open)
      /\ table'.open[Len(table.open) + 1] = new
      /\ \A i \in DOMAIN table.open : table'.open[i] = table.open[i]
    BY <1>1, <1>2, <1>3
<1>5. \A i \in DOMAIN table'.open : i \in DOMAIN table.open \/ i = Len(table.open) + 1
    BY <1>4
<1>6. \A f : f \in Open(table') <=> f \in Open(table) \/ f = new
  <2>1. \A f : f \in Open(table') <=> \E i \in DOMAIN table'.open : f = table'.open[i]
        BY DEF Open, ToSet
  <2>2. \A f : f \in Open(table) <=> \E i \in DOMAIN table.open : f = table.open[i]
        BY DEF Open, ToSet
  <2>3. Len(table.open) + 1 \in DOMAIN table'.open /\ DOMAIN table.open \subseteq DOMAIN table'.open
        BY <1>4
  <2> QED BY <1>4, <1>5, <2>1, <2>2, <2>3
<1>7. \A f \in Open(table) : f.id < h /\ f.id # h /\ f.id \in Nat
  <2>1. \A f \in Open(table) : f.id < h
        BY <1>h DEF TxSafe, Tabled
  <2>2. \A f \in Open(table) : f \in Entry
        BY <1>2 DEF Open, ToSet
  <2>3. \A f \in Open(table) : f.id \in Nat
        BY <2>2 DEF Entry, Handle
  <2> QED BY <1>k, <2>1, <2>3
<1>8. Distinct(table'.open)
  <2>1. \A i \in DOMAIN table.open : table.open[i].id # h /\ table.open[i].branch # b
    <3>1. \A i \in DOMAIN table.open : table.open[i] \in Open(table)
          BY DEF Open, ToSet
    <3> QED BY <1>k, <1>7, <3>1
  <2> QED BY SMTT(60), <1>1, <1>2, <1>4, <1>5, <2>1 DEF Distinct
<1>9. Shaped'
  <2>1. lastUse' \in [Handle -> 0..MaxTime]
        BY <1>0, <1>q DEF TxSafe, Shaped
  <2>2. op' \in Request
        BY <1>0 DEF Request
  <2>3. issued' \subseteq Handle
        BY <1>0, <1>k DEF TxSafe, Shaped
  <2> QED BY <1>0, <1>2, <1>3, <1>s, <2>1, <2>2, <2>3 DEF TxSafe, Shaped
<1>u. \A d : OwnWrites(d)' = OwnWrites(d)
    BY <1>0 DEF OwnWrites
<1>10. Tabled'
  <2>1. ASSUME NEW f \in Open(table')
        PROVE  /\ f.id < table'.next /\ f.id \in issued' /\ f.branch \in DOMAIN child'
               /\ f.writes \subseteq OwnWrites(f.branch)'
               /\ lastUse'[f.id] <= f.touched /\ f.touched <= now'
    <3>1. CASE f = new
      <4>1. lastUse'[h] = asked /\ h < h + 1
            BY SMTT(60), <1>0, <1>k DEF TxSafe, Shaped
      <4> QED BY <1>0, <1>1, <1>3, <1>k, <1>q, <3>1, <4>1
    <3>2. CASE f # new
      <4>1. f \in Open(table) /\ f.id < h /\ f.id # h /\ f.id \in Nat /\ h \in Nat
            BY <1>6, <1>7, <1>k, <3>2
      <4>2. /\ f.id \in issued /\ f.branch \in DOMAIN child
            /\ f.writes \subseteq OwnWrites(f.branch)
            /\ lastUse[f.id] <= f.touched /\ f.touched <= now
            BY <4>1 DEF TxSafe, Tabled
      <4>3. lastUse'[f.id] = lastUse[f.id] /\ f.id < h + 1
            BY <1>0, <4>1, <4>2 DEF TxSafe, Shaped
      <4> QED BY <1>0, <1>3, <1>u, <4>1, <4>2, <4>3
    <3> QED BY <3>1, <3>2
  <2>2. ASSUME NEW s \in ToSet(table'.spent) PROVE s.id < table'.next /\ ~Known(table', s.id)
    <3>1. s.id < h /\ ~Known(table, s.id)
          BY <1>3, <1>h, <2>2 DEF TxSafe, Tabled
    <3>2. s.id \in Nat /\ h \in Nat
      <4>1. s \in SpentRec
            BY <1>2, <1>3 DEF ToSet
      <4> QED BY <1>k, <4>1 DEF SpentRec, Handle
    <3>3. s.id < h + 1 /\ s.id # h
          BY <3>1, <3>2
    <3>4. \A f \in Open(table') : f.id # s.id
          BY <1>1, <1>6, <3>1, <3>3 DEF Known, Open
    <3> QED BY <1>3, <3>3, <3>4 DEF Known, Open
  <2> QED BY <1>8, <2>1, <2>2 DEF Tabled, Distinct, Open, Known
<1>11. Gated' /\ LandsSoundly'
    BY <1>0 DEF Gated, LandsSoundly, Idle
<1>12. NamesGiven'
    BY <1>0, <1>u, <1>s DEF TxSafe, NamesGiven, AllocatedIsFresh, Idle
<1>13. Traceless'
  <2> SUFFICES ASSUME ~Faults
               PROVE  /\ \A f \in Open(table') : LandedOf(f.branch)' = {}
                      /\ paused' = {f.branch : f \in Open(table')}
      BY <1>0, <1>s DEF Traceless, Open, Idle
  <2>1. \A f \in Open(table) : LandedOf(f.branch) = {}
        BY <1>k DEF TxSafe, Traceless
  <2>2. \A f \in Open(table') : LandedOf(f.branch)' = {}
        BY <1>0, <1>1, <1>6, <1>k, <2>1 DEF LandedOf
  <2>3. paused = {f.branch : f \in Open(table)} \cup {b}
        BY <1>b, <1>k DEF TxSafe, Traceless
  <2> QED BY <1>0, <1>1, <1>6, <2>2, <2>3
<1>14. Remembering'
  <2>1. \A g \in Handle : saw[g] # {} => g \in issued'
        BY <1>0 DEF TxSafe, Remembering
  <2>2. ASSUME ~TornTable PROVE \A g \in issued' : g < table'.next
    <3>1. \A g \in issued : g < h /\ g \in Nat
          BY <1>h, <2>2 DEF TxSafe, Shaped, Remembering, Handle
    <3> QED BY <1>0, <1>3, <1>k, <3>1
  <2>3. ASSUME ~TornTable PROVE \A f \in Open(table') : saw[f.id] \subseteq f.reads
    <3>1. h \notin issued
      <4>1. \A g \in issued : g < h /\ g \in Nat
            BY <1>h, <2>3 DEF TxSafe, Shaped, Remembering, Handle
      <4> QED BY <1>k, <4>1
    <3>2. saw[h] = {}
          BY <1>k, <3>1 DEF TxSafe, Remembering
    <3> QED BY <1>1, <1>6, <2>3, <3>2 DEF TxSafe, Remembering
  <2> QED BY <1>0, <1>s, <2>1, <2>2, <2>3 DEF Remembering, Open
<1> QED BY <1>9, <1>10, <1>11, <1>12, <1>13, <1>14 DEF TxSafe

(* A layer lands: it is the transaction's own, so nobody else has moved    *)
(* what it read, and no other open transaction has left a trace.           *)
LEMMA LandKeeps == TxSafe /\ Land => TxSafe'
<1> SUFFICES ASSUME TxSafe, Land PROVE TxSafe'
    OBVIOUS
<1>h. PICK h : h = op.tx
    OBVIOUS
<1>m. PICK k : k = op.k
    OBVIOUS
<1>k. op.kind = "land" /\ Known(table, h) /\ k \in Nat \ {0} /\ h \in Handle
    BY <1>h, <1>m DEF Land, TxSafe, Shaped, Gated, Request, Idle
<1>p. PICK e : e = EntryOf(table, h)
    OBVIOUS
<1>b. PICK b : b = e.branch
    OBVIOUS
<1>e. e \in Open(table) /\ e.id = h /\ e \in Entry
    BY <1>k, <1>p, AsFound, FoundThere
<1>2. /\ b \in DOMAIN child /\ child[b].layers \in Seq(Layer)
      /\ Len(child[b].layers) \in 0..MaxWrite /\ k <= Len(child[b].layers)
  <2>1. b \in DOMAIN child
        BY <1>e, <1>b DEF TxSafe, Tabled
  <2>2. k <= Len(child[b].layers)
        BY <1>h, <1>m, <1>p, <1>b DEF Land, Layers
  <2> QED BY <2>1, <2>2, Branches DEF TxSafe
<1>w. PICK new : new = [by |-> b, n |-> k, w |-> child[b].layers[k]]
    OBVIOUS
<1>0. /\ trunk' = Append(trunk, new) /\ op' = [op EXCEPT !.k = @ + 1]
      /\ child' = child /\ UNCHANGED <<paused, table, alloc, now, issued, saw, lastUse, scenario>>
    BY <1>h, <1>m, <1>p, <1>b, <1>w DEF Land, Layers, history
<1>o. op \in [kind : {"land"}, tx : Handle, k : Nat \ {0}, asked : 0..MaxTime]
    BY <1>k DEF TxSafe, Shaped, Request, Idle
<1>1. /\ op' \in Request /\ op'.kind = "land" /\ op'.tx = h /\ op'.k = k + 1
      /\ op'.asked = op.asked
    BY <1>0, <1>h, <1>m, <1>o DEF Request
<1>s. /\ Table' = Table /\ Request' = Request /\ Cell' = Cell /\ Remembered' = Remembered
      /\ TrunkLayer' = TrunkLayer /\ ChildRec' = ChildRec /\ MaxFork' = MaxFork /\ Handle' = Handle
      /\ MaxWrite' = MaxWrite /\ MaxAlloc' = MaxAlloc /\ MaxTime' = MaxTime /\ Named' = Named
      /\ (TornCounter' <=> TornCounter)
      /\ MaxTx' = MaxTx /\ MaxWrite \in Nat /\ MaxFork \in Nat
      /\ (Faults' <=> Faults)
      /\ (TornTable' <=> TornTable) /\ (TornCounter' <=> TornCounter)
    BY <1>0, SameBounds, Bounds DEF TxSafe, Shaped
<1>3. new \in TrunkLayer /\ new.by = b /\ new.w = child[b].layers[k] /\ b \in 1..Len(child)
  <2>1. b \in 1..Len(child) /\ Len(child) <= MaxFork /\ Len(child) \in Nat
        BY <1>2 DEF TxSafe, Shaped
  <2>2. b \in Fork /\ k \in 1..(MaxWrite + 1) /\ k \in 1..Len(child[b].layers)
        BY <1>2, <1>k, <1>s, <2>1 DEF Fork
  <2>3. child[b].layers[k] \in Layer
        BY <1>2, <2>2
  <2> QED BY <1>w, <2>1, <2>2, <2>3 DEF TrunkLayer
<1>4. /\ trunk' \in Seq(TrunkLayer) /\ trunk' # <<>> /\ Len(trunk') = Len(trunk) + 1
      /\ Len(trunk) \in Nat /\ DOMAIN trunk = 1..Len(trunk) /\ DOMAIN trunk' = 1..(Len(trunk) + 1)
      /\ trunk'[Len(trunk) + 1] = new /\ \A i \in DOMAIN trunk : trunk'[i] = trunk[i]
  <2>1. trunk \in Seq(TrunkLayer)
        BY DEF TxSafe, Shaped
  <2> QED BY <1>0, <1>3, <2>1
<1>5. \A i \in DOMAIN trunk' : i \in DOMAIN trunk \/ i = Len(trunk) + 1
    BY <1>4
<1>6. Shaped'
  <2>1. \A d \in DOMAIN child' : /\ child'[d].fork \in 1..Len(trunk')
                                 /\ Len(child'[d].layers) <= MaxWrite
    <3>1. \A d \in DOMAIN child : /\ child[d].fork \in 1..Len(trunk)
                                  /\ Len(child[d].layers) <= MaxWrite
          BY DEF TxSafe, Shaped
    <3> QED BY <1>0, <1>4, <3>1
  <2>2. \A i \in DOMAIN trunk' : trunk'[i].by <= Len(child')
    <3>1. \A i \in DOMAIN trunk : trunk[i].by <= Len(child)
          BY DEF TxSafe, Shaped
    <3>2. new.by <= Len(child)
          BY <1>3
    <3> QED BY <1>0, <1>4, <1>5, <3>1, <3>2
  <2> QED BY <1>0, <1>1, <1>4, <1>s, <2>1, <2>2 DEF TxSafe, Shaped
<1>u. \A d : OwnWrites(d)' = OwnWrites(d)
    BY <1>0 DEF OwnWrites
<1>7. Tabled'
    BY <1>0, <1>u DEF TxSafe, Tabled, Distinct, Open, Known
<1>f. Known(table', h) /\ EntryOf(table', h) = e
    BY <1>0, <1>k, <1>p
<1>8. Gated'
  <2>1. k + 1 <= Len(child[b].layers) + 1
        BY <1>2, <1>k
  <2>2. op.asked <= now
        BY <1>k DEF TxSafe, Gated
  <2> QED BY <1>0, <1>1, <1>b, <1>f, <2>1, <2>2 DEF Gated, Layers
<1>9. LandsSoundly'
  <2>1. ~MovedByOthers(e, e.reads)
        BY <1>h, <1>k, <1>p DEF TxSafe, LandsSoundly
  <2>2. ~MovedByOthers(e, e.reads)'
    <3> SUFFICES ASSUME NEW i \in (e.fork + 1)..Len(trunk'), trunk'[i].by # b,
                        DOMAIN trunk'[i].w \cap e.reads # {}
                 PROVE  FALSE
        BY <1>b DEF MovedByOthers
    <3>1. e.fork \in Nat
          BY <1>e DEF Entry
    <3>2. i \in DOMAIN trunk'
          BY <1>4, <3>1
    <3>3. i # Len(trunk) + 1
          BY <1>3, <1>4
    <3>4. i \in DOMAIN trunk /\ trunk'[i] = trunk[i]
          BY <1>4, <1>5, <3>2, <3>3
    <3>5. i \in (e.fork + 1)..Len(trunk)
          BY <1>4, <3>1, <3>4
    <3> QED BY <1>b, <2>1, <3>4, <3>5 DEF MovedByOthers
  <2>3. k + 1 # 1
        BY <1>k
  <2> QED BY <1>1, <1>f, <2>2, <2>3 DEF LandsSoundly
<1>10. NamesGiven'
    BY <1>0, <1>1, <1>u, <1>s DEF TxSafe, NamesGiven, AllocatedIsFresh
<1>11. Traceless'
  <2> SUFFICES ASSUME ~Faults
               PROVE  /\ \A f \in Open(table') : h = f.id \/ LandedOf(f.branch)' = {}
                      /\ paused' = {f.branch : f \in Open(table')}
      BY <1>1, <1>s DEF Traceless, Open
  <2>1. paused = {f.branch : f \in Open(table)}
        BY <1>k DEF TxSafe, Traceless
  <2>2. ASSUME NEW f \in Open(table), f.id # h PROVE LandedOf(f.branch)' = {}
    <3>1. LandedOf(f.branch) = {}
          BY <1>h, <1>k, <2>2 DEF TxSafe, Traceless
    <3>2. f.branch # b
          BY <1>b, <1>e, <2>2, OneEntry DEF TxSafe, Tabled
    <3>3. \A i \in DOMAIN trunk' : trunk'[i].by # f.branch
          BY <1>3, <1>4, <1>5, <3>1, <3>2 DEF LandedOf
    <3> QED BY <3>3 DEF LandedOf
  <2> QED BY <1>0, <2>1, <2>2 DEF Open
<1>12. Remembering'
    BY <1>0, <1>s DEF TxSafe, Remembering, Open
<1> QED BY <1>6, <1>7, <1>8, <1>9, <1>10, <1>11, <1>12 DEF TxSafe

(* The clock, and the deaths of the process: what is durable is as it was, *)
(* and no request is in progress.                                          *)
LEMMA TickKeeps == TxSafe /\ Tick => TxSafe'
<1> SUFFICES ASSUME TxSafe, Tick PROVE TxSafe'
    OBVIOUS
<1>0. /\ now < MaxTime /\ now' = now + 1 /\ trunk' = trunk /\ child' = child
      /\ UNCHANGED <<paused, table, alloc, op, issued, saw, lastUse, scenario>>
    BY DEF Tick, store, history
<1>s. /\ Table' = Table /\ Request' = Request /\ Cell' = Cell /\ Remembered' = Remembered
      /\ TrunkLayer' = TrunkLayer /\ ChildRec' = ChildRec /\ MaxFork' = MaxFork /\ Handle' = Handle
      /\ MaxWrite' = MaxWrite /\ MaxAlloc' = MaxAlloc /\ MaxTime' = MaxTime /\ Named' = Named
      /\ (TornCounter' <=> TornCounter)
      /\ MaxTx' = MaxTx /\ MaxTime \in Nat /\ (Faults' <=> Faults)
      /\ (TornTable' <=> TornTable) /\ (TornCounter' <=> TornCounter)
    BY <1>0, SameBounds, Bounds DEF TxSafe, Shaped
<1>1. now \in 0..MaxTime /\ now' \in 0..MaxTime
    BY <1>0, <1>s DEF TxSafe, Shaped
<1>2. Shaped'
    BY <1>0, <1>1, <1>s DEF TxSafe, Shaped
<1>u. \A d : OwnWrites(d)' = OwnWrites(d)
    BY <1>0 DEF OwnWrites
<1>3. Tabled'
  <2>1. \A e \in Open(table) : e.touched <= now'
    <3>1. \A e \in Open(table) : e.touched <= now /\ e \in Entry
          BY DEF TxSafe, Shaped, Tabled, Table, Open, ToSet
    <3>2. \A e \in Open(table) : e.touched <= now /\ e.touched \in 0..MaxTime
          BY <3>1 DEF Entry
    <3> QED BY <1>0, <1>1, <1>s, <3>2
  <2> QED BY <1>0, <1>u, <2>1 DEF TxSafe, Tabled, Distinct, Open, Known
<1>4. Gated' /\ LandsSoundly'
  <2>1. \A e, cells : MovedByOthers(e, cells)' <=> MovedByOthers(e, cells)
        BY <1>0 DEF MovedByOthers
  <2>2. \A e : Dangling(e)' <=> Dangling(e)
        BY <1>0, <1>u DEF Dangling
  <2>3. LandsSoundly'
        BY <1>0, <2>1, <2>2 DEF TxSafe, LandsSoundly
  <2>4. op.kind # "none" => op.asked \in 0..MaxTime /\ op.asked <= now
        BY DEF TxSafe, Shaped, Gated, Request, Idle
  <2>5. op.kind # "none" => op.asked <= now'
        BY <1>0, <1>1, <2>4
  <2>6. op.kind \in {"write", "save"} => op.at \in 0..MaxTime /\ op.asked <= op.at /\ op.at <= now
        BY DEF TxSafe, Shaped, Gated, Request, Idle
  <2>7. op.kind \in {"write", "save"} => op.asked <= op.at /\ op.at <= now'
        BY <1>0, <1>1, <2>6
  <2>8. Gated'
        BY <1>0, <1>s, <1>u, <2>5, <2>7 DEF TxSafe, Gated, LandedOf, Layers, Open
  <2> QED BY <2>3, <2>8
<1>5. NamesGiven' /\ Traceless' /\ Remembering'
    BY <1>0, <1>s, <1>u DEF TxSafe, NamesGiven, AllocatedIsFresh, Traceless, Remembering, Open, LandedOf
<1> QED BY <1>2, <1>3, <1>4, <1>5 DEF TxSafe

LEMMA CrashKeeps == TxSafe /\ Crash => TxSafe'
<1> SUFFICES ASSUME TxSafe, Crash PROVE TxSafe'
    OBVIOUS
<1>0. /\ Faults /\ op' = Idle /\ trunk' = trunk /\ child' = child
      /\ UNCHANGED <<paused, table, alloc, now, issued, saw, lastUse, scenario>>
    BY DEF Crash, store, history
<1>s. /\ Table' = Table /\ Request' = Request /\ Cell' = Cell /\ Remembered' = Remembered
      /\ TrunkLayer' = TrunkLayer /\ ChildRec' = ChildRec /\ MaxFork' = MaxFork /\ Handle' = Handle
      /\ MaxWrite' = MaxWrite /\ MaxAlloc' = MaxAlloc /\ MaxTime' = MaxTime /\ Named' = Named
      /\ (TornCounter' <=> TornCounter)
      /\ MaxTx' = MaxTx /\ (Faults' <=> Faults)
      /\ (TornTable' <=> TornTable) /\ (TornCounter' <=> TornCounter)
    BY <1>0, SameBounds DEF TxSafe, Shaped
<1>u. (\A d : OwnWrites(d)' = OwnWrites(d)) /\ op'.kind = "none" /\ op' \in Request
    BY <1>0 DEF OwnWrites, Idle, Request
<1>1. Shaped'
    BY <1>0, <1>s, <1>u DEF TxSafe, Shaped
<1>2. Tabled' /\ Remembering'
    BY <1>0, <1>s, <1>u DEF TxSafe, Tabled, Distinct, Open, Known, Remembering
<1>3. Gated' /\ LandsSoundly' /\ Traceless'
    BY <1>0, <1>s, <1>u DEF Gated, LandsSoundly, Traceless
<1>4. NamesGiven'
    BY <1>0, <1>s, <1>u DEF TxSafe, NamesGiven, AllocatedIsFresh
<1> QED BY <1>1, <1>2, <1>3, <1>4 DEF TxSafe

LEMMA CrashInSaveKeeps == TxSafe /\ CrashInSave => TxSafe'
<1> SUFFICES ASSUME TxSafe, CrashInSave PROVE TxSafe'
    OBVIOUS
<1>0. /\ TornTable /\ op' = Idle /\ trunk' = trunk /\ child' = child /\ table' = DefaultTable
      /\ UNCHANGED <<paused, alloc, now, issued, saw, lastUse, scenario>>
    BY DEF CrashInSave, store, history
<1>s. /\ Table' = Table /\ Request' = Request /\ Cell' = Cell /\ Remembered' = Remembered
      /\ TrunkLayer' = TrunkLayer /\ ChildRec' = ChildRec /\ MaxFork' = MaxFork /\ Handle' = Handle
      /\ MaxWrite' = MaxWrite /\ MaxAlloc' = MaxAlloc /\ MaxTime' = MaxTime /\ Named' = Named
      /\ (TornCounter' <=> TornCounter)
      /\ MaxTx' = MaxTx /\ MaxTx \in Nat /\ Remembered \in Nat
      /\ (Faults' <=> Faults)
      /\ (TornTable' <=> TornTable) /\ (TornCounter' <=> TornCounter) /\ Faults
    BY <1>0, SameBounds, Bounds DEF TxSafe, Shaped
<1>u. (\A d : OwnWrites(d)' = OwnWrites(d)) /\ op'.kind = "none" /\ op' \in Request
    BY <1>0 DEF OwnWrites, Idle, Request
<1>t. /\ table' \in Table /\ table'.open = <<>> /\ table'.spent = <<>> /\ Len(table'.spent) = 0
      /\ Open(table') = {} /\ ToSet(table'.spent) = {} /\ DOMAIN table'.open = {}
    BY <1>0, <1>s DEF DefaultTable, Table, Open, ToSet
<1>1. Shaped'
    BY <1>0, <1>s, <1>u, <1>t DEF TxSafe, Shaped
<1>2. Tabled'
    BY <1>t DEF Tabled, Distinct, Open
<1>3. Gated' /\ LandsSoundly' /\ Traceless'
    BY <1>0, <1>s, <1>u DEF Gated, LandsSoundly, Traceless
<1>4. NamesGiven'
    BY <1>0, <1>s, <1>u DEF TxSafe, NamesGiven, AllocatedIsFresh
<1>5. Remembering'
    BY <1>0, <1>s DEF TxSafe, Remembering
<1> QED BY <1>1, <1>2, <1>3, <1>4, <1>5 DEF TxSafe

(* The counter starts over: nothing is promised of ids from then on.       *)
LEMMA CrashInAllocateKeeps == ASSUME TxSafe, NEW h \in Handle, CrashInAllocate(h) PROVE TxSafe'
<1>0. /\ TornCounter /\ op = Idle /\ op' = Idle /\ table' = Swept(table)
      /\ paused' = Unpaused(table) /\ alloc' = 1 /\ trunk' = trunk /\ child' = child
      /\ UNCHANGED <<now, issued, saw, lastUse, scenario>>
    BY DEF CrashInAllocate, store, history
<1>1. op.kind = "none" /\ op'.kind = "none"
    BY <1>0 DEF Idle
<1>2. \A b \in DOMAIN child : OwnWrites(b)' = OwnWrites(b)
    BY <1>0 DEF OwnWrites
<1>3. /\ table' \in Table /\ Len(table'.spent) <= Remembered
      /\ Tabled' /\ Traceless' /\ Remembering'
    BY <1>0, <1>1, <1>2, SweepingRequest
<1>s. /\ Table' = Table /\ Request' = Request /\ Cell' = Cell /\ Remembered' = Remembered
      /\ TrunkLayer' = TrunkLayer /\ ChildRec' = ChildRec /\ MaxFork' = MaxFork /\ Handle' = Handle
      /\ MaxWrite' = MaxWrite /\ MaxAlloc' = MaxAlloc /\ MaxTime' = MaxTime /\ Named' = Named
      /\ (TornCounter' <=> TornCounter) /\ MaxAlloc \in Nat
    BY <1>0, SameBounds, Bounds DEF TxSafe, Shaped
<1>4. paused' \subseteq 1..Len(child)
    BY <1>0 DEF TxSafe, Shaped, Unpaused
<1>5. Shaped'
    BY <1>0, <1>3, <1>4, <1>s DEF TxSafe, Shaped
<1>6. Gated' /\ LandsSoundly'
    BY <1>1 DEF Gated, LandsSoundly
<1>7. NamesGiven'
    BY <1>0, <1>s DEF NamesGiven, AllocatedIsFresh
<1> QED BY <1>3, <1>5, <1>6, <1>7 DEF TxSafe

LEMMA CrashInPauseKeeps == TxSafe /\ CrashInPause => TxSafe'
<1> SUFFICES ASSUME TxSafe, CrashInPause PROVE TxSafe'
    OBVIOUS
<1>0. /\ TornPauses /\ op' = Idle /\ trunk' = trunk /\ child' = child /\ paused' = {}
      /\ UNCHANGED <<table, alloc, now, issued, saw, lastUse, scenario>>
    BY DEF CrashInPause, store, history
<1>s. /\ Table' = Table /\ Request' = Request /\ Cell' = Cell /\ Remembered' = Remembered
      /\ TrunkLayer' = TrunkLayer /\ ChildRec' = ChildRec /\ MaxFork' = MaxFork /\ Handle' = Handle
      /\ MaxWrite' = MaxWrite /\ MaxAlloc' = MaxAlloc /\ MaxTime' = MaxTime /\ Named' = Named
      /\ MaxTx' = MaxTx /\ (Faults' <=> Faults) /\ Faults
      /\ (TornTable' <=> TornTable) /\ (TornCounter' <=> TornCounter)
    BY <1>0, SameBounds, Bounds DEF TxSafe, Shaped
<1>u. (\A d : OwnWrites(d)' = OwnWrites(d)) /\ op'.kind = "none" /\ op' \in Request
    BY <1>0 DEF OwnWrites, Idle, Request
<1>1. Shaped'
    BY <1>0, <1>s, <1>u DEF TxSafe, Shaped
<1>2. Tabled' /\ Remembering'
    BY <1>0, <1>s, <1>u DEF TxSafe, Tabled, Distinct, Open, Known, Remembering
<1>3. Gated' /\ LandsSoundly' /\ Traceless'
    BY <1>0, <1>s, <1>u DEF Gated, LandsSoundly, Traceless
<1>4. NamesGiven'
    BY <1>0, <1>s, <1>u DEF TxSafe, NamesGiven, AllocatedIsFresh
<1> QED BY <1>1, <1>2, <1>3, <1>4 DEF TxSafe

-----------------------------------------------------------------------------
(* The invariant                                                           *)

LEMMA TxInit == Init => TxSafe
<1> SUFFICES ASSUME Init PROVE TxSafe
    OBVIOUS
<1>0. /\ scenario \in Scenarios /\ child = <<>> /\ paused = {} /\ table = DefaultTable
      /\ alloc = 1 /\ op = Idle /\ now = 0 /\ issued = {}
      /\ saw = [h \in Handle |-> {}] /\ lastUse = [h \in Handle |-> 0]
    BY DEF Init
<1>b. /\ MaxTx \in Nat /\ MaxFork \in Nat /\ MaxWrite \in Nat /\ MaxAlloc \in Nat
      /\ MaxTime \in Nat /\ Remembered \in Nat
    BY <1>0, Bounds
<1>1. PICK first : first = [by |-> Nobody, n |-> 1, w |-> [c \in {} |-> "value"]]
    OBVIOUS
<1>2. trunk = <<first>> /\ first.by = 0
    BY <1>1 DEF Init, Nobody
<1>3. first \in TrunkLayer
  <2> DEFINE none == [c \in {} |-> "value"]
  <2>1. none \in [{} -> Written] /\ {} \subseteq Cell
        OBVIOUS
  <2>2. none \in Layer
        BY <2>1 DEF Layer
  <2>3. 1 \in 1..(MaxWrite + 1) /\ first = [by |-> Nobody, n |-> 1, w |-> none]
        BY <1>1, <1>b
  <2> HIDE DEF none
  <2> QED BY <2>2, <2>3 DEF TrunkLayer
<1>4. trunk \in Seq(TrunkLayer) /\ trunk # <<>> /\ DOMAIN trunk = {1} /\ trunk[1] = first
    BY <1>2, <1>3
<1>t. /\ table \in Table /\ table.open = <<>> /\ table.spent = <<>> /\ Len(table.spent) = 0
      /\ Open(table) = {} /\ ToSet(table.spent) = {} /\ DOMAIN table.open = {}
    BY <1>0, <1>b DEF DefaultTable, Table, Open, ToSet
<1>o. op.kind = "none" /\ op \in Request
    BY <1>0 DEF Idle, Request
<1>5. Shaped
  <2>1. child \in Seq(ChildRec) /\ Len(child) = 0 /\ DOMAIN child = {}
        BY <1>0
  <2>2. saw \in [Handle -> SUBSET Cell] /\ lastUse \in [Handle -> 0..MaxTime]
        BY <1>0, <1>b
  <2> QED BY <1>0, <1>b, <1>2, <1>4, <1>t, <1>o, <2>1, <2>2 DEF Shaped
<1>6. Tabled
    BY <1>t DEF Tabled, Distinct
<1>7. Gated /\ LandsSoundly
    BY <1>o DEF Gated, LandsSoundly
<1>8. NamesGiven
    BY <1>0, <1>o DEF NamesGiven, AllocatedIsFresh
<1>9. Traceless
    BY <1>0, <1>o, <1>t DEF Traceless
<1>10. Remembering
    BY <1>0, <1>t DEF Remembering
<1> QED BY <1>5, <1>6, <1>7, <1>8, <1>9, <1>10 DEF TxSafe

LEMMA TxStutter == TxSafe /\ UNCHANGED vars => TxSafe'
<1> SUFFICES ASSUME TxSafe, UNCHANGED vars PROVE TxSafe'
    OBVIOUS
<1>0. /\ trunk' = trunk /\ child' = child
      /\ UNCHANGED <<paused, table, alloc, op, now, issued, saw, lastUse, scenario>>
    BY DEF vars, store, history
<1>s. /\ Table' = Table /\ Request' = Request /\ Cell' = Cell /\ Remembered' = Remembered
      /\ TrunkLayer' = TrunkLayer /\ ChildRec' = ChildRec /\ MaxFork' = MaxFork /\ Handle' = Handle
      /\ MaxWrite' = MaxWrite /\ MaxAlloc' = MaxAlloc /\ MaxTime' = MaxTime /\ Named' = Named
      /\ (TornCounter' <=> TornCounter)
      /\ MaxTx' = MaxTx /\ (Faults' <=> Faults)
      /\ (TornTable' <=> TornTable) /\ (TornCounter' <=> TornCounter)
    BY <1>0, SameBounds
<1>u. \A d : OwnWrites(d)' = OwnWrites(d)
    BY <1>0 DEF OwnWrites
<1>1. Shaped'
    BY <1>0, <1>s DEF TxSafe, Shaped
<1>2. Tabled' /\ Remembering'
    BY <1>0, <1>s, <1>u DEF TxSafe, Tabled, Distinct, Open, Known, Remembering
<1>3. Gated' /\ LandsSoundly'
  <2>1. \A e, cells : MovedByOthers(e, cells)' <=> MovedByOthers(e, cells)
        BY <1>0 DEF MovedByOthers
  <2>2. \A e : Dangling(e)' <=> Dangling(e)
        BY <1>0, <1>u DEF Dangling
  <2> QED BY <1>0, <1>s, <1>u, <2>1, <2>2 DEF TxSafe, Gated, LandsSoundly, LandedOf, Layers, Open
<1>4. NamesGiven' /\ Traceless'
    BY <1>0, <1>s, <1>u DEF TxSafe, NamesGiven, AllocatedIsFresh, Traceless, Open, LandedOf
<1> QED BY <1>1, <1>2, <1>3, <1>4 DEF TxSafe

LEMMA TxStep == TxSafe /\ [Next]_vars => TxSafe'
<1> SUFFICES ASSUME TxSafe, [Next]_vars PROVE TxSafe'
    OBVIOUS
<1>1. CASE SweepOnly
    BY <1>1, SweepOnlyKeeps
<1>2. CASE TxBegin
    BY <1>2, TxBeginKeeps
<1>3. CASE TxBeginSave
    BY <1>3, TxBeginSaveKeeps
<1>4. ASSUME NEW h \in Handle, NEW c \in Cell, TxGet(h, c) PROVE TxSafe'
    BY <1>4, TxGetKeeps
<1>5. ASSUME NEW h \in Handle, NEW c \in Cell, NEW v \in Written, TxSet(h, c, v) PROVE TxSafe'
    BY <1>5, TxSetKeeps
<1>6. ASSUME NEW h \in Handle, TxCreate(h) PROVE TxSafe'
    BY <1>6, TxCreateKeeps
<1>7. ASSUME NEW h \in Handle, TxCommit(h) PROVE TxSafe'
    BY <1>7, TxCommitKeeps
<1>8. ASSUME NEW h \in Handle, TxAbort(h) PROVE TxSafe'
    BY <1>8, TxAbortKeeps
<1>9. CASE TxCreateSet
    BY <1>9, TxCreateSetKeeps
<1>10. CASE TxSave
    BY <1>10, TxSaveKeeps
<1>11. CASE Land
    BY <1>11, LandKeeps
<1>12. CASE LandFails
    BY <1>12, LandFailsKeeps
<1>13. CASE TxCommitSave
    BY <1>13, TxCommitSaveKeeps
<1>14. CASE Tick
    BY <1>14, TickKeeps
<1>15. CASE Crash
    BY <1>15, CrashKeeps
<1>16. CASE CrashInSave
    BY <1>16, CrashInSaveKeeps
<1>17. CASE UNCHANGED vars
    BY <1>17, TxStutter
<1>18. CASE SessionCommit
    BY <1>18, SessionCommitKeeps
<1>19. CASE CrashInPause
    BY <1>19, CrashInPauseKeeps
<1>20. ASSUME NEW h \in Handle, CrashInAllocate(h) PROVE TxSafe'
    BY <1>20, CrashInAllocateKeeps
<1> QED
    BY <1>1, <1>2, <1>3, <1>4, <1>5, <1>6, <1>7, <1>8, <1>9, <1>10, <1>11, <1>12, <1>13, <1>14,
       <1>15, <1>16, <1>17, <1>18, <1>19, <1>20
    DEF Next

LEMMA AlwaysTxSafe == Spec => []TxSafe
BY TxInit, TxStep, PTL DEF Spec

(* What the invariant says of the shapes, the pauses and the traces. *)
LEMMA TxSafeImplies == TxSafe => TxInv
<1> SUFFICES ASSUME TxSafe PROVE TxInv
    OBVIOUS
<1>0. Shaped
    BY DEF TxSafe
<1>1. \A i \in DOMAIN trunk : /\ trunk[i].by \in Fork \cup {Nobody}
                              /\ trunk[i].n \in 1..(MaxWrite + 1)
                              /\ DOMAIN trunk[i].w \subseteq Cell
  <2> SUFFICES ASSUME NEW i \in DOMAIN trunk
               PROVE  /\ trunk[i].by \in Fork \cup {Nobody} /\ trunk[i].n \in 1..(MaxWrite + 1)
                      /\ DOMAIN trunk[i].w \subseteq Cell
      OBVIOUS
  <2>1. trunk[i] \in TrunkLayer /\ trunk[i].w \in Layer
        BY <1>0, Authors
  <2>2. DOMAIN trunk[i].w \subseteq Cell
        BY <2>1 DEF Layer
  <2> QED BY <2>1, <2>2 DEF TrunkLayer
<1>2. \A b \in DOMAIN child : /\ child[b].fork \in 1..Len(trunk)
                              /\ \A k \in DOMAIN child[b].layers : child[b].layers[k] \in Layer
  <2> SUFFICES ASSUME NEW b \in DOMAIN child, NEW k \in DOMAIN child[b].layers
               PROVE  child[b].layers[k] \in Layer
      BY <1>0 DEF Shaped
  <2>1. child[b].layers \in Seq(Layer)
        BY <1>0, Branches
  <2> QED BY <2>1
<1>3. /\ table.next \in 1..(MaxTx + 1)
      /\ \A i \in DOMAIN table.open : table.open[i] \in Entry
      /\ \A i \in DOMAIN table.spent : table.spent[i] \in [id : Handle, fate : Fate]
  <2>1. /\ table.next \in 1..(MaxTx + 1) /\ table.open \in Seq(Entry)
        /\ table.spent \in Seq(SpentRec)
        BY <1>0 DEF Shaped, Table
  <2>2. \A i \in DOMAIN table.open : table.open[i] \in Entry
        BY <2>1
  <2>3. \A i \in DOMAIN table.spent : table.spent[i] \in SpentRec
        BY <2>1
  <2> QED BY <2>1, <2>2, <2>3 DEF SpentRec
<1>4. \A i, j \in DOMAIN table.open : table.open[i].id = table.open[j].id => i = j
    BY DEF TxSafe, Tabled, Distinct
<1>5. op.kind \in {"none", "begin", "create", "write", "save", "land"}
    BY <1>0 DEF Shaped, Request, Idle
<1>6. TypeOK
    BY <1>0, <1>1, <1>2, <1>3, <1>4, <1>5 DEF Shaped, TypeOK
<1>7. OpenHasNotLanded /\ PausedWhileOpen
  <2> SUFFICES ASSUME ~Faults, op = Idle
               PROVE  /\ \A i \in DOMAIN table.open : LandedOf(table.open[i].branch) = {}
                      /\ paused = {table.open[i].branch : i \in DOMAIN table.open}
      BY DEF OpenHasNotLanded, PausedWhileOpen
  <2>1. \A e \in Open(table) : LandedOf(e.branch) = {}
        BY DEF TxSafe, Traceless, Idle
  <2>2. paused = {e.branch : e \in Open(table)}
        BY DEF TxSafe, Traceless, Idle
  <2> QED BY <2>1, <2>2 DEF Open, ToSet
<1> QED BY <1>6, <1>7 DEF TxInv

-----------------------------------------------------------------------------
(* The theorems                                                            *)

(* Between requests an open transaction has left no trace on the parent,   *)
(* and derivation is paused on the branch of every open transaction and of *)
(* no ended one, however many begin, write, land, abort and expire         *)
(* (ops.rs tx_begin to tx_abort, branch.rs:181).                           *)
THEOREM TableAgreesWithStore == Spec => []TxInv
BY AlwaysTxSafe, TxSafeImplies, PTL

(* No transaction lands a layer on a parent that another one has moved     *)
(* under what its client was shown, absent cells and existence probes      *)
(* included (branch.rs replay over the guards that transaction.rs kept).   *)
THEOREM LandingReadsTrue == Spec => ReadsStillTrue
<1>1. TxSafe /\ [Next]_vars =>
         [~TornTable => \A h \in Handle :
              Landing(h) => ~MovedByOthers(EntryOf(table, h), saw[h])]_vars
  <2> SUFFICES ASSUME TxSafe, ~TornTable, NEW h \in Handle, Landing(h)
               PROVE  ~MovedByOthers(EntryOf(table, h), saw[h])
      OBVIOUS
  <2>1. op.kind = "land" /\ op.tx = h /\ Known(table, h)
        BY DEF Landing, TxSafe, Gated
  <2> DEFINE e == EntryOf(table, h)
  <2>2. e \in Open(table) /\ e.id = h
        BY <2>1, EntryIs
  <2>3. ~MovedByOthers(e, e.reads)
        BY <2>1 DEF TxSafe, LandsSoundly
  <2> HIDE DEF e
  <2>4. saw[h] \subseteq e.reads
        BY <2>2 DEF TxSafe, Remembering
  <2>5. ~MovedByOthers(e, saw[h])
        BY <2>3, <2>4 DEF MovedByOthers
  <2> QED BY <2>5 DEF e
<1> QED BY <1>1, AlwaysTxSafe, PTL DEF Spec, ReadsStillTrue

(* When the first layer of a transaction lands, none of what it wrote is a *)
(* property of an object whose deletion is the parent's last word on it    *)
(* since the fork (branch.rs check_dangling).                              *)
THEOREM NothingLandsDangling == Spec => NothingDangles
<1>1. TxSafe /\ [Next]_vars =>
         [\A h \in Handle : (Landing(h) /\ op.k = 1) =>
             \A c \in OwnWrites(EntryOf(table, h).branch) : \A i \in DOMAIN trunk :
                 ~ /\ c # Exists(c) /\ i > EntryOf(table, h).fork
                   /\ Exists(c) \in DOMAIN trunk[i].w /\ trunk[i].w[Exists(c)] = "tombstone"
                   /\ \A j \in (i + 1)..Len(trunk) : Exists(c) \notin DOMAIN trunk[j].w]_vars
  <2> SUFFICES ASSUME TxSafe, NEW h \in Handle, Landing(h), op.k = 1,
                      NEW c \in OwnWrites(EntryOf(table, h).branch), NEW i \in DOMAIN trunk,
                      c # Exists(c), i > EntryOf(table, h).fork,
                      Exists(c) \in DOMAIN trunk[i].w, trunk[i].w[Exists(c)] = "tombstone",
                      \A j \in (i + 1)..Len(trunk) : Exists(c) \notin DOMAIN trunk[j].w
               PROVE  FALSE
      OBVIOUS
  <2>1. op.kind = "land" /\ op.tx = h
        BY DEF Landing
  <2>2. ~Dangling(EntryOf(table, h))
        BY <2>1 DEF TxSafe, LandsSoundly
  <2>3. DOMAIN trunk = 1..Len(trunk) /\ Len(trunk) \in Nat
        BY DEF TxSafe, Shaped
  <2> DEFINE at == {n \in 1..Len(trunk) : Exists(c) \in DOMAIN trunk[n].w}
  <2>4. i \in at /\ \A j \in at : j <= i
        BY <2>3
  <2>5. Dangling(EntryOf(table, h))
        BY <2>4 DEF Dangling
  <2> QED BY <2>2, <2>5
<1> QED BY <1>1, AlwaysTxSafe, PTL DEF Spec, NothingDangles

(* A handle is given to one transaction and an id to one object, through   *)
(* deaths of the process at any point but in the write of the file that    *)
(* counts it: handles while the table is never torn, ids while the counter *)
(* is never torn, whatever else is (ops.rs:597 and 899, sidecar.rs:50).    *)
THEOREM NamesAreNew == Spec => NothingReused
<1>1. TxSafe /\ TxSafe' /\ [Next]_vars => [HandleIsNew /\ AllocatedIsFresh']_vars
  <2> SUFFICES ASSUME TxSafe, TxSafe' PROVE HandleIsNew /\ AllocatedIsFresh'
      OBVIOUS
  <2>1. AllocatedIsFresh'
        BY DEF TxSafe, NamesGiven
  <2>2. ASSUME ~TornTable PROVE table.next \notin issued
    <3>1. \A h \in issued : h < table.next /\ h \in Nat
          BY <2>2 DEF TxSafe, Shaped, Remembering, Handle
    <3>2. table.next \in Nat
          BY DEF TxSafe, Shaped, Table
    <3> QED BY <3>1, <3>2
  <2> QED BY <2>1, <2>2 DEF HandleIsNew
<1> QED BY <1>1, AlwaysTxSafe, PTL DEF Spec, NothingReused

-----------------------------------------------------------------------------
(* How transactions end                                                    *)

(* The table t has come of the one there is by ending the transactions of  *)
(* `lately`: word of them is left, and who is said to have expired either  *)
(* was said to before or was idle for too long.                            *)
EndedIn(t, lately) ==
    /\ \A h \in lately : Known(table, h)
    /\ \A h : Known(table, h) /\ ~Known(t, h) => h \in lately
    /\ Tells(t.spent, lately, lately)
    /\ \A s \in ToSet(t.spent) : \/ s \in ToSet(table.spent)
                                 \/ s.fate # "expired"
                                 \/ \E e \in Expiring(table) : s.id = e.id

LEMMA NoneEnded == EndedIn(table, {})
BY DEF EndedIn, Tells

LEMMA SweepEnded == TxSafe => EndedIn(Swept(table), {e.id : e \in Expiring(table)})
<1> SUFFICES ASSUME TxSafe PROVE EndedIn(Swept(table), {e.id : e \in Expiring(table)})
    OBVIOUS
<1> DEFINE t == Swept(table)
           ids == {e.id : e \in Expiring(table)}
<1>1. scenario \in Scenarios /\ Sound(table)
    BY DEF TxSafe, Shaped, Tabled, Sound
<1>2. /\ Expiring(table) \subseteq Open(table) /\ Open(t) = Open(table) \ Expiring(table)
      /\ \A s \in ToSet(t.spent) :
            s \in ToSet(table.spent)
               \/ \E e \in Expiring(table) : s = [id |-> e.id, fate |-> "expired"]
      /\ Tells(t.spent, ids, ids)
    BY <1>1, SweptIs
<1> HIDE DEF t
<1>3. \A h \in ids : Known(table, h)
    BY <1>2 DEF Known, Open
<1>4. \A h : Known(table, h) /\ ~Known(t, h) => h \in ids
    BY <1>2 DEF Known, Open
<1>5. \A s \in ToSet(t.spent) : s \in ToSet(table.spent) \/ \E e \in Expiring(table) : s.id = e.id
    BY <1>2
<1> QED BY <1>2, <1>3, <1>4, <1>5 DEF EndedIn, t

(* Replacing an entry ends nothing. *)
LEMMA ReplacingEnds ==
    ASSUME NEW t \in Table, NEW lately, EndedIn(t, lately), NEW h, NEW e, e.id = h
    PROVE  EndedIn(With(t, h, e), lately)
<1> DEFINE r == [i \in DOMAIN t.open |-> IF t.open[i].id = h THEN e ELSE t.open[i]]
           q == With(t, h, e)
<1>1. q.spent = t.spent /\ q.open = r
    BY DEF With, Table
<1>2. DOMAIN r = DOMAIN t.open /\ \A i \in DOMAIN t.open : r[i].id = t.open[i].id
    OBVIOUS
<1> HIDE DEF q, r
<1>3. \A k : Known(t, k) => Known(q, k)
    BY <1>1, <1>2 DEF Known, ToSet
<1> QED BY <1>1, <1>3 DEF EndedIn, q

(* A later end is told after the earlier ones. *)
LEMMA RetiringEnds ==
    ASSUME scenario \in Scenarios, NEW t, Sound(t), NEW lately, EndedIn(t, lately),
           NEW h \in Handle, Known(table, h), NEW fate \in Fate, fate # "expired"
    PROVE  EndedIn(Retire(t, h, fate), lately \cup {h})
<1> DEFINE r == Retire(t, h, fate)
           word == [id |-> h, fate |-> fate]
           all  == Append(t.spent, word)
<1>1. Open(r) = {e \in Open(t) : e.id # h}
    BY RetireIs
<1>2. r.spent = Remember(all)
    BY RetireIs
<1>3. \A s \in ToSet(r.spent) : s \in ToSet(t.spent) \/ s = word
    BY RetireIs
<1>4. word \in SpentRec /\ word.id = h /\ word.fate = fate
    BY DEF SpentRec
<1>5. t.spent \in Seq(SpentRec)
    BY DEF Sound, Table
<1> HIDE DEF r, word
<1>6. Tells(t.spent, lately \cup {h}, lately)
    BY DEF EndedIn, Tells
<1>7. Tells(all, lately \cup {h}, lately \cup {h})
    BY <1>4, <1>5, <1>6, AppendTells
<1>8. all \in Seq(SpentRec)
    BY <1>4, <1>5
<1> HIDE DEF all
<1>9. Tells(r.spent, lately \cup {h}, lately \cup {h})
    BY <1>2, <1>7, <1>8, RememberTells
<1>10. \A k : Known(t, k) /\ ~Known(r, k) => k = h
    BY <1>1 DEF Known, Open
<1>11. \A k : Known(table, k) /\ ~Known(r, k) => k \in lately \cup {h}
    BY <1>10 DEF EndedIn
<1>12. \A s \in ToSet(r.spent) : \/ s \in ToSet(table.spent)
                                 \/ s.fate # "expired"
                                 \/ \E e \in Expiring(table) : s.id = e.id
    BY <1>3, <1>4 DEF EndedIn
<1> QED BY <1>9, <1>11, <1>12 DEF EndedIn, r

(* What one step ends, unless the table is torn. *)
LEMMA StepEnds ==
    ASSUME TxSafe, [Next]_vars
    PROVE  \/ TornTable /\ table' = DefaultTable
           \/ \E lately : EndedIn(table', lately)
<1>s. scenario \in Scenarios /\ Sound(table) /\ table \in Table /\ Sound(Swept(table))
      /\ Swept(table) \in Table /\ Narrowed(Swept(table), Unpaused(table))
  <2>1. Narrowed(Swept(table), Unpaused(table))
        BY AsSwept
  <2> QED BY <2>1 DEF TxSafe, Shaped, Tabled, Sound, Narrowed
<1>e. \A h : Known(table, h) => /\ EntryOf(table, h) \in Entry /\ EntryOf(table, h).id = h
                                /\ h \in Handle
    BY AsFound, FoundThere
<1>k. \A h : Known(Swept(table), h) => Known(table, h)
    BY <1>s, FoundThere
<1>1. CASE table' = Swept(table)
    BY <1>1, SweepEnded
<1>2. CASE table' = table
    BY <1>2, NoneEnded
<1>3. CASE TxBeginSave
  <2>1. table'.spent = table.spent
        BY <1>3, <1>s DEF TxBeginSave, Table
  <2>2. PICK new : table'.open = Append(table.open, new)
        BY <1>3, <1>s DEF TxBeginSave, Table
  <2>3. \A h : Known(table, h) => Known(table', h)
    <3>1. table.open \in Seq(Entry)
          BY <1>s DEF Table
    <3>2. \A i \in DOMAIN table.open : i \in DOMAIN table'.open /\ table'.open[i] = table.open[i]
          BY <2>2, <3>1
    <3> QED BY <3>2 DEF Known, ToSet
  <2>4. EndedIn(table', {})
        BY <2>1, <2>3 DEF EndedIn, Tells
  <2> QED BY <2>4
<1>4. ASSUME NEW h \in Handle, NEW c \in Cell, TxGet(h, c)
      PROVE  \E lately : EndedIn(table', lately)
  <2> DEFINE f == Touch(Observe(EntryOf(table, h), c), now)
  <2>1. table' = With(Swept(table), h, f) /\ Known(table, h)
        BY <1>4, <1>k DEF TxGet
  <2>2. f.id = h
        BY <1>e, <2>1 DEF Touch, Observe, Entry
  <2> HIDE DEF f
  <2>3. EndedIn(table', {e.id : e \in Expiring(table)})
        BY <1>s, <2>1, <2>2, SweepEnded, ReplacingEnds
  <2> QED BY <2>3
<1>5. CASE TxSave
  <2>1. op.kind = "save" /\ Known(table, op.tx)
        BY <1>5 DEF TxSave, TxSafe, Gated
  <2> DEFINE f == Touch(Absorb(EntryOf(table, op.tx), op.reads, DOMAIN op.layer), op.at)
  <2>2. table' = With(table, op.tx, f)
        BY <1>5 DEF TxSave
  <2>3. f.id = op.tx
        BY <1>e, <2>1 DEF Touch, Absorb, Entry
  <2> HIDE DEF f
  <2>4. EndedIn(table', {})
        BY <1>s, <2>2, <2>3, NoneEnded, ReplacingEnds
  <2> QED BY <2>4
<1>6. ASSUME NEW h \in Handle, TxCommit(h)
      PROVE  \E lately : EndedIn(table', lately)
  <2> DEFINE f == Touch(EntryOf(table, h), now)
  <2>1. (table' = Swept(table) \/ table' = With(Swept(table), h, f)) /\ Known(table, h)
        BY <1>6, <1>k DEF TxCommit
  <2>2. f.id = h
        BY <1>e, <2>1 DEF Touch, Entry
  <2> HIDE DEF f
  <2>3. EndedIn(table', {e.id : e \in Expiring(table)})
        BY <1>s, <2>1, <2>2, SweepEnded, ReplacingEnds
  <2> QED BY <2>3
<1>7. CASE LandFails
  <2>1. op.kind = "land" /\ Known(table, op.tx)
        BY <1>7 DEF LandFails, TxSafe, Gated
  <2> DEFINE f == Touch(EntryOf(table, op.tx), now)
  <2>2. table' = With(table, op.tx, f)
        BY <1>7 DEF LandFails
  <2>3. f.id = op.tx
        BY <1>e, <2>1 DEF Touch, Entry
  <2> HIDE DEF f
  <2>4. EndedIn(table', {})
        BY <1>s, <2>2, <2>3, NoneEnded, ReplacingEnds
  <2> QED BY <2>4
<1>8. CASE TxCommitSave
  <2>1. op.kind = "land" /\ Known(table, op.tx) /\ op.tx \in Handle
        BY <1>8, <1>e DEF TxCommitSave, TxSafe, Gated
  <2>2. table' = Retire(table, op.tx, "committed") /\ "committed" \in Fate
        BY <1>8 DEF TxCommitSave, Fate
  <2>3. EndedIn(table', {} \cup {op.tx})
        BY <1>s, <2>1, <2>2, NoneEnded, RetiringEnds
  <2> QED BY <2>3
<1>9. ASSUME NEW h \in Handle, TxAbort(h)
      PROVE  \E lately : EndedIn(table', lately)
  <2>1. Known(table, h)
        BY <1>9, <1>k DEF TxAbort
  <2>2. table' = Retire(Swept(table), h, "aborted") /\ "aborted" \in Fate
        BY <1>9 DEF TxAbort, Fate
  <2>3. EndedIn(table', {e.id : e \in Expiring(table)} \cup {h})
        BY <1>s, <2>1, <2>2, SweepEnded, RetiringEnds
  <2> QED BY <2>3
<1>10. CASE SweepOnly
    BY <1>1, <1>10 DEF SweepOnly
<1>11. CASE TxBegin
    BY <1>1, <1>11 DEF TxBegin
<1>12. ASSUME NEW h \in Handle, NEW c \in Cell, NEW v \in Written, TxSet(h, c, v)
       PROVE  table' = Swept(table)
    BY <1>12 DEF TxSet
<1>13. ASSUME NEW h \in Handle, TxCreate(h) PROVE table' = Swept(table)
    BY <1>13 DEF TxCreate
<1>14. CASE TxCreateSet \/ SessionCommit \/ Land \/ Tick \/ Crash \/ CrashInPause \/ UNCHANGED vars
    BY <1>2, <1>14 DEF TxCreateSet, SessionCommit, Land, Tick, Crash, CrashInPause, vars
<1>15. CASE CrashInSave
    BY <1>15 DEF CrashInSave
<1>16. ASSUME NEW h \in Handle, CrashInAllocate(h) PROVE table' = Swept(table)
    BY <1>16 DEF CrashInAllocate
<1> QED BY <1>1, <1>3, <1>4, <1>5, <1>6, <1>7, <1>8, <1>9, <1>10, <1>11, <1>12, <1>13, <1>14, <1>15,
           <1>16
        DEF Next

(* A transaction that is no longer open has left word of its end, unless   *)
(* what ended with it fills the memory (ops.rs reap_transactions, retire). *)
THEOREM EndsAreTold == Spec => FateIsTold
<1>1. TxSafe /\ TxSafe' /\ [Next]_vars =>
         [~TornTable => \A h \in Handle : (Known(table, h) /\ ~Known(table', h)) =>
             \/ Spent(table', h)
             \/ /\ Len(table'.spent) = Remembered
                /\ \A i \in DOMAIN table'.spent : Known(table, table'.spent[i].id)]_vars
  <2> SUFFICES ASSUME TxSafe, TxSafe', [Next]_vars, ~(UNCHANGED vars), ~TornTable, NEW h \in Handle,
                      Known(table, h), ~Known(table', h)
               PROVE  \/ Spent(table', h)
                      \/ /\ Len(table'.spent) = Remembered
                         /\ \A i \in DOMAIN table'.spent : Known(table, table'.spent[i].id)
      OBVIOUS
  <2>1. PICK lately : EndedIn(table', lately)
        BY StepEnds
  <2>2. h \in lately
        BY <2>1 DEF EndedIn
  <2>3. \/ Spent(table', h)
        \/ /\ Len(table'.spent) >= Remembered
           /\ \A i \in DOMAIN table'.spent : table'.spent[i].id \in lately
        BY <2>1, <2>2 DEF EndedIn, Tells, Spent
  <2>4. Len(table'.spent) <= Remembered /\ Remembered \in Nat /\ Len(table'.spent) \in Nat
    <3>1. scenario' = scenario /\ scenario \in Scenarios
          BY DEF TxSafe, Shaped, Next, vars, SweepOnly, TxBegin, TxBeginSave, TxGet, TxSet, TxCreate,
             TxCommit, TxAbort, TxCreateSet, SessionCommit, TxSave, Land, LandFails, TxCommitSave,
             Tick, Crash, CrashInSave, CrashInAllocate, CrashInPause
    <3>2. Remembered' = Remembered /\ Remembered \in Nat
          BY <3>1, SameBounds, Bounds
    <3>3. Len(table'.spent) <= Remembered' /\ table'.spent \in Seq(SpentRec')
          BY DEF TxSafe, Shaped, Table
    <3> QED BY <3>2, <3>3
  <2> QED BY <2>1, <2>3, <2>4 DEF EndedIn
<1> QED BY <1>1, AlwaysTxSafe, PTL DEF Spec, FateIsTold

(* Nobody is said to have expired within the timeout of when its client    *)
(* asked what it last had an answer to, whatever was torn (ops.rs          *)
(* reap_transactions, and `touched`, which a write takes before its commit *)
(* and every other request at its end).                                    *)
THEOREM SilenceExpires == Spec => ReapedWereIdle
<1>1. TxSafe /\ [Next]_vars =>
         [\A h \in Handle : (Known(table, h) /\ \E i \in DOMAIN table'.spent :
                                table'.spent[i] = [id |-> h, fate |-> "expired"])
             => now - lastUse[h] > Timeout]_vars
  <2> SUFFICES ASSUME TxSafe, [Next]_vars, NEW h \in Handle, Known(table, h),
                      NEW i \in DOMAIN table'.spent,
                      table'.spent[i] = [id |-> h, fate |-> "expired"]
               PROVE  now - lastUse[h] > Timeout
      OBVIOUS
  <2> DEFINE s == table'.spent[i]
  <2>0. s \in ToSet(table'.spent) /\ s.id = h /\ s.fate = "expired"
        BY DEF ToSet
  <2> HIDE DEF s
  <2>1. PICK lately : EndedIn(table', lately)
    <3>1. table' # DefaultTable
          BY DEF DefaultTable
    <3> QED BY <3>1, StepEnds
  <2>2. s \notin ToSet(table.spent)
        BY <2>0 DEF TxSafe, Tabled
  <2>3. PICK e \in Expiring(table) : e.id = h
        BY <2>0, <2>1, <2>2 DEF EndedIn
  <2>4. e \in Open(table) /\ now - e.touched > Timeout
        BY <2>3 DEF Expiring, Open
  <2>5. lastUse[h] <= e.touched
        BY <2>3, <2>4 DEF TxSafe, Tabled
  <2>6. e \in Entry
        BY <2>4 DEF TxSafe, Shaped, Table, Open, ToSet
  <2>7. e.touched \in Int /\ lastUse[h] \in Int /\ now \in Int /\ Timeout \in Int
        BY <2>6, Bounds DEF TxSafe, Shaped, Entry
  <2> QED BY <2>4, <2>5, <2>7
<1> QED BY <1>1, AlwaysTxSafe, PTL DEF Spec, ReapedWereIdle
=============================================================================
