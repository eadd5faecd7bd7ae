-------------------------- MODULE DerivationProofs --------------------------
(***************************************************************************)
(* What a round of the derivation engine lands, for any producers, any     *)
(* user code, any number of objects and whatever clients, pushes, failures *)
(* and process deaths do meanwhile.                                        *)
(***************************************************************************)
EXTENDS Derivation, FiniteSetTheorems, WellFoundedInduction, TLAPS

---------------------------------------------------------------------------
(* Induction over the numbers, for a predicate given as a set.              *)

(* A set of numbers has a least one. *)
LEMMA LeastNumber ==
    ASSUME NEW S, S \subseteq Nat, S # {}
    PROVE  \E m \in S : \A k \in S : m <= k
<1> DEFINE Below == {pair \in Nat \X Nat : pair[1] < pair[2]}
<1>1. IsWellFoundedOn(Below, Nat)
    BY NatLessThanWellFounded, Zenon DEF OpToRel
<1>2. \A k, m \in Nat : k < m => <<k, m>> \in Below
    OBVIOUS
<1> HIDE DEF Below
<1>3. PICK m \in S : \A k \in S : ~ (<<k, m>> \in Below)
    BY <1>1, WFMin, Zenon
<1>4. \A k \in S : ~ (k < m)
    BY <1>2, <1>3
<1>5. \A k \in S : m <= k
    BY <1>4
<1> QED BY <1>5

(* A set that holds zero, and with a number the next, holds them all. *)
LEMMA EveryNumber ==
    ASSUME NEW S, 0 \in S, \A n \in Nat : n \in S => n + 1 \in S
    PROVE  Nat \subseteq S
<1> DEFINE Left == Nat \ S
<1>1. SUFFICES ASSUME Left # {} PROVE FALSE
    OBVIOUS
<1>2. PICK m \in Left : \A k \in Left : m <= k
    BY <1>1, LeastNumber
<1>3. m \in Nat /\ m # 0 /\ m \notin S
    BY <1>2
<1>4. m - 1 \in Nat /\ m = (m - 1) + 1 /\ ~(m <= m - 1)
    BY <1>3
<1>5. m - 1 \in S
    BY <1>2, <1>4
<1>6. (m - 1) + 1 \in S
    BY <1>4, <1>5
<1> QED BY <1>3, <1>4, <1>6

---------------------------------------------------------------------------
(* Positions in the trunk and in a round                                   *)

(* The highest of some positions is one of them (the cell lookup of         *)
(* get_cell and the folds of projection.rs rely on it).                     *)
LEMMA HighestIs ==
    ASSUME NEW n \in Nat, NEW S, S \subseteq 0..n, S # {}
    PROVE  Highest(S) \in S /\ \A m \in S : m <= Highest(S)
<1> DEFINE Gaps == {n - m : m \in S}
<1>0. \A m \in S : m \in Nat /\ n - m \in Nat
    OBVIOUS
<1>1. Gaps \subseteq Nat /\ Gaps # {}
    BY <1>0
<1>2. PICK g \in Gaps : \A k \in Gaps : g <= k
    BY <1>1, LeastNumber
<1>3. PICK h \in S : g = n - h
    OBVIOUS
<1>4. \A m \in S : m <= h
    BY <1>2, <1>3
<1>5. \E h2 \in S : \A m \in S : m <= h2
    BY <1>3, <1>4
<1> QED BY <1>5, Zenon DEF Highest

(* The least of some positions is one of them (Groups names a producer by   *)
(* its first layer).                                                        *)
LEMMA LeastIs ==
    ASSUME NEW S, S \subseteq Nat, S # {}
    PROVE  Least(S) \in S
<1>1. \E m \in S : \A k \in S : m <= k
    BY LeastNumber
<1> QED BY <1>1, Zenon DEF Least

(* In a finite set of positions there is one of every rank: merge_round     *)
(* lands the groups one after the other in the order of their first layers. *)
LEMMA EveryRank ==
    ASSUME NEW S, S \subseteq Nat, IsFiniteSet(S)
    PROVE  \A n \in 1..Cardinality(S) :
              \E f \in S : Cardinality({g \in S : g < f}) = n - 1
<1> DEFINE Below(f) == {g \in S : g < f}
           Far == {n \in Nat : n + 1 <= Cardinality(S) =>
                       \E f \in S : Cardinality(Below(f)) = n}
<1>0. Cardinality(S) \in Nat
    BY FS_CardinalityType
<1>1. 0 \in Far
  <2> SUFFICES ASSUME 1 <= Cardinality(S)
               PROVE  \E f \in S : Cardinality(Below(f)) = 0
      OBVIOUS
  <2>1. S # {}
        BY FS_EmptySet
  <2>2. PICK f \in S : \A k \in S : f <= k
        BY <2>1, LeastNumber
  <2>3. Below(f) = {}
    <3>1. \A g \in S : g \in Nat /\ f \in Nat /\ f <= g
          BY <2>2
    <3>2. \A g \in S : ~(g < f)
          BY <3>1
    <3> QED BY <3>2
  <2> HIDE DEF Below
  <2> QED BY <2>3, FS_EmptySet
<1>2. ASSUME NEW n \in Nat, n \in Far PROVE n + 1 \in Far
  <2> SUFFICES ASSUME (n + 1) + 1 <= Cardinality(S)
               PROVE  \E f \in S : Cardinality(Below(f)) = n + 1
      OBVIOUS
  <2>1. PICK f \in S : Cardinality(Below(f)) = n
        BY <1>0, <1>2
  <2> DEFINE Upto == Below(f) \cup {f}
  <2>2. IsFiniteSet(Below(f)) /\ f \notin Below(f) /\ Upto \subseteq S
        BY FS_Subset
  <2>3. Cardinality(Upto) = n + 1
        BY <2>1, <2>2, FS_AddElement
  <2>4. S \ Upto # {} /\ S \ Upto \subseteq Nat
    <3>1. S # Upto
      <4> HIDE DEF Upto
      <4> QED BY <1>0, <2>3
    <3> QED BY <2>2, <3>1
  <2>5. PICK h \in S \ Upto : \A k \in S \ Upto : h <= k
        BY <2>4, LeastNumber
  <2>6. Below(h) = Upto
    <3>1. f < h
          BY <2>5
    <3>2. \A g \in S : g < h <=> g < f \/ g = f
          BY <2>5, <3>1
    <3> QED BY <3>2
  <2> HIDE DEF Below, Upto
  <2> QED BY <2>3, <2>5, <2>6
<1>3. Nat \subseteq Far
  <2> HIDE DEF Far
  <2> QED BY <1>1, <1>2, EveryNumber
<1>4. ASSUME NEW n \in 1..Cardinality(S)
      PROVE  \E f \in S : Cardinality({g \in S : g < f}) = n - 1
  <2>1. n - 1 \in Nat /\ (n - 1) + 1 <= Cardinality(S)
        BY <1>0
  <2> QED BY <1>3, <2>1
<1> QED BY <1>4

(* The queue of a merge names producers, and only producers with a run to   *)
(* land (branch.rs merge_round).                                            *)
LEMMA GroupsName ==
    ASSUME NEW applied, NEW P, applied \subseteq Nat, IsFiniteSet(applied),
           \A i \in applied : ProducerOf(i) \in P
    PROVE  Groups(applied) \in Seq(P)
<1> DEFINE Mine(i) == {j \in applied : ProducerOf(j) = ProducerOf(i)}
           firsts == {Least(Mine(i)) : i \in applied}
           rank == [n \in 1..Cardinality(firsts) |->
                       CHOOSE f \in firsts : Cardinality({g \in firsts : g < f}) = n - 1]
<1>1. \A i \in applied : Least(Mine(i)) \in applied
  <2> SUFFICES ASSUME NEW i \in applied PROVE Least(Mine(i)) \in Mine(i)
      OBVIOUS
  <2>1. Mine(i) \subseteq Nat /\ Mine(i) # {}
        OBVIOUS
  <2> HIDE DEF Mine
  <2> QED BY <2>1, LeastIs
<1>2. firsts \subseteq applied /\ firsts \subseteq Nat /\ IsFiniteSet(firsts)
  <2> HIDE DEF Mine
  <2>1. firsts \subseteq applied
        BY <1>1
  <2> HIDE DEF firsts
  <2> QED BY <2>1, FS_Subset
<1> HIDE DEF Mine, firsts
<1>3. Cardinality(firsts) \in Nat
    BY <1>2, FS_CardinalityType
<1>4. ASSUME NEW n \in 1..Cardinality(firsts) PROVE rank[n] \in firsts
  <2>1. \E f \in firsts : Cardinality({g \in firsts : g < f}) = n - 1
        BY <1>2, EveryRank
  <2> QED BY <2>1
<1>5. Groups(applied) = [n \in 1..Cardinality(firsts) |-> ProducerOf(rank[n])]
    BY Zenon DEF Groups, firsts, Mine
<1> HIDE DEF rank
<1>6. \A n \in 1..Cardinality(firsts) : ProducerOf(rank[n]) \in P
    BY <1>2, <1>4
<1> QED BY <1>3, <1>5, <1>6

---------------------------------------------------------------------------
(* The cascade                                                             *)

\* One pass of the cascade: the committed runs that consumed a dropped one join.
Joined(dropped) ==
    dropped \cup {i \in Committed(round.log) : \E j \in dropped : Consumes(i, j)}

\* The n-th pass, given the ones before it.
PassOf(f, failed, n) == IF n = 0 THEN failed ELSE Joined(f[n - 1])

(* The cascade makes a pass for every layer of the round (Round::cascade).  *)
LEMMA CascadeRuns ==
    ASSUME NEW N \in Nat, NEW failed
    PROVE  \E f : f = [n \in 0..N |-> PassOf(f, failed, n)]
<1> DEFINE Far == {m \in Nat : \E f : f = [n \in 0..m |-> PassOf(f, failed, n)]}
<1>1. 0 \in Far
  <2> DEFINE f == [n \in 0..0 |-> failed]
  <2>1. \A n \in 0..0 : f[n] = PassOf(f, failed, n)
        BY DEF PassOf
  <2>2. f = [n \in 0..0 |-> PassOf(f, failed, n)]
        BY <2>1
  <2> QED BY <2>2
<1>2. ASSUME NEW m \in Nat, m \in Far PROVE m + 1 \in Far
  <2>2. PICK f : f = [n \in 0..m |-> PassOf(f, failed, n)]
        BY <1>2
  <2> DEFINE g == [n \in 0..(m + 1) |-> PassOf(f, failed, n)]
  <2>3. \A n \in 0..m : f[n] = g[n]
    <3> DEFINE h == [n \in 0..m |-> PassOf(f, failed, n)]
    <3>1. \A n \in 0..m : h[n] = PassOf(f, failed, n) /\ g[n] = PassOf(f, failed, n)
          OBVIOUS
    <3>2. f = h
          BY <2>2
    <3> HIDE DEF h, g
    <3> QED BY <3>1, <3>2, Zenon
  <2>4. \A n \in 0..(m + 1) : PassOf(f, failed, n) = PassOf(g, failed, n)
    <3>1. \A n \in 0..(m + 1) : n # 0 => n - 1 \in 0..m
          OBVIOUS
    <3>2. \A n \in 0..(m + 1) : n # 0 => f[n - 1] = g[n - 1]
          BY <2>3, <3>1
    <3> HIDE DEF g
    <3> QED BY <3>2, Zenon DEF PassOf
  <2>5. g = [n \in 0..(m + 1) |-> PassOf(g, failed, n)]
        BY <2>4
  <2> HIDE DEF g
  <2>6. \E h : h = [n \in 0..(m + 1) |-> PassOf(h, failed, n)]
        BY <2>5
  <2> QED BY <2>6
<1> HIDE DEF Far
<1>3. N \in Far
    BY <1>1, <1>2, EveryNumber
<1> QED BY <1>3 DEF Far

(* The cascade drops what failed and what consumed anything it drops, and   *)
(* nothing that did not commit: a pass that adds nothing is the last, and   *)
(* there is a pass for every layer (Round::cascade's loop to its fixpoint). *)
LEMMA CascadeCloses ==
    ASSUME NEW T, round.log \in Seq(T), NEW failed, failed \subseteq Committed(round.log)
    PROVE  /\ failed \subseteq Cascade(failed)
           /\ Cascade(failed) \subseteq Committed(round.log)
           /\ \A i \in Committed(round.log) : \A j \in Cascade(failed) :
                 Consumes(i, j) => i \in Cascade(failed)
<1>1. CASE failed = {}
  <2>1. Cascade(failed) = {}
        BY <1>1 DEF Cascade
  <2> QED BY <1>1, <2>1
<1>2. CASE failed # {}
  <2> DEFINE N == Len(round.log)
             C == Committed(round.log)
             f == CHOOSE f : f = [n \in 0..N |-> PassOf(f, failed, n)]
             Closed(D) == \A i \in C : \A j \in D : Consumes(i, j) => i \in D
             Good(n) == /\ failed \subseteq f[n] /\ f[n] \subseteq C
                        /\ Closed(f[n]) \/ Cardinality(f[n]) >= n + 1
             Far == {n \in Nat : n <= N => Good(n)}
  <2>1. Cascade(failed) = f[N]
        BY <1>2, Zenon DEF Cascade, PassOf, Joined
  <2>2. N \in Nat /\ C \subseteq 1..N
        BY DEF Committed
  <2>3. \A n \in 0..N : f[n] = PassOf(f, failed, n)
    <3>1. f = [n \in 0..N |-> PassOf(f, failed, n)]
          BY SMTT(60), <2>2, CascadeRuns
    <3> HIDE DEF f
    <3> DEFINE h == [n \in 0..N |-> PassOf(f, failed, n)]
    <3>2. \A n \in 0..N : h[n] = PassOf(f, failed, n)
          OBVIOUS
    <3>3. f = h
          BY <3>1
    <3> HIDE DEF h
    <3> QED BY <3>2, <3>3, Zenon
  <2> HIDE DEF f
  <2>4. IsFiniteSet(C) /\ Cardinality(C) \in Nat /\ Cardinality(C) <= N
    <3>1. IsFiniteSet(1..N) /\ Cardinality(1..N) = N
          BY <2>2, FS_Interval
    <3> HIDE DEF C, N
    <3> QED BY <2>2, <3>1, FS_Subset, FS_CardinalityType
  <2>5. ASSUME NEW D, D \subseteq C
        PROVE  IsFiniteSet(D) /\ Cardinality(D) \in Nat /\ Cardinality(D) <= N
    <3> HIDE DEF C, N
    <3>1. IsFiniteSet(D) /\ Cardinality(D) <= Cardinality(C)
          BY <2>4, <2>5, FS_Subset
    <3>2. Cardinality(D) \in Nat
          BY <3>1, FS_CardinalityType
    <3> QED BY <2>2, <2>4, <3>1, <3>2
  <2>6. 0 \in Far
    <3>1. f[0] = failed
          BY <2>2, <2>3 DEF PassOf
    <3>2. IsFiniteSet(failed) /\ Cardinality(failed) \in Nat /\ Cardinality(failed) # 0
          BY <1>2, <2>5, FS_EmptySet
    <3> QED BY <3>1, <3>2
  <2>7. ASSUME NEW n \in Nat, n \in Far PROVE n + 1 \in Far
    <3> SUFFICES ASSUME n + 1 <= N PROVE Good(n + 1)
        OBVIOUS
    <3>1. Good(n)
          BY <2>2, <2>7
    <3>2. f[n + 1] = Joined(f[n])
      <4>1. n + 1 \in 0..N /\ n + 1 # 0 /\ (n + 1) - 1 = n
            BY <2>2
      <4> HIDE DEF N
      <4> QED BY <2>3, <4>1 DEF PassOf
    <3>3. f[n] \subseteq f[n + 1] /\ f[n + 1] \subseteq C
          BY <3>1, <3>2 DEF Joined
    <3>4. CASE Closed(f[n])
      <4>1. f[n + 1] = f[n]
            BY <3>2, <3>4 DEF Joined
      <4> QED BY <3>1, <3>4, <4>1
    <3>5. CASE ~Closed(f[n])
      <4>1. Cardinality(f[n]) >= n + 1
            BY <3>1, <3>5
      <4>2. PICK i \in C : \E j \in f[n] : Consumes(i, j) /\ i \notin f[n]
            BY <3>5
      <4>3. i \in f[n + 1] /\ i \notin f[n]
            BY <3>2, <4>2 DEF Joined
      <4>4. IsFiniteSet(f[n + 1]) /\ Cardinality(f[n + 1]) \in Nat /\ Cardinality(f[n]) \in Nat
        <5> HIDE DEF C
        <5> QED BY <2>5, <3>1, <3>3
      <4>5. Cardinality(f[n]) < Cardinality(f[n + 1])
        <5>1. f[n] # f[n + 1]
              BY <4>3
        <5>2. Cardinality(f[n]) <= Cardinality(f[n + 1])
              BY <3>3, <4>4, FS_Subset
        <5>3. Cardinality(f[n]) # Cardinality(f[n + 1])
              BY <3>3, <4>4, <5>1, FS_Subset
        <5> QED BY <4>4, <5>2, <5>3
      <4>6. Cardinality(f[n + 1]) >= (n + 1) + 1
            BY <4>1, <4>4, <4>5
      <4> QED BY <3>1, <3>3, <4>6
    <3> QED BY <3>4, <3>5
  <2>8. Nat \subseteq Far
    <3> HIDE DEF Far
    <3> QED BY <2>6, <2>7, EveryNumber
  <2>9. Good(N)
        BY <2>2, <2>8
  <2>10. Closed(f[N])
    <3>1. Cardinality(f[N]) \in Nat /\ Cardinality(f[N]) <= N
      <4> HIDE DEF C, N
      <4> QED BY <2>5, <2>9
    <3> HIDE DEF N, Closed
    <3> QED BY <2>2, <2>9, <3>1
  <2> QED BY <2>1, <2>9, <2>10
<1> QED BY <1>1, <1>2

---------------------------------------------------------------------------
(* The inductive invariant, one part for each thing the engine keeps right *)

\* User code that stays inside the instance's buffers: it reads fields that there are
\* and writes fields that are declared.  (The engine records any read and refuses any
\* write of an undeclared field.)  Only the types of cells depend on it.
CodeStaysInside ==
    /\ \A p \in Producers : \A seen : NextRead(p, seen) \in Buffer \cup {None}
    /\ \A p \in Producers : \A v, seen : DOMAIN Output(p, v, seen) \subseteq Buffer

\* A cell is of an object there is, and of a buffer there is if user code is typed.
Named(c) ==
    /\ c = <<c[1], c[2]>>
    /\ c[2] \in Entity
    /\ CodeStaysInside => c[1] \in Buffer

IsASequence(s) == \E S : s \in Seq(S)

\* A layer of the trunk: a client's, or one that a producer's runs were regrouped
\* into, which reflects a client's below it.
LayerSound(i) ==
    /\ trunk[i].by \in Producer \cup {Client}
    /\ \A c \in DOMAIN trunk[i].writes : Named(c)
    /\ ~IsSource(i) =>
          /\ trunk[i].reflects \in 1..(i - 1) /\ IsSource(trunk[i].reflects)
          /\ \A inv \in DOMAIN trunk[i].reads : \A c \in trunk[i].reads[inv] : Named(c)

\* The trunk begins with the registration of the producers.
TrunkSound ==
    /\ left \in Budget
    /\ IsASequence(trunk) /\ 1 \in DOMAIN trunk /\ IsSource(1)
    /\ \A i \in DOMAIN trunk : LayerSound(i)

\* The tables of the engine are about the producers there are and layers there are.
TablesSound ==
    /\ watermark \in [Producer -> 0..Len(trunk)]
    /\ edges = [inv \in Invocation |-> edges[inv]]
    /\ \A inv \in Invocation : \A c \in edges[inv] : Named(c)
    /\ version \in [Producer -> DOMAIN trunk]
    /\ broken \subseteq Producer \X DOMAIN trunk

\* Between rounds there is none; a round reflects a client's layer, and what it has
\* still to run is of the producers there are.
RoundSound ==
    /\ round = [phase |-> round.phase, forkAt |-> round.forkAt,
                reflects |-> round.reflects, wave |-> round.wave,
                todo |-> round.todo, log |-> round.log, seeded |-> round.seeded,
                reruns |-> round.reruns, applied |-> round.applied,
                queue |-> round.queue]
    /\ round.phase \in {"idle", "run", "land"}
    /\ round.phase = "idle" => round = NoRound
    /\ round.phase # "idle" => round.reflects \in DOMAIN trunk /\ IsSource(round.reflects)
    /\ \A l \in round.wave : \A c \in l.cells : Named(c)
    /\ round.todo \subseteq Invocation

\* A run of the round: of a producer there is, and what it was served from the round
\* branch is the output of a run that committed before, which it counts as read.
EntrySound(log, e) ==
    /\ e = [inv |-> e.inv, state |-> e.state, bound |-> e.bound, seen |-> e.seen,
            from |-> e.from, writes |-> e.writes]
    /\ e.inv \in Invocation
    /\ \A c \in DOMAIN e.seen : Named(c)
    /\ \A c \in DOMAIN e.writes : Named(c)
    /\ \A j \in e.from : /\ j \in Committed(log)
                         /\ DOMAIN e.seen \cap DOMAIN log[j].writes # {}

RunsSound ==
    /\ IsASequence(round.log)
    /\ \A i \in DOMAIN round.log : EntrySound(round.log, round.log[i])

\* What a round decided to land committed and is closed under what it was served from;
\* the decision falls when no task is left that could still run.
LandingSound ==
    /\ round.phase # "land" => round.applied = {}
    /\ round.phase = "land" =>
          /\ round.todo = {} /\ Running = {}
          /\ round.applied \subseteq Committed(round.log)
          /\ \A i \in round.applied : round.log[i].from \subseteq round.applied
          /\ round.queue \in Seq(Producer)

RoundsLandRight ==
    TrunkSound /\ TablesSound /\ RoundSound /\ RunsSound /\ LandingSound

\* The catch-up of the last command is still to come, was lost, or was made.
CallSound == call \in {"none", "due", "lost"}

---------------------------------------------------------------------------
(* What a step leaves alone                                                *)

\* The producers stay, and so does every layer of the trunk.
Onward ==
    /\ left' \in Budget /\ left'.producers = left.producers
    /\ DOMAIN trunk \subseteq DOMAIN trunk' /\ Len(trunk) <= Len(trunk')
    /\ \A i \in DOMAIN trunk : trunk'[i] = trunk[i]

\* A client's layer, or one that speaks for a client's layer of the trunk.
LayerFits(layer) ==
    /\ layer.by \in Producer \cup {Client}
    /\ \A c \in DOMAIN layer.writes : Named(c)
    /\ layer.by # Client =>
          /\ layer.reflects \in DOMAIN trunk /\ IsSource(layer.reflects)
          /\ \A inv \in DOMAIN layer.reads : \A c \in layer.reads[inv] : Named(c)

(* A scenario that spends something keeps its producers.                    *)
LEMMA SpendingKeeps ==
    ASSUME left \in Budget
    PROVE  /\ left.source > 0 => [left EXCEPT !.source = @ - 1] \in Budget
           /\ left.push > 0 => [left EXCEPT !.push = @ - 1] \in Budget
           /\ left.fail > 0 => [left EXCEPT !.fail = @ - 1] \in Budget
           /\ left.crash > 0 => [left EXCEPT !.crash = @ - 1] \in Budget
           /\ left.retry > 0 => [left EXCEPT !.retry = @ - 1] \in Budget
           /\ left.rebuild > 0 => [left EXCEPT !.rebuild = @ - 1] \in Budget
           /\ [left EXCEPT !.source = @ - 1].producers = left.producers
           /\ [left EXCEPT !.push = @ - 1].producers = left.producers
           /\ [left EXCEPT !.fail = @ - 1].producers = left.producers
           /\ [left EXCEPT !.crash = @ - 1].producers = left.producers
           /\ [left EXCEPT !.retry = @ - 1].producers = left.producers
           /\ [left EXCEPT !.rebuild = @ - 1].producers = left.producers
BY DEF Budget

(* A step that leaves the trunk alone leaves it sound.                      *)
LEMMA TrunkStays ==
    ASSUME TrunkSound, trunk' = trunk, left' \in Budget, left'.producers = left.producers
    PROVE  TrunkSound' /\ Onward
<1>1. Onward
  <2>1. Len(trunk) \in Nat
        BY DEF TrunkSound, IsASequence
  <2> QED BY <2>1 DEF Onward
<1>2. Producer' = Producer
    BY DEF Producer
<1>3. \A i \in DOMAIN trunk : LayerSound(i)'
    BY <1>2 DEF TrunkSound, LayerSound, IsSource, Named
<1>4. IsASequence(trunk)' /\ (1 \in DOMAIN trunk)' /\ IsSource(1)'
    BY DEF TrunkSound, IsASequence, IsSource
<1> QED BY <1>1, <1>3, <1>4 DEF TrunkSound

(* A layer that lands on top and fits leaves the trunk sound.               *)
LEMMA TrunkGrows ==
    ASSUME TrunkSound, NEW layer, LayerFits(layer), trunk' = Append(trunk, layer),
           left' \in Budget, left'.producers = left.producers
    PROVE  TrunkSound' /\ Onward
<1>1. PICK S : trunk \in Seq(S)
    BY DEF TrunkSound, IsASequence
<1>2. trunk \in Seq(S \cup {layer})
    BY <1>1
<1>3. /\ trunk' \in Seq(S \cup {layer})
      /\ DOMAIN trunk' = 1..(Len(trunk) + 1) /\ DOMAIN trunk = 1..Len(trunk)
      /\ Len(trunk) \in Nat /\ Len(trunk') = Len(trunk) + 1
      /\ \A i \in DOMAIN trunk : trunk'[i] = trunk[i]
      /\ trunk'[Len(trunk) + 1] = layer
    BY <1>2
<1>4. Onward
    BY <1>3 DEF Onward
<1>5. Producer' = Producer
    BY DEF Producer
<1>6. IsASequence(trunk)' /\ (1 \in DOMAIN trunk)' /\ IsSource(1)'
    BY <1>3 DEF TrunkSound, IsASequence, IsSource
<1>7. ASSUME NEW i \in DOMAIN trunk' PROVE LayerSound(i)'
  <2>1. CASE i \in DOMAIN trunk
    <3>1. LayerSound(i) /\ trunk'[i] = trunk[i] /\ i \in Nat
          BY <1>3, <2>1 DEF TrunkSound
    <3>2. ~IsSource(i) => trunk[i].reflects \in DOMAIN trunk
          BY <1>3, <2>1, <3>1 DEF LayerSound
    <3>3. ~IsSource(i) => trunk'[trunk[i].reflects] = trunk[trunk[i].reflects]
          BY <1>3, <3>2
    <3> QED BY <1>5, <3>1, <3>3 DEF LayerSound, IsSource, Named
  <2>2. CASE i = Len(trunk) + 1
    <3>1. trunk'[i] = layer
          BY <1>3, <2>2
    <3>2. layer.by # Client => layer.reflects \in 1..(i - 1)
                               /\ trunk'[layer.reflects] = trunk[layer.reflects]
          BY <1>3, <2>2 DEF LayerFits
    <3> QED BY <1>5, <3>1, <3>2 DEF LayerFits, LayerSound, IsSource, Named
  <2> QED BY <1>3, <2>1, <2>2
<1> QED BY <1>4, <1>6, <1>7 DEF TrunkSound

(* Tables that are about the producers there are and layers there were stay *)
(* sound while the trunk grows.                                             *)
LEMMA TablesStay ==
    ASSUME TablesSound, TrunkSound, Onward, edges' = edges,
           version' \in [Producer -> DOMAIN trunk'],
           watermark' \in [Producer -> 0..Len(trunk')],
           broken' \subseteq Producer \X DOMAIN trunk'
    PROVE  TablesSound'
<1>1. Producer' = Producer /\ Invocation' = Invocation
    BY DEF Onward, Producer, Invocation
<1>2. edges' = [inv \in Invocation' |-> edges'[inv]]
    BY <1>1 DEF TablesSound
<1>3. \A inv \in Invocation' : \A c \in edges'[inv] : Named(c)'
    BY <1>1 DEF TablesSound, Named
<1> QED BY <1>1, <1>2, <1>3 DEF TablesSound

(* What tables hold of layers there were holds while the trunk grows.       *)
LEMMA TablesFit ==
    ASSUME TablesSound, TrunkSound, TrunkSound', Onward
    PROVE  /\ version \in [Producer -> DOMAIN trunk']
           /\ watermark \in [Producer -> 0..Len(trunk')]
           /\ broken \subseteq Producer \X DOMAIN trunk'
<1>1. Len(trunk) \in Nat /\ Len(trunk') \in Nat
    BY DEF TrunkSound, IsASequence
<1> QED BY <1>1 DEF TablesSound, Onward

(* Between rounds everything about the round is in order.                   *)
LEMMA NoRoundIsSound ==
    ASSUME round' = NoRound'
    PROVE  RoundSound' /\ RunsSound' /\ LandingSound'
<1>1. RoundSound'
    BY DEF RoundSound, NoRound
<1>2. <<>> \in Seq({})
    OBVIOUS
<1>3. RunsSound'
    BY <1>2 DEF RunsSound, NoRound, IsASequence
<1>4. LandingSound'
    BY DEF LandingSound, NoRound
<1> QED BY <1>1, <1>3, <1>4

(* A round nothing happens to stays sound while the trunk grows.            *)
LEMMA RoundStays ==
    ASSUME RoundSound, RunsSound, LandingSound, Onward, round' = round
    PROVE  RoundSound' /\ RunsSound' /\ LandingSound'
<1>1. Producer' = Producer /\ Invocation' = Invocation /\ NoRound' = NoRound
    BY DEF Onward, Producer, Invocation, NoRound
<1>2. RoundSound'
    BY <1>1 DEF RoundSound, Onward, IsSource, Named
<1>3. RunsSound'
    BY <1>1 DEF RunsSound, EntrySound, IsASequence, Named
<1>4. LandingSound'
    BY <1>1 DEF LandingSound, Running
<1> QED BY <1>2, <1>3, <1>4

(* There is a source layer to reflect: the push of the producers is one.    *)
LEMMA HighestSourceIs ==
    ASSUME TrunkSound
    PROVE  HighestSource \in DOMAIN trunk /\ IsSource(HighestSource)
<1> DEFINE S == {i \in DOMAIN trunk : IsSource(i)}
<1>1. Len(trunk) \in Nat /\ DOMAIN trunk = 1..Len(trunk)
    BY DEF TrunkSound, IsASequence
<1>2. {0} \cup S \subseteq 0..Len(trunk) /\ 1 \in S
    BY <1>1 DEF TrunkSound
<1>3. HighestSource = Highest({0} \cup S)
    BY DEF HighestSource
<1> HIDE DEF S
<1>4. /\ Highest({0} \cup S) \in {0} \cup S
      /\ \A m \in {0} \cup S : m <= Highest({0} \cup S)
    BY <1>1, <1>2, HighestIs
<1>5. Highest({0} \cup S) # 0
    BY SMTT(60), <1>2, <1>4
<1>6. HighestSource \in S
    BY <1>3, <1>4, <1>5
<1> QED BY <1>6 DEF S

(* A round that begins has nothing to run yet and reflects a client's layer *)
(* (settle_span, recompute).                                                *)
LEMMA RoundBegins ==
    ASSUME TrunkSound, Onward, NEW forkAt, NEW layers, Begin(forkAt, HighestSource, layers),
           \A l \in layers : \A c \in l.cells : Named(c)
    PROVE  RoundSound' /\ RunsSound' /\ LandingSound'
<1>1. Producer' = Producer /\ Invocation' = Invocation /\ NoRound' = NoRound
    BY DEF Onward, Producer, Invocation, NoRound
<1>2. PICK top : top = HighestSource
    OBVIOUS
<1>3. top \in DOMAIN trunk /\ IsSource(top)
    BY <1>2, HighestSourceIs
<1>4. round' = [phase |-> "run", forkAt |-> forkAt, reflects |-> top, wave |-> layers,
                todo |-> {}, log |-> <<>>, seeded |-> {},
                reruns |-> [i \in Invocation |-> 0], applied |-> {}, queue |-> <<>>]
    BY <1>2 DEF Begin, NoRound
<1>5. RoundSound'
  <2>1. top \in DOMAIN trunk' /\ IsSource(top)'
        BY <1>3 DEF Onward, IsSource
  <2>2. \A l \in layers : \A c \in l.cells : Named(c)'
        BY DEF Named
  <2> QED BY <1>4, <2>1, <2>2 DEF RoundSound
<1>6. RunsSound'
  <2>1. <<>> \in Seq({})
        OBVIOUS
  <2> QED BY <1>4, <2>1 DEF RunsSound, IsASequence
<1>7. LandingSound'
    BY <1>4 DEF LandingSound
<1> QED BY <1>5, <1>6, <1>7

(* The wave of a round that begins names cells (OfTrunk of any layers).     *)
LEMMA LayersName ==
    ASSUME TrunkSound, NEW i \in DOMAIN trunk
    PROVE  \A c \in OfTrunk(i).cells : Named(c)
BY DEF TrunkSound, LayerSound, OfTrunk, Changeset

---------------------------------------------------------------------------
(* The steps between rounds                                                *)

(* Where the producer furthest behind stands is a layer, or nothing         *)
(* (FrontierTracker::watermark's minimum).                                  *)
LEMMA LowestMarkIs ==
    ASSUME NEW marks \in [Producer -> Nat]
    PROVE  LowestMark(marks) \in Nat
<1>1. CASE Producer = {}
    BY <1>1 DEF LowestMark
<1>2. CASE Producer # {}
  <2> DEFINE S == {marks[p] : p \in Producer}
  <2>1. S \subseteq Nat /\ S # {}
        BY <1>2
  <2>2. PICK n \in S : \A m \in S : n <= m
        BY <2>1, LeastNumber
  <2>3. \E n2 \in S : \A p \in Producer : n2 <= marks[p]
        BY <2>2
  <2>4. LowestMark(marks) = CHOOSE n2 \in S : \A p \in Producer : n2 <= marks[p]
        BY <1>2 DEF LowestMark
  <2> HIDE DEF S
  <2>5. LowestMark(marks) \in S
        BY <2>3, <2>4
  <2> QED BY <2>1, <2>5
<1> QED BY <1>1, <1>2

(* Clearing a poisoning and rewinding its producer leaves tables that are   *)
(* about what there is (recover, retry_broken).                             *)
LEMMA RecoveringFits ==
    ASSUME TablesSound, TrunkSound
    PROVE  /\ \A S : Rewound(S) \in [Producer -> 0..Len(trunk)]
           /\ Recovered \in [Producer -> 0..Len(trunk)]
           /\ Recovered \in [Producer -> Nat]
<1>1. Len(trunk) \in Nat
    BY DEF TrunkSound, IsASequence
<1>2. \A S : Rewound(S) \in [Producer -> 0..Len(trunk)]
    BY <1>1 DEF Rewound, TablesSound
<1>3. Recovered \in [Producer -> 0..Len(trunk)]
    BY <1>2 DEF Recovered
<1> QED BY <1>1, <1>2, <1>3

---------------------------------------------------------------------------
(* The steps between rounds                                                *)

(* DerivationEngine::catch_up starts a round at the top of the trunk.       *)
LEMMA CatchUpKeeps ==
    ASSUME RoundsLandRight, CatchUp
    PROVE  RoundsLandRight'
<1> USE DEF RoundsLandRight
<1>1. TrunkSound' /\ Onward
    BY TrunkStays DEF CatchUp, TrunkSound
<1>2. PICK from : from = LowestMark(Recovered)
    OBVIOUS
<1>3. PICK layers : layers = {OfTrunk(i) : i \in (from + 1)..Len(trunk)}
    OBVIOUS
<1>4. \A l \in layers : \A c \in l.cells : Named(c)
  <2>1. from \in Nat /\ DOMAIN trunk = 1..Len(trunk) /\ Len(trunk) \in Nat
        BY <1>2, RecoveringFits, LowestMarkIs DEF TrunkSound, IsASequence
  <2>2. \A i \in (from + 1)..Len(trunk) : i \in DOMAIN trunk
        BY <2>1
  <2> QED BY <1>3, <2>2, LayersName
<1>5. RoundSound' /\ RunsSound' /\ LandingSound'
  <2>1. CASE Begin(Len(trunk), HighestSource, layers)
        BY <1>1, <1>4, <2>1, RoundBegins
  <2>2. CASE round' = round
        BY <1>1, <2>2, RoundStays
  <2> QED BY <1>2, <1>3, <2>1, <2>2 DEF CatchUp
<1>6. TablesSound'
  <2>1. /\ version \in [Producer -> DOMAIN trunk']
        /\ broken \subseteq Producer \X DOMAIN trunk'
        BY <1>1, TablesFit
  <2>2. Recovered \in [Producer -> 0..Len(trunk')]
        BY RecoveringFits DEF CatchUp
  <2>3. /\ version' = version /\ edges' = edges /\ watermark' = Recovered
        /\ broken' \subseteq broken
        BY DEF CatchUp
  <2> QED BY <1>1, <2>1, <2>2, <2>3, TablesStay
<1> QED BY <1>1, <1>5, <1>6

(* auto_derive failing on its way to catch_up changes nothing of the branch. *)
LEMMA CallFailsKeeps ==
    ASSUME RoundsLandRight, CallFails
    PROVE  RoundsLandRight'
<1> USE DEF RoundsLandRight
<1>0. left' \in Budget /\ left'.producers = left.producers
    BY SpendingKeeps DEF CallFails, TrunkSound
<1>1. TrunkSound' /\ Onward
    BY <1>0, TrunkStays DEF CallFails
<1>2. RoundSound' /\ RunsSound' /\ LandingSound'
    BY <1>1, RoundStays DEF CallFails
<1>3. TablesSound'
    BY <1>1, TablesFit, TablesStay DEF CallFails
<1> QED BY <1>1, <1>2, <1>3

(* DerivationEngine::retry_broken rewinds what it clears.                   *)
LEMMA RetryBrokenKeeps ==
    ASSUME RoundsLandRight, RetryBroken
    PROVE  RoundsLandRight'
<1> USE DEF RoundsLandRight
<1>0. left' \in Budget /\ left'.producers = left.producers
    BY SpendingKeeps DEF RetryBroken, TrunkSound
<1>1. TrunkSound' /\ Onward
    BY <1>0, TrunkStays DEF RetryBroken
<1>2. RoundSound' /\ RunsSound' /\ LandingSound'
    BY <1>1, RoundStays DEF RetryBroken
<1>3. TablesSound'
  <2>1. /\ version \in [Producer -> DOMAIN trunk']
        /\ broken \subseteq Producer \X DOMAIN trunk'
        BY <1>1, TablesFit
  <2>2. \A S : Rewound(S) \in [Producer -> 0..Len(trunk')]
        BY RecoveringFits DEF RetryBroken
  <2>3. version' = version /\ edges' = edges /\ broken' \subseteq broken
        BY DEF RetryBroken
  <2>4. watermark' = Rewound({b[1] : b \in broken \ Expired})
        BY DEF RetryBroken
  <2> QED BY <1>1, <2>1, <2>2, <2>3, <2>4, TablesStay
<1> QED BY <1>1, <1>2, <1>3

(* DerivationEngine::recompute starts a round at the top source layer.      *)
LEMMA RecomputeKeeps ==
    ASSUME RoundsLandRight, Recompute
    PROVE  RoundsLandRight'
<1> USE DEF RoundsLandRight
<1>0. left' \in Budget /\ left'.producers = left.producers
    BY SpendingKeeps DEF Recompute, TrunkSound
<1>1. TrunkSound' /\ Onward
    BY <1>0, TrunkStays DEF Recompute
<1>2. RoundSound' /\ RunsSound' /\ LandingSound'
  <2>1. \A l \in {OfTrunk(HighestSource)} : \A c \in l.cells : Named(c)
        BY HighestSourceIs, LayersName
  <2>2. Begin(HighestSource, HighestSource, {OfTrunk(HighestSource)})
        BY DEF Recompute
  <2> QED BY <1>1, <2>1, <2>2, RoundBegins
<1>3. TablesSound'
  <2>1. /\ version \in [Producer -> DOMAIN trunk']
        /\ broken \subseteq Producer \X DOMAIN trunk'
        BY <1>1, TablesFit
  <2>2. /\ version' = version /\ edges' = edges /\ broken' \subseteq broken
        /\ watermark' = [p \in Producer |-> 0]
        BY DEF Recompute
  <2>3. watermark' \in [Producer -> 0..Len(trunk')]
        BY <1>1, <2>2 DEF TrunkSound, IsASequence
  <2> QED BY <1>1, <2>1, <2>2, <2>3, TablesStay
<1> QED BY <1>1, <1>2, <1>3

(* A client's layer lands on top of the trunk, in a round or between two.   *)
LEMMA ClientWriteKeeps ==
    ASSUME RoundsLandRight, NEW b \in InputBuffer, NEW e \in Entity, NEW v,
           ClientWrite(<<b, e>>, v)
    PROVE  RoundsLandRight'
<1> USE DEF RoundsLandRight
<1>0. left' \in Budget /\ left'.producers = left.producers
    BY SpendingKeeps DEF ClientWrite, TrunkSound
<1>1. PICK layer : layer = SourceLayer([d \in {<<b, e>>} |-> v]) /\ trunk' = Append(trunk, layer)
    BY DEF ClientWrite
<1>2. LayerFits(layer)
  <2>1. b \in Buffer
        BY DEF TrunkSound, Budget, InputBuffer
  <2>2. Named(<<b, e>>)
        BY <2>1 DEF Named
  <2> QED BY <1>1, <2>2 DEF LayerFits, SourceLayer
<1>3. TrunkSound' /\ Onward
    BY <1>0, <1>1, <1>2, TrunkGrows
<1>4. RoundSound' /\ RunsSound' /\ LandingSound'
    BY <1>3, RoundStays DEF ClientWrite
<1>5. TablesSound'
    BY <1>3, TablesFit, TablesStay DEF ClientWrite
<1> QED BY <1>3, <1>4, <1>5

(* A push is a layer of its own and the producer's version.                 *)
LEMMA PushKeeps ==
    ASSUME RoundsLandRight, NEW p \in Producer, Push(p)
    PROVE  RoundsLandRight'
<1> USE DEF RoundsLandRight
<1>0. left' \in Budget /\ left'.producers = left.producers
    BY SpendingKeeps DEF Push, TrunkSound
<1>1. PICK layer : layer = SourceLayer(<<>>) /\ trunk' = Append(trunk, layer)
    BY DEF Push
<1>2. LayerFits(layer)
    BY <1>1 DEF LayerFits, SourceLayer
<1>3. TrunkSound' /\ Onward
    BY <1>0, <1>1, <1>2, TrunkGrows
<1>4. RoundSound' /\ RunsSound' /\ LandingSound'
    BY <1>3, RoundStays DEF Push
<1>5. TablesSound'
  <2>1. Len(trunk) + 1 \in DOMAIN trunk'
        BY <1>1 DEF TrunkSound, IsASequence
  <2>2. version' \in [Producer -> DOMAIN trunk']
        BY <1>3, <2>1, TablesFit DEF Push
  <2> QED BY <1>3, <2>2, TablesFit, TablesStay DEF Push
<1> QED BY <1>3, <1>4, <1>5

(* settle_span returning early drops the round.                             *)
LEMMA AbandonKeeps ==
    ASSUME RoundsLandRight, Abandon
    PROVE  RoundsLandRight'
<1> USE DEF RoundsLandRight
<1>0. left' \in Budget /\ left'.producers = left.producers
    BY SpendingKeeps DEF Abandon, TrunkSound
<1>1. TrunkSound' /\ Onward
    BY <1>0, TrunkStays DEF Abandon
<1>2. NoRound' = NoRound
    BY <1>0 DEF NoRound, Invocation, Producer
<1>3. RoundSound' /\ RunsSound' /\ LandingSound'
    BY <1>2, NoRoundIsSound DEF Abandon
<1>4. TablesSound'
    BY <1>1, TablesFit, TablesStay DEF Abandon
<1> QED BY <1>1, <1>3, <1>4

(* The fold of the landed layers over the dependency index and the          *)
(* watermarks names what there is (projection.rs).                          *)
LEMMA RebuiltFits ==
    ASSUME TrunkSound
    PROVE  /\ \A inv \in Invocation : \A c \in Rebuilt(inv) : Named(c)
           /\ \A p \in Producer : RebuiltMark(p) \in 0..Len(trunk)
<1>1. Len(trunk) \in Nat /\ DOMAIN trunk = 1..Len(trunk)
    BY DEF TrunkSound, IsASequence
<1>2. ASSUME NEW inv \in Invocation PROVE \A c \in Rebuilt(inv) : Named(c)
  <2> DEFINE named == {i \in DOMAIN trunk : ~IsSource(i) /\ inv \in DOMAIN trunk[i].reads}
  <2>1. CASE named = {}
        BY <2>1 DEF Rebuilt
  <2>2. CASE named # {}
    <3>1. Rebuilt(inv) = trunk[Highest(named)].reads[inv]
          BY <2>2 DEF Rebuilt
    <3>2. Highest(named) \in named
      <4>1. named \subseteq 0..Len(trunk)
            BY <1>1
      <4> HIDE DEF named
      <4> QED BY <1>1, <2>2, <4>1, HighestIs
    <3> QED BY <3>1, <3>2 DEF TrunkSound, LayerSound
  <2> QED BY <2>1, <2>2
<1>3. ASSUME NEW p \in Producer PROVE RebuiltMark(p) \in 0..Len(trunk)
  <2> DEFINE marks == {trunk[i].reflects : i \in {j \in DOMAIN trunk : trunk[j].by = p}}
  <2>1. p # Client
        BY DeriveAssumption DEF TrunkSound, Producer, Budget
  <2>2. marks \subseteq 0..Len(trunk)
    <3>1. ASSUME NEW i \in DOMAIN trunk, trunk[i].by = p
          PROVE  trunk[i].reflects \in 0..Len(trunk)
          BY <1>1, <2>1, <3>1 DEF TrunkSound, LayerSound, IsSource
    <3> QED BY <3>1
  <2>3. RebuiltMark(p) = Highest({0} \cup marks)
        BY DEF RebuiltMark
  <2> HIDE DEF marks
  <2>4. {0} \cup marks \subseteq 0..Len(trunk) /\ {0} \cup marks # {}
        BY <1>1, <2>2
  <2>5. Highest({0} \cup marks) \in {0} \cup marks
        BY <1>1, <2>4, HighestIs
  <2> QED BY <2>3, <2>4, <2>5
<1> QED BY <1>2, <1>3

(* A process that dies and one that opens the store again.                  *)
LEMMA CrashKeeps ==
    ASSUME RoundsLandRight, Crash
    PROVE  RoundsLandRight'
<1> USE DEF RoundsLandRight
<1>0. left' \in Budget /\ left'.producers = left.producers
    BY SpendingKeeps DEF Crash, TrunkSound
<1>1. TrunkSound' /\ Onward
    BY <1>0, TrunkStays DEF Crash
<1>2. NoRound' = NoRound /\ Producer' = Producer /\ Invocation' = Invocation
    BY <1>0 DEF NoRound, Invocation, Producer
<1>3. RoundSound' /\ RunsSound' /\ LandingSound'
    BY <1>2, NoRoundIsSound DEF Crash
<1>4. TablesSound'
  <2>1. /\ version' \in [Producer' -> DOMAIN trunk']
        /\ broken' \subseteq Producer' \X DOMAIN trunk'
        BY <1>1, <1>2, TablesFit DEF Crash
  <2>2. watermark' \in [Producer' -> 0..Len(trunk')]
        BY <1>2, RebuiltFits DEF Crash
  <2>3. edges' = [inv \in Invocation' |-> edges'[inv]]
        BY <1>2 DEF Crash
  <2>4. \A inv \in Invocation : edges'[inv] = Rebuilt(inv)
        BY DEF Crash
  <2>5. \A inv \in Invocation' : \A c \in edges'[inv] : Named(c)'
    <3>1. \A inv \in Invocation : \A c \in edges'[inv] : Named(c)
          BY <2>4, RebuiltFits
    <3> QED BY <1>2, <3>1 DEF Named
  <2> QED BY <2>1, <2>2, <2>3, <2>5 DEF TablesSound
<1> QED BY <1>1, <1>3, <1>4

---------------------------------------------------------------------------
(* The steps of a round's runs                                             *)

(* A round that has runs to start or running is before its merge.           *)
LEMMA StillRunning ==
    ASSUME RoundSound, LandingSound, round.todo # {} \/ Running # {}
    PROVE  round.phase = "run" /\ round.applied = {}
<1>1. round.phase # "land"
    BY DEF LandingSound
<1>2. round.phase # "idle"
  <2>1. ASSUME round = NoRound PROVE round.todo = {} /\ Running = {}
        BY <2>1 DEF NoRound, Running
  <2> QED BY <2>1 DEF RoundSound
<1> QED BY <1>1, <1>2 DEF RoundSound, LandingSound

\* What a step of the runs makes of the round: a committed run stays what it is.
RunOn(log, wave, todo, seeded, reruns) ==
    /\ round.phase = "run"
    /\ round' = [phase |-> "run", forkAt |-> round.forkAt, reflects |-> round.reflects,
                 wave |-> wave, todo |-> todo, log |-> log, seeded |-> seeded,
                 reruns |-> reruns, applied |-> {}, queue |-> round.queue]
    /\ \A l \in wave : \A c \in l.cells : Named(c)
    /\ todo \subseteq Invocation
    /\ IsASequence(log)
    /\ DOMAIN round.log \subseteq DOMAIN log
    /\ \A i \in Committed(round.log) : log[i] = round.log[i]
    /\ \A i \in DOMAIN log :
          \/ i \in DOMAIN round.log /\ log[i] = round.log[i]
          \/ EntrySound(log, log[i])

(* Such a step keeps the round and its runs sound.                          *)
LEMMA RunOnKeeps ==
    ASSUME RoundSound, RunsSound, Onward, NEW log, NEW wave, NEW todo, NEW seeded, NEW reruns,
           RunOn(log, wave, todo, seeded, reruns)
    PROVE  RoundSound' /\ RunsSound' /\ LandingSound'
<1>1. Producer' = Producer /\ Invocation' = Invocation
    BY DEF Onward, Producer, Invocation
<1>2. round' = [phase |-> "run", forkAt |-> round.forkAt, reflects |-> round.reflects,
                wave |-> wave, todo |-> todo, log |-> log, seeded |-> seeded,
                reruns |-> reruns, applied |-> {}, queue |-> round.queue]
    BY DEF RunOn
<1>3. RoundSound'
  <2>1. \A l \in wave : \A c \in l.cells : Named(c)'
        BY DEF RunOn, Named
  <2>2. (round.reflects \in DOMAIN trunk /\ IsSource(round.reflects))
        BY DEF RunOn, RoundSound
  <2>3. PICK top : top = round.reflects
        OBVIOUS
  <2>4. top \in DOMAIN trunk' /\ IsSource(top)'
        BY <2>2, <2>3 DEF Onward, IsSource
  <2>5. round'.reflects = top
        BY <1>2, <2>3
  <2>6. (round.reflects \in DOMAIN trunk /\ IsSource(round.reflects))'
        BY <2>4, <2>5 DEF IsSource
  <2> QED BY <1>1, <1>2, <2>1, <2>6 DEF RoundSound, RunOn
<1>4. ASSUME NEW i \in DOMAIN log PROVE EntrySound(log, log[i])
  <2>1. CASE i \in DOMAIN round.log /\ log[i] = round.log[i]
    <3>1. EntrySound(round.log, log[i])
          BY <2>1 DEF RunsSound
    <3>2. \A j \in Committed(round.log) : j \in Committed(log) /\ log[j] = round.log[j]
          BY DEF RunOn, Committed
    <3> QED BY <3>1, <3>2 DEF EntrySound
  <2> QED BY <2>1 DEF RunOn
<1>5. RunsSound'
  <2>2. round'.log = log
        BY <1>2
  <2>3. \A i \in DOMAIN round'.log : EntrySound(round.log, round.log[i])'
        BY <1>1, <1>4, <2>2 DEF EntrySound, Named
  <2> QED BY <2>2, <2>3 DEF RunsSound, RunOn, IsASequence
<1>6. LandingSound'
    BY <1>2 DEF LandingSound
<1> QED BY <1>3, <1>5, <1>6

(* Poisoning producers there are, at the versions they have, names layers   *)
(* there are.                                                               *)
LEMMA PoisonedFits ==
    ASSUME TablesSound, NEW S, S \subseteq Producer
    PROVE  Poisoned(S) \subseteq Producer \X DOMAIN trunk
BY DEF Poisoned, TablesSound

(* What a wave makes outstanding is of a producer there is, over an object  *)
(* there is (invalidated_by, backfill).                                     *)
LEMMA CandidatesFit ==
    ASSUME RoundSound, NEW p \in Producer
    PROVE  Candidates(p) \subseteq Invocation
<1>1. \A l \in AheadOf(p) : InvalidatedBy(p, l) \subseteq Invocation
  <2> SUFFICES ASSUME NEW l \in round.wave PROVE InvalidatedBy(p, l) \subseteq Invocation
      BY DEF AheadOf
  <2>1. \A c \in l.cells : c[2] \in Entity
        BY DEF RoundSound, Named
  <2>2. \A c \in l.cells : <<p, c[2]>> \in Invocation
        BY <2>1 DEF Invocation
  <2>3. ASSUME NEW x \in InvalidatedBy(p, l) PROVE x \in Invocation
    <3>1. x \in Invocation \/ \E c \in l.cells : x = <<p, c[2]>>
          BY DEF InvalidatedBy
    <3> QED BY <2>2, <3>1
  <2> QED BY <2>3
<1>2. Backfill(p) \subseteq Invocation
    BY DEF Backfill
<1> DEFINE dirty == UNION {InvalidatedBy(p, l) : l \in AheadOf(p)}
<1>3. dirty \subseteq Invocation
  <2>1. \A x \in dirty : x \in Invocation
        BY <1>1
  <2> QED BY <2>1
<1>4. Candidates(p) = IF ~Schedulable(p) THEN {}
                      ELSE dirty \cup (IF p \in round.seeded THEN {} ELSE Backfill(p))
    BY DEF Candidates
<1> HIDE DEF dirty
<1> QED BY <1>2, <1>3, <1>4

(* DerivationEngine::schedule makes a wave of what it finds outstanding.    *)
LEMMA ScheduleKeeps ==
    ASSUME RoundsLandRight, Schedule
    PROVE  RoundsLandRight'
<1> USE DEF RoundsLandRight
<1>1. TrunkSound' /\ Onward
    BY TrunkStays DEF Schedule, TrunkSound
<1> DEFINE cycling == {p \in Producer : OverLimit(p) # {}}
           all == UNION {Candidates(p) \ OverLimit(p) : p \in Producer}
<1>2. all \subseteq Invocation
  <2>1. \A x \in all : x \in Invocation
        BY CandidatesFit
  <2> QED BY <2>1
<1>3. PICK work, seeded, reruns :
         /\ work \subseteq all
         /\ round' = [round EXCEPT !.wave = {}, !.todo = work, !.seeded = seeded,
                                   !.reruns = reruns]
         /\ broken' = Poisoned(cycling)
  <2>1. PICK kept \in SUBSET {i \in all : i[1] \in cycling} :
           LET work == {i \in all : i[1] \notin cycling} \cup kept
           IN /\ round' = [round EXCEPT
                     !.wave = {},
                     !.todo = work,
                     !.seeded = @ \cup {p \in Producer : Schedulable(p)},
                     !.reruns = [i \in Invocation |->
                                    IF i \in work THEN @[i] + 1 ELSE @[i]]]
              /\ broken' = Poisoned(cycling)
        BY Zenon DEF Schedule
  <2> DEFINE work == {i \in all : i[1] \notin cycling} \cup kept
             seeded == round.seeded \cup {p \in Producer : Schedulable(p)}
             reruns == [i \in Invocation |->
                          IF i \in work THEN round.reruns[i] + 1 ELSE round.reruns[i]]
  <2>2. work \subseteq all
    <3> HIDE DEF all, cycling
    <3> QED OBVIOUS
  <2>3. round' = [round EXCEPT !.wave = {}, !.todo = work, !.seeded = seeded,
                               !.reruns = reruns]
        BY <2>1, Zenon
  <2> HIDE DEF work, seeded, reruns, all, cycling
  <2> QED BY <2>1, <2>2, <2>3
<1> HIDE DEF all
<1>4. round.phase = "run" /\ round.applied = {}
    BY DEF Schedule, LandingSound
<1>5. RunOn(round.log, {}, work, seeded, reruns)
  <2>1. round' = [phase |-> "run", forkAt |-> round.forkAt, reflects |-> round.reflects,
                  wave |-> {}, todo |-> work, log |-> round.log, seeded |-> seeded,
                  reruns |-> reruns, applied |-> {}, queue |-> round.queue]
        BY <1>3, <1>4 DEF RoundSound
  <2> QED BY <1>2, <1>3, <1>4, <2>1 DEF RunOn, RunsSound
<1>6. RoundSound' /\ RunsSound' /\ LandingSound'
    BY <1>1, <1>5, RunOnKeeps
<1>7. TablesSound'
  <2>1. broken' \subseteq Producer \X DOMAIN trunk'
        BY <1>3, PoisonedFits DEF Schedule
  <2>2. version' = version /\ watermark' = watermark /\ edges' = edges
        BY DEF Schedule
  <2> QED BY <1>1, <2>1, <2>2, TablesFit, TablesStay
<1> QED BY <1>1, <1>6, <1>7

(* A task of the wave opens its layer (DerivationEngine::run).              *)
LEMMA StartKeeps ==
    ASSUME RoundsLandRight, NEW inv \in round.todo, Start(inv)
    PROVE  RoundsLandRight'
<1> USE DEF RoundsLandRight
<1>1. TrunkSound' /\ Onward
    BY TrunkStays DEF Start, TrunkSound
<1>2. round.phase = "run" /\ round.applied = {}
    BY StillRunning
<1>3. PICK entry, log :
         /\ entry = [inv |-> inv, state |-> "open", bound |-> RoundHead(round.log),
                     seen |-> <<>>, from |-> {}, writes |-> <<>>]
         /\ log = Append(round.log, entry)
    OBVIOUS
<1>4. RunOn(log, round.wave, round.todo \ {inv}, round.seeded, round.reruns)
  <2>1. round' = [phase |-> "run", forkAt |-> round.forkAt, reflects |-> round.reflects,
                  wave |-> round.wave, todo |-> round.todo \ {inv}, log |-> log,
                  seeded |-> round.seeded, reruns |-> round.reruns, applied |-> {},
                  queue |-> round.queue]
        BY <1>2, <1>3 DEF RoundSound, Start
  <2>2. PICK S : round.log \in Seq(S)
        BY DEF RunsSound, IsASequence
  <2>3. round.log \in Seq(S \cup {entry})
        BY <2>2
  <2>4. /\ log \in Seq(S \cup {entry})
        /\ DOMAIN log = 1..(Len(round.log) + 1) /\ DOMAIN round.log = 1..Len(round.log)
        /\ Len(round.log) \in Nat
        /\ \A i \in DOMAIN round.log : log[i] = round.log[i]
        /\ log[Len(round.log) + 1] = entry
        BY <1>3, <2>3
  <2>5. IsASequence(log)
        BY <2>4 DEF IsASequence
  <2>6. EntrySound(log, entry)
        BY <1>3 DEF EntrySound, RoundSound
  <2>7. \A i \in DOMAIN log : \/ i \in DOMAIN round.log /\ log[i] = round.log[i]
                              \/ EntrySound(log, log[i])
        BY <2>4, <2>6
  <2>8. DOMAIN round.log \subseteq DOMAIN log /\ Committed(round.log) \subseteq DOMAIN round.log
        BY <2>4 DEF Committed
  <2> QED BY <1>2, <2>1, <2>4, <2>5, <2>7, <2>8 DEF RunOn, RoundSound
<1>5. RoundSound' /\ RunsSound' /\ LandingSound'
    BY <1>1, <1>4, RunOnKeeps
<1>6. TablesSound'
    BY <1>1, TablesFit, TablesStay DEF Start
<1> QED BY <1>1, <1>5, <1>6

(* What the round branch serves a read is nothing of the round, or the      *)
(* output of a run of it that committed (the path's first part).            *)
LEMMA LandingIs ==
    ASSUME RunsSound, NEW within, NEW c
    PROVE  \/ Landing(round.log, within, c) = 0
           \/ /\ Landing(round.log, within, c) \in within \cap Committed(round.log)
              /\ c \in DOMAIN round.log[Landing(round.log, within, c)].writes
<1> DEFINE S == {i \in within \cap Committed(round.log) : c \in DOMAIN round.log[i].writes}
<1>1. Len(round.log) \in Nat /\ DOMAIN round.log = 1..Len(round.log)
    BY DEF RunsSound, IsASequence
<1>2. {0} \cup S \subseteq 0..Len(round.log) /\ {0} \cup S # {}
    BY <1>1 DEF Committed
<1>3. Landing(round.log, within, c) = Highest({0} \cup S)
    BY DEF Landing
<1>4. Highest({0} \cup S) \in {0} \cup S
  <2> HIDE DEF S
  <2> QED BY <1>1, <1>2, HighestIs
<1> QED BY <1>3, <1>4

(* A running run's entry is replaced: the others stay, the committed ones   *)
(* among them.                                                              *)
LEMMA EntryReplaced ==
    ASSUME RunsSound, NEW i \in Running, NEW entry, NEW log,
           log = [round.log EXCEPT ![i] = entry]
    PROVE  /\ IsASequence(log) /\ DOMAIN log = DOMAIN round.log
           /\ i \in DOMAIN round.log /\ log[i] = entry
           /\ \A j \in DOMAIN log : j # i => log[j] = round.log[j]
           /\ \A j \in Committed(round.log) : j # i /\ log[j] = round.log[j]
<1>1. PICK S : round.log \in Seq(S)
    BY DEF RunsSound, IsASequence
<1>2. i \in DOMAIN round.log /\ round.log[i].state = "open"
    BY DEF Running
<1>3. round.log \in Seq(S \cup {entry})
    BY <1>1
<1>4. log \in Seq(S \cup {entry})
    BY <1>2, <1>3
<1>5. \A j \in Committed(round.log) : j \in DOMAIN round.log /\ j # i
    BY <1>2 DEF Committed
<1> QED BY <1>2, <1>4, <1>5 DEF IsASequence

(* A run is of a producer there is, over an object there is; what user code *)
(* asks for and writes names cells.                                         *)
LEMMA RunsName ==
    ASSUME TrunkSound, RunsSound, NEW i \in Running
    PROVE  /\ EntrySound(round.log, round.log[i])
           /\ Wants(round.log[i]) # None =>
                 Named(<<Wants(round.log[i]), round.log[i].inv[2]>>)
           /\ \A seen : \A c \in DOMAIN Written(round.log[i].inv, seen) : Named(c)
<1>1. EntrySound(round.log, round.log[i])
    BY DEF RunsSound, Running
<1>2. PICK inv : inv = round.log[i].inv
    OBVIOUS
<1>3. inv[1] \in Producers /\ inv[2] \in Entity
    BY <1>1, <1>2, DeriveAssumption DEF EntrySound, Invocation, TrunkSound, Producer, Budget
<1>4. ASSUME Wants(round.log[i]) # None
      PROVE  Named(<<Wants(round.log[i]), round.log[i].inv[2]>>)
  <2>1. CodeStaysInside => Wants(round.log[i]) \in Buffer
        BY <1>2, <1>3, <1>4 DEF CodeStaysInside, Wants
  <2> QED BY <1>2, <1>3, <2>1 DEF Named
<1>5. ASSUME NEW seen, NEW c \in DOMAIN Written(inv, seen) PROVE Named(c)
  <2>1. PICK b \in DOMAIN Output(inv[1], version[inv[1]], seen) : c = <<b, inv[2]>>
        BY DEF Written
  <2>2. CodeStaysInside => b \in Buffer
        BY <1>3, <2>1 DEF CodeStaysInside
  <2> QED BY <1>3, <2>1, <2>2 DEF Named
<1> QED BY <1>1, <1>2, <1>4, <1>5

(* RecordingCtx::get_at: what a run is served is remembered with what it    *)
(* was served from.                                                         *)
LEMMA ReadKeeps ==
    ASSUME RoundsLandRight, NEW i \in Running, Read(i)
    PROVE  RoundsLandRight'
<1> USE DEF RoundsLandRight
<1>1. TrunkSound' /\ Onward
    BY TrunkStays DEF Read, TrunkSound
<1>2. round.phase = "run" /\ round.applied = {}
    BY StillRunning
<1>3. PICK old, c, at, v :
         /\ old = round.log[i] /\ c = <<Wants(old), old.inv[2]>>
         /\ at = Landing(round.log, 1..old.bound, c)
         /\ v = RoundValue(c, 1..old.bound)
    OBVIOUS
<1>4. EntrySound(round.log, old) /\ Named(c) /\ old.state = "open"
    BY <1>3, RunsName DEF Read, Running
<1>5. PICK seen, from, entry : /\ seen = Extend(old.seen, c, v)
                               /\ from = old.from \cup ({at} \ {0})
                               /\ entry = [old EXCEPT !.seen = seen, !.from = from]
    OBVIOUS
<1>6. PICK log : log = [round.log EXCEPT ![i] = entry]
    OBVIOUS
<1>7. entry = [inv |-> old.inv, state |-> old.state, bound |-> old.bound,
               seen |-> seen, from |-> from, writes |-> old.writes]
    BY <1>4, <1>5 DEF EntrySound
<1>8. round' = [round EXCEPT !.log = log]
  <2>1. round' = [round EXCEPT
              !.log[i].seen = Extend(@, c, v),
              !.log[i].from = @ \cup ({at} \ {0})]
        BY <1>3, Zenon DEF Read
  <2>2. /\ i \in DOMAIN round.log /\ old = round.log[i]
        /\ old = [inv |-> old.inv, state |-> old.state, bound |-> old.bound,
                  seen |-> old.seen, from |-> old.from, writes |-> old.writes]
        /\ round = [phase |-> round.phase, forkAt |-> round.forkAt,
                    reflects |-> round.reflects, wave |-> round.wave,
                    todo |-> round.todo, log |-> round.log, seeded |-> round.seeded,
                    reruns |-> round.reruns, applied |-> round.applied,
                    queue |-> round.queue]
        /\ IsASequence(round.log)
        BY <1>3, <1>4 DEF EntrySound, RoundSound, RunsSound, Running
  <2> QED BY <1>5, <1>6, <2>1, <2>2 DEF IsASequence
<1>9. /\ IsASequence(log) /\ DOMAIN log = DOMAIN round.log
      /\ i \in DOMAIN round.log /\ log[i] = entry
      /\ \A j \in DOMAIN log : j # i => log[j] = round.log[j]
      /\ \A j \in Committed(round.log) : j # i /\ log[j] = round.log[j]
    BY <1>6, EntryReplaced
<1>10. DOMAIN entry.seen = DOMAIN old.seen \cup {c}
  <2>1. DOMAIN Extend(old.seen, c, v) = DOMAIN old.seen \cup {c}
        BY DEF Extend
  <2>2. entry.seen = Extend(old.seen, c, v)
    <3>1. entry.seen = seen
          BY <1>7
    <3> QED BY <1>5, <3>1
  <2> QED BY <2>1, <2>2
<1>11. EntrySound(log, entry)
  <2>1. \A d \in DOMAIN entry.seen : Named(d)
        BY <1>4, <1>10 DEF EntrySound
  <2>2. \A j \in Committed(round.log) : j \in Committed(log) /\ log[j] = round.log[j]
        BY <1>9 DEF Committed
  <2>3. \A j \in old.from : j \in Committed(round.log)
                            /\ DOMAIN old.seen \cap DOMAIN round.log[j].writes # {}
        BY <1>4 DEF EntrySound
  <2>4. at # 0 => at \in Committed(round.log) /\ c \in DOMAIN round.log[at].writes
        BY <1>3, LandingIs
  <2>5. ASSUME NEW j \in entry.from
        PROVE  j \in Committed(log) /\ DOMAIN entry.seen \cap DOMAIN log[j].writes # {}
    <3>1. CASE j \in old.from
          BY <1>10, <2>2, <2>3, <3>1
    <3>2. CASE j = at /\ at # 0
          BY <1>10, <2>2, <2>4, <3>2
    <3> QED BY <1>5, <1>7, <3>1, <3>2
  <2>6. /\ entry.inv = old.inv /\ entry.writes = old.writes
        /\ entry = [inv |-> entry.inv, state |-> entry.state, bound |-> entry.bound,
                    seen |-> entry.seen, from |-> entry.from, writes |-> entry.writes]
        BY <1>7
  <2> QED BY <1>4, <2>1, <2>5, <2>6 DEF EntrySound
<1>12. RunOn(log, round.wave, round.todo, round.seeded, round.reruns)
  <2>1. round' = [phase |-> "run", forkAt |-> round.forkAt, reflects |-> round.reflects,
                  wave |-> round.wave, todo |-> round.todo, log |-> log,
                  seeded |-> round.seeded, reruns |-> round.reruns, applied |-> {},
                  queue |-> round.queue]
        BY <1>2, <1>8 DEF RoundSound
  <2> QED BY <1>2, <1>9, <1>11, <2>1 DEF RunOn, RoundSound
<1>13. RoundSound' /\ RunsSound' /\ LandingSound'
    BY <1>1, <1>12, RunOnKeeps
<1>14. TablesSound'
    BY <1>1, TablesFit, TablesStay DEF Read
<1> QED BY <1>1, <1>13, <1>14

(* DerivationEngine::run, succeeding: the run's edges replace the last      *)
(* run's, its output is the layer's, and the round hears of it.             *)
LEMMA FinishKeeps ==
    ASSUME RoundsLandRight, NEW i \in Running, Finish(i)
    PROVE  RoundsLandRight'
<1> USE DEF RoundsLandRight
<1>1. TrunkSound' /\ Onward
    BY TrunkStays DEF Finish, TrunkSound
<1>2. round.phase = "run" /\ round.applied = {}
    BY StillRunning
<1>3. PICK old, out, layer :
         /\ old = round.log[i] /\ out = Written(old.inv, SeenBuffers(old))
         /\ layer = Changeset(round.reflects, old.inv[1], DOMAIN out)
    OBVIOUS
<1>4. EntrySound(round.log, old) /\ \A c \in DOMAIN out : Named(c)
    BY <1>3, RunsName
<1>5. PICK entry : entry = [old EXCEPT !.state = "committed", !.writes = out]
    OBVIOUS
<1>6. PICK log : log = [round.log EXCEPT ![i] = entry]
    OBVIOUS
<1>7. entry = [inv |-> old.inv, state |-> "committed", bound |-> old.bound,
               seen |-> old.seen, from |-> old.from, writes |-> out]
    BY <1>4, <1>5 DEF EntrySound
<1>8. round' = [round EXCEPT !.log = log, !.wave = round.wave \cup {layer}]
  <2>1. round' = [round EXCEPT
              !.log[i].state = "committed",
              !.log[i].writes = out,
              !.wave = @ \cup {layer}]
        BY <1>3, Zenon DEF Finish
  <2>2. /\ i \in DOMAIN round.log /\ old = round.log[i]
        /\ old = [inv |-> old.inv, state |-> old.state, bound |-> old.bound,
                  seen |-> old.seen, from |-> old.from, writes |-> old.writes]
        /\ round = [phase |-> round.phase, forkAt |-> round.forkAt,
                    reflects |-> round.reflects, wave |-> round.wave,
                    todo |-> round.todo, log |-> round.log, seeded |-> round.seeded,
                    reruns |-> round.reruns, applied |-> round.applied,
                    queue |-> round.queue]
        /\ IsASequence(round.log)
        BY <1>3, <1>4 DEF EntrySound, RoundSound, RunsSound, Running
  <2> QED BY <1>5, <1>6, <2>1, <2>2 DEF IsASequence
<1>9. /\ IsASequence(log) /\ DOMAIN log = DOMAIN round.log
      /\ i \in DOMAIN round.log /\ log[i] = entry
      /\ \A j \in DOMAIN log : j # i => log[j] = round.log[j]
      /\ \A j \in Committed(round.log) : j # i /\ log[j] = round.log[j]
    BY <1>6, EntryReplaced
<1>10. EntrySound(log, entry)
  <2>1. \A j \in Committed(round.log) : j \in Committed(log) /\ log[j] = round.log[j]
        BY <1>9 DEF Committed
  <2> QED BY <1>4, <1>7, <2>1 DEF EntrySound
<1>11. \A l \in round.wave \cup {layer} : \A c \in l.cells : Named(c)
    BY <1>3, <1>4 DEF RoundSound, Changeset
<1>12. RunOn(log, round.wave \cup {layer}, round.todo, round.seeded, round.reruns)
  <2>1. round' = [phase |-> "run", forkAt |-> round.forkAt, reflects |-> round.reflects,
                  wave |-> round.wave \cup {layer}, todo |-> round.todo, log |-> log,
                  seeded |-> round.seeded, reruns |-> round.reruns, applied |-> {},
                  queue |-> round.queue]
        BY <1>2, <1>8 DEF RoundSound
  <2> QED BY <1>2, <1>9, <1>10, <1>11, <2>1 DEF RunOn, RoundSound
<1>13. RoundSound' /\ RunsSound' /\ LandingSound'
    BY <1>1, <1>12, RunOnKeeps
<1>14. TablesSound'
  <2>1. Producer' = Producer /\ Invocation' = Invocation
        BY <1>1 DEF Onward, Producer, Invocation
  <2>2. edges' = [edges EXCEPT ![old.inv] = DOMAIN old.seen]
        BY <1>3 DEF Finish, Record
  <2>3. \A inv \in Invocation :
           edges'[inv] = IF inv = old.inv THEN DOMAIN old.seen ELSE edges[inv]
        BY <2>2 DEF TablesSound
  <2>4. edges' = [inv \in Invocation |-> edges'[inv]]
        BY <2>2 DEF TablesSound
  <2>5. \A inv \in Invocation : \A c \in edges'[inv] : Named(c)
        BY <1>4, <2>3 DEF TablesSound, EntrySound
  <2>6. \A inv \in Invocation' : \A c \in edges'[inv] : Named(c)'
        BY <2>1, <2>5 DEF Named
  <2>7. version' = version /\ watermark' = watermark /\ broken' = broken
        BY DEF Finish
  <2> QED BY <1>1, <2>1, <2>4, <2>6, <2>7, TablesFit DEF TablesSound
<1> QED BY <1>1, <1>13, <1>14

(* DerivationEngine::run, failing: the layer is aborted and the producer is *)
(* poisoned at the version it has.                                          *)
LEMMA FailKeeps ==
    ASSUME RoundsLandRight, NEW i \in Running, Fail(i)
    PROVE  RoundsLandRight'
<1> USE DEF RoundsLandRight
<1>0. left' \in Budget /\ left'.producers = left.producers
    BY SpendingKeeps DEF Fail, TrunkSound
<1>1. TrunkSound' /\ Onward
    BY <1>0, TrunkStays DEF Fail
<1>2. round.phase = "run" /\ round.applied = {}
    BY StillRunning
<1>3. PICK old : old = round.log[i]
    OBVIOUS
<1>4. EntrySound(round.log, old)
    BY <1>3, RunsName
<1>5. PICK entry : entry = [old EXCEPT !.state = "aborted", !.seen = <<>>, !.from = {}]
    OBVIOUS
<1>6. PICK log : log = [round.log EXCEPT ![i] = entry]
    OBVIOUS
<1>7. entry = [inv |-> old.inv, state |-> "aborted", bound |-> old.bound,
               seen |-> <<>>, from |-> {}, writes |-> old.writes]
    BY <1>4, <1>5 DEF EntrySound
<1>8. round' = [round EXCEPT !.log = log]
  <2>1. round' = [round EXCEPT !.log[i].state = "aborted",
                               !.log[i].seen = <<>>, !.log[i].from = {}]
        BY DEF Fail
  <2>2. /\ i \in DOMAIN round.log /\ old = round.log[i]
        /\ old = [inv |-> old.inv, state |-> old.state, bound |-> old.bound,
                  seen |-> old.seen, from |-> old.from, writes |-> old.writes]
        /\ round = [phase |-> round.phase, forkAt |-> round.forkAt,
                    reflects |-> round.reflects, wave |-> round.wave,
                    todo |-> round.todo, log |-> round.log, seeded |-> round.seeded,
                    reruns |-> round.reruns, applied |-> round.applied,
                    queue |-> round.queue]
        /\ IsASequence(round.log)
        BY <1>3, <1>4 DEF EntrySound, RoundSound, RunsSound, Running
  <2> QED BY <1>5, <1>6, <2>1, <2>2 DEF IsASequence
<1>9. /\ IsASequence(log) /\ DOMAIN log = DOMAIN round.log
      /\ i \in DOMAIN round.log /\ log[i] = entry
      /\ \A j \in DOMAIN log : j # i => log[j] = round.log[j]
      /\ \A j \in Committed(round.log) : j # i /\ log[j] = round.log[j]
    BY <1>6, EntryReplaced
<1>10. EntrySound(log, entry)
    BY <1>4, <1>7 DEF EntrySound
<1>11. RunOn(log, round.wave, round.todo, round.seeded, round.reruns)
  <2>1. round' = [phase |-> "run", forkAt |-> round.forkAt, reflects |-> round.reflects,
                  wave |-> round.wave, todo |-> round.todo, log |-> log,
                  seeded |-> round.seeded, reruns |-> round.reruns, applied |-> {},
                  queue |-> round.queue]
        BY <1>2, <1>8 DEF RoundSound
  <2> QED BY <1>2, <1>9, <1>10, <2>1 DEF RunOn, RoundSound
<1>12. RoundSound' /\ RunsSound' /\ LandingSound'
    BY <1>1, <1>11, RunOnKeeps
<1>13. TablesSound'
  <2>1. old.inv[1] \in Producer
        BY <1>4 DEF EntrySound, Invocation
  <2>2. broken' = Poisoned({old.inv[1]}) /\ trunk' = trunk
        BY <1>3 DEF Fail
  <2>3. broken' \subseteq Producer \X DOMAIN trunk'
    <3> HIDE DEF RoundsLandRight
    <3>1. {old.inv[1]} \subseteq Producer /\ TablesSound
          BY <2>1 DEF RoundsLandRight
    <3> QED BY <2>2, <3>1, PoisonedFits
  <2>4. version' = version /\ watermark' = watermark /\ edges' = edges
        BY DEF Fail
  <2> QED BY <1>1, <2>3, <2>4, TablesFit, TablesStay
<1> QED BY <1>1, <1>12, <1>13

---------------------------------------------------------------------------
(* The merge of a round                                                    *)

(* What a merge decides to land committed, did not fail itself, and takes   *)
(* along everything it was served from the round branch (Round::cascade).   *)
LEMMA DecisionCloses ==
    ASSUME RunsSound, NEW applied, applied = Committed(round.log) \ Cascade(Failed)
    PROVE  /\ applied \subseteq Committed(round.log) /\ applied \cap Failed = {}
           /\ \A i \in applied : round.log[i].from \subseteq applied
<1>1. Failed \subseteq Committed(round.log)
    BY DEF Failed
<1>2. PICK T : round.log \in Seq(T)
    BY DEF RunsSound, IsASequence
<1>3. PICK failed, dropped : failed = Failed /\ dropped = Cascade(Failed)
    OBVIOUS
<1>4. /\ failed \subseteq dropped
      /\ \A i \in Committed(round.log) : \A j \in dropped : Consumes(i, j) => i \in dropped
    BY <1>1, <1>2, <1>3, CascadeCloses
<1>5. ASSUME NEW i \in applied, NEW j \in round.log[i].from PROVE j \in applied
  <2>1. i \in Committed(round.log) /\ i \in DOMAIN round.log /\ i \notin dropped
        BY <1>3 DEF Committed
  <2>2. j \in Committed(round.log) /\ Consumes(i, j)
        BY <2>1 DEF RunsSound, EntrySound, Consumes
  <2>3. j \notin dropped
        BY <1>4, <2>1, <2>2
  <2> QED BY <1>3, <2>2, <2>3
<1>6. \A i \in applied : round.log[i].from \subseteq applied
    BY <1>5
<1> QED BY <1>3, <1>4, <1>6

(* merge_round decides.                                                     *)
LEMMA DecideKeeps ==
    ASSUME RoundsLandRight, Decide
    PROVE  RoundsLandRight'
<1> USE DEF RoundsLandRight
<1>1. TrunkSound' /\ Onward
    BY TrunkStays DEF Decide, TrunkSound
<1>2. Producer' = Producer /\ Invocation' = Invocation
    BY <1>1 DEF Onward, Producer, Invocation
<1>3. PICK applied, queue : /\ applied = Committed(round.log) \ Cascade(Failed)
                            /\ queue = Groups(applied)
    OBVIOUS
<1>4. round' = [round EXCEPT !.phase = "land", !.applied = applied, !.queue = queue]
    BY <1>3, Zenon DEF Decide
<1>5. /\ applied \subseteq Committed(round.log)
      /\ \A i \in applied : round.log[i].from \subseteq applied
    BY <1>3, DecisionCloses
<1>6. queue \in Seq(Producer)
  <2>1. Committed(round.log) \subseteq 1..Len(round.log) /\ Len(round.log) \in Nat
        BY DEF Committed, RunsSound, IsASequence
  <2>2. applied \subseteq Nat /\ IsFiniteSet(applied)
    <3>1. IsFiniteSet(1..Len(round.log))
          BY <2>1, FS_Interval
    <3> QED BY <1>5, <2>1, <3>1, FS_Subset
  <2>3. \A i \in applied : ProducerOf(i) \in Producer
        BY <1>5 DEF Committed, RunsSound, EntrySound, ProducerOf, Invocation
  <2> QED BY <1>3, <2>2, <2>3, GroupsName
<1>7. round' = [phase |-> "land", forkAt |-> round.forkAt, reflects |-> round.reflects,
                wave |-> round.wave, todo |-> round.todo, log |-> round.log,
                seeded |-> round.seeded, reruns |-> round.reruns, applied |-> applied,
                queue |-> queue]
    BY <1>4 DEF RoundSound
<1>8. RoundSound'
  <2>1. round.phase = "run" /\ round.wave = {} /\ round.todo = {} /\ trunk' = trunk
        BY DEF Decide
  <2>2. round.reflects \in DOMAIN trunk /\ IsSource(round.reflects)
        BY <2>1 DEF RoundSound
  <2>3. round'.reflects = round.reflects
        BY <1>7
  <2>4. (round.reflects \in DOMAIN trunk /\ IsSource(round.reflects))'
        BY <2>1, <2>2, <2>3 DEF IsSource
  <2>5. \A l \in round'.wave : FALSE
        BY <1>7, <2>1
  <2>6. round'.todo = {}
        BY <1>7, <2>1
  <2> QED BY <1>7, <2>4, <2>5, <2>6 DEF RoundSound
<1>9. round'.log = round.log
    BY <1>7
<1>10. RunsSound'
    BY <1>2, <1>9 DEF RunsSound, EntrySound, IsASequence, Named
<1>11. LandingSound'
  <2>1. round'.todo = {} /\ Running' = {}
        BY <1>7, <1>9 DEF Decide, Running
  <2>2. round'.applied = applied /\ round'.queue = queue /\ round'.phase = "land"
        BY <1>7
  <2>3. round'.applied \subseteq Committed(round'.log)
        BY <1>5, <1>9, <2>2
  <2>4. \A i \in round'.applied : round'.log[i].from \subseteq round'.applied
        BY <1>5, <1>9, <2>2
  <2> QED BY <1>2, <1>6, <2>1, <2>2, <2>3, <2>4 DEF LandingSound
<1>12. TablesSound'
    BY <1>1, TablesFit, TablesStay DEF Decide
<1> QED BY <1>1, <1>8, <1>10, <1>11, <1>12

(* The layer one producer's runs are regrouped into speaks for the layer    *)
(* the round reflects and names cells.                                      *)
LEMMA GroupFits ==
    ASSUME TrunkSound, RoundSound, RunsSound, LandingSound, round.phase = "land",
           NEW p \in Producer
    PROVE  LayerFits(GroupLayer(p)) /\ GroupLayer(p).by = p
<1> DEFINE mine == {i \in round.applied : ProducerOf(i) = p}
           cells == UNION {DOMAIN round.log[i].writes : i \in mine}
           last(c) == round.log[Landing(round.log, mine, c)]
           named == {round.log[i].inv : i \in {j \in mine : round.log[j].writes # <<>>}}
           of(inv) == {i \in mine : /\ round.log[i].inv = inv
                                    /\ round.log[i].writes # <<>>}
           final(inv) == Highest(of(inv))
           writes == [c \in cells |-> last(c).writes[c]]
           reads == [inv \in named |-> DOMAIN round.log[final(inv)].seen]
<1>1. GroupLayer(p) = [by |-> p, reflects |-> round.reflects, writes |-> writes,
                       reads |-> reads]
    BY DEF GroupLayer
<1>2. Len(round.log) \in Nat /\ DOMAIN round.log = 1..Len(round.log)
    BY DEF RunsSound, IsASequence
<1>3. mine \subseteq DOMAIN round.log
    BY DEF LandingSound, Committed
<1>4. \A c \in DOMAIN writes : Named(c)
  <2>1. \A i \in mine : \A c \in DOMAIN round.log[i].writes : Named(c)
        BY <1>3 DEF RunsSound, EntrySound
  <2>2. \A c \in cells : Named(c)
    <3> HIDE DEF mine
    <3> QED BY <2>1
  <2> HIDE DEF cells
  <2> QED BY <2>2
<1>5. \A inv \in DOMAIN reads : \A c \in reads[inv] : Named(c)
  <2>1. ASSUME NEW inv \in named PROVE final(inv) \in mine
    <3>1. of(inv) \subseteq 0..Len(round.log) /\ of(inv) # {}
      <4>1. of(inv) \subseteq mine
            OBVIOUS
      <4>2. of(inv) # {}
        <5> HIDE DEF mine
        <5> QED OBVIOUS
      <4> HIDE DEF of, mine
      <4> QED BY <1>2, <1>3, <4>1, <4>2
    <3>2. Highest(of(inv)) \in of(inv)
      <4> HIDE DEF of
      <4> QED BY <1>2, <3>1, HighestIs
    <3> QED BY <3>2
  <2>2. \A i \in mine : \A c \in DOMAIN round.log[i].seen : Named(c)
        BY <1>3 DEF RunsSound, EntrySound
  <2> HIDE DEF mine, named, final
  <2>3. \A inv \in named : reads[inv] = DOMAIN round.log[final(inv)].seen
        OBVIOUS
  <2>4. DOMAIN reads = named
        OBVIOUS
  <2> HIDE DEF reads
  <2> QED BY <2>1, <2>2, <2>3, <2>4
<1>6. round.reflects \in DOMAIN trunk /\ IsSource(round.reflects)
    BY DEF RoundSound
<1> HIDE DEF mine, cells, last, named, final, writes, reads
<1>7. GroupLayer(p).by = p /\ GroupLayer(p).reflects = round.reflects
      /\ GroupLayer(p).writes = writes /\ GroupLayer(p).reads = reads
    BY <1>1
<1> QED BY <1>4, <1>5, <1>6, <1>7 DEF LayerFits

(* A producer that has incorporated a round has incorporated a layer there  *)
(* is (FrontierTracker::advance).                                           *)
LEMMA AdvancedFits ==
    ASSUME TrunkSound, TablesSound, RoundSound, round.phase = "land", NEW p \in Producer
    PROVE  Advanced(watermark[p]) \in 0..Len(trunk)
<1>1. round.reflects \in 1..Len(trunk) /\ Len(trunk) \in Nat
    BY DEF RoundSound, TrunkSound, IsASequence
<1>2. watermark[p] \in 0..Len(trunk)
    BY DEF TablesSound
<1> QED BY <1>1, <1>2 DEF Advanced

(* merge_round lands one producer's layer, or aborts an empty one.          *)
LEMMA LandKeeps ==
    ASSUME RoundsLandRight, Land
    PROVE  RoundsLandRight'
<1> USE DEF RoundsLandRight
<1>1. round.phase = "land" /\ round.queue # <<>> /\ round.queue \in Seq(Producer)
    BY DEF Land, LandingSound
<1>2. PICK p, layer : p = round.queue[1] /\ layer = GroupLayer(p)
    OBVIOUS
<1>3. p \in Producer
    BY <1>1, <1>2
<1>4. LayerFits(layer)
    BY <1>1, <1>2, <1>3, GroupFits
<1>5. \/ trunk' = trunk /\ watermark' = watermark
      \/ /\ trunk' = Append(trunk, layer)
         /\ watermark' = [watermark EXCEPT ![p] = Advanced(@)]
    BY <1>2 DEF Land
<1>6. left' = left /\ left \in Budget
    BY DEF Land, TrunkSound
<1>7. TrunkSound' /\ Onward
    BY <1>4, <1>5, <1>6, TrunkGrows, TrunkStays
<1>8. TablesSound'
  <2>1. /\ version' = version /\ edges' = edges /\ broken' = broken
        BY DEF Land
  <2>2. watermark' \in [Producer -> 0..Len(trunk')]
    <3>1. watermark \in [Producer -> 0..Len(trunk')]
          BY <1>7, TablesFit
    <3>2. Advanced(watermark[p]) \in 0..Len(trunk')
      <4>1. Advanced(watermark[p]) \in 0..Len(trunk)
            BY <1>1, <1>3, AdvancedFits
      <4>2. Len(trunk) <= Len(trunk') /\ Len(trunk) \in Nat /\ Len(trunk') \in Nat
            BY <1>7 DEF Onward, TrunkSound, IsASequence
      <4> QED BY <4>1, <4>2
    <3> QED BY <1>5, <3>1, <3>2
  <2> QED BY <1>7, <2>1, <2>2, TablesFit, TablesStay
<1>9. PICK queue : queue = Tail(round.queue)
    OBVIOUS
<1>10. queue \in Seq(Producer)
    BY <1>1, <1>9
<1>11. round' = [phase |-> "land", forkAt |-> round.forkAt, reflects |-> round.reflects,
                 wave |-> round.wave, todo |-> round.todo, log |-> round.log,
                 seeded |-> round.seeded, reruns |-> round.reruns,
                 applied |-> round.applied, queue |-> queue]
    BY <1>1, <1>9 DEF Land, RoundSound
<1>12. Producer' = Producer /\ Invocation' = Invocation
    BY <1>7 DEF Onward, Producer, Invocation
<1>13. RoundSound'
  <2>1. round.reflects \in DOMAIN trunk /\ IsSource(round.reflects)
        BY <1>1 DEF RoundSound
  <2>2. PICK top : top = round.reflects
        OBVIOUS
  <2>3. top \in DOMAIN trunk' /\ IsSource(top)'
        BY <1>7, <2>1, <2>2 DEF Onward, IsSource
  <2>4. round'.reflects = top
        BY <1>11, <2>2
  <2>5. (round.reflects \in DOMAIN trunk /\ IsSource(round.reflects))'
        BY <2>3, <2>4 DEF IsSource
  <2>6. \A l \in round.wave : \A c \in l.cells : Named(c)'
        BY DEF RoundSound, Named
  <2> QED BY <1>11, <1>12, <2>5, <2>6 DEF RoundSound
<1>14. round'.log = round.log /\ round'.applied = round.applied /\ round'.todo = round.todo
       /\ round'.queue = queue /\ round'.phase = "land"
    BY <1>11
<1>15. RunsSound'
    BY <1>12, <1>14 DEF RunsSound, EntrySound, IsASequence, Named
<1>16. LandingSound'
    BY <1>1, <1>10, <1>12, <1>14 DEF LandingSound, Running
<1> QED BY <1>7, <1>8, <1>13, <1>15, <1>16

(* The round ends: every producer has incorporated what it reflects.        *)
LEMMA AdvanceKeeps ==
    ASSUME RoundsLandRight, Advance
    PROVE  RoundsLandRight'
<1> USE DEF RoundsLandRight
<1>1. TrunkSound' /\ Onward
    BY TrunkStays DEF Advance, TrunkSound
<1>2. NoRound' = NoRound
    BY <1>1 DEF Onward, NoRound, Invocation, Producer
<1>3. RoundSound' /\ RunsSound' /\ LandingSound'
    BY <1>2, NoRoundIsSound DEF Advance
<1>4. TablesSound'
  <2>1. \A p \in Producer : Advanced(watermark[p]) \in 0..Len(trunk')
    <3>1. trunk' = trunk /\ round.phase = "land"
          BY DEF Advance
    <3> QED BY <3>1, AdvancedFits
  <2>2. watermark' = [p \in Producer |-> Advanced(watermark[p])]
        /\ version' = version /\ edges' = edges /\ broken' = broken
        BY DEF Advance
  <2>3. watermark' \in [Producer -> 0..Len(trunk')]
        BY <2>1, <2>2
  <2> QED BY <1>1, <2>2, <2>3, TablesFit, TablesStay
<1> QED BY <1>1, <1>3, <1>4

---------------------------------------------------------------------------
(* The theorems                                                            *)

(* A registry whose producers were pushed and never ran is in order.        *)
LEMMA InitIsSound == Init => RoundsLandRight
<1> SUFFICES ASSUME Init PROVE RoundsLandRight
    OBVIOUS
<1>1. PICK layer : layer = SourceLayer(<<>>)
    OBVIOUS
<1>2. trunk = <<layer>> /\ left \in Budget
    BY <1>1, DeriveAssumption DEF Init
<1>3. /\ trunk \in Seq({layer}) /\ Len(trunk) = 1 /\ DOMAIN trunk = 1..1
      /\ trunk[1] = layer /\ layer.by = Client /\ layer.writes = <<>>
    BY <1>1, <1>2 DEF SourceLayer
<1>4. TrunkSound
  <2>1. 1 \in DOMAIN trunk /\ \A i \in DOMAIN trunk : trunk[i] = layer
        BY <1>3
  <2>2. \A i \in DOMAIN trunk : IsSource(i) /\ LayerSound(i)
        BY <1>3, <2>1 DEF IsSource, LayerSound
  <2>3. IsASequence(trunk)
        BY <1>3 DEF IsASequence
  <2> QED BY <1>2, <2>1, <2>2, <2>3 DEF TrunkSound
<1>5. TablesSound
    BY <1>3 DEF Init, TablesSound
<1>6. RoundSound /\ RunsSound /\ LandingSound
  <2>1. round = NoRound
        BY DEF Init
  <2>2. <<>> \in Seq({})
        OBVIOUS
  <2> QED BY <2>1, <2>2 DEF RoundSound, RunsSound, LandingSound, NoRound, IsASequence
<1> QED BY <1>4, <1>5, <1>6 DEF RoundsLandRight

(* Every step keeps the branch and its round in order.                      *)
LEMMA StepKeeps == RoundsLandRight /\ [Next]_vars => RoundsLandRight'
<1> SUFFICES ASSUME RoundsLandRight, [Next]_vars PROVE RoundsLandRight'
    OBVIOUS
<1>1. CASE CatchUp  BY <1>1, CatchUpKeeps
<1>2. CASE Schedule  BY <1>2, ScheduleKeeps
<1>3. CASE \E inv \in round.todo : Start(inv)  BY <1>3, StartKeeps
<1>4. CASE \E i \in Running : Read(i)  BY <1>4, ReadKeeps
<1>5. CASE \E i \in Running : Finish(i)  BY <1>5, FinishKeeps
<1>6. CASE Decide  BY <1>6, DecideKeeps
<1>7. CASE Land  BY <1>7, LandKeeps
<1>8. CASE Advance  BY <1>8, AdvanceKeeps
<1>9. CASE \E i \in Running : Fail(i)  BY <1>9, FailKeeps
<1>10. CASE Abandon  BY <1>10, AbandonKeeps
<1>11. CASE RetryBroken  BY <1>11, RetryBrokenKeeps
<1>12. CASE Recompute  BY <1>12, RecomputeKeeps
<1>13. CASE \E b \in InputBuffer, e \in Entity : \E v \in ClientValue(b) :
               ClientWrite(<<b, e>>, v)
    BY <1>13, ClientWriteKeeps
<1>14. CASE \E p \in Producer : Push(p)  BY <1>14, PushKeeps
<1>15. CASE Crash  BY <1>15, CrashKeeps
<1>16. CASE CallFails  BY <1>16, CallFailsKeeps
<1>17. CASE UNCHANGED vars
  <2>1. TrunkSound' /\ Onward
        BY <1>17, TrunkStays DEF RoundsLandRight, vars, TrunkSound
  <2>2. RoundSound' /\ RunsSound' /\ LandingSound'
        BY <1>17, <2>1, RoundStays DEF RoundsLandRight, vars
  <2>3. TablesSound'
        BY <1>17, <2>1, TablesFit, TablesStay DEF RoundsLandRight, vars
  <2> QED BY <2>1, <2>2, <2>3 DEF RoundsLandRight
<1> QED BY <1>1, <1>2, <1>3, <1>4, <1>5, <1>6, <1>7, <1>8, <1>9, <1>10, <1>11, <1>12,
           <1>13, <1>14, <1>15, <1>16, <1>17 DEF Next, RoundStep

(* The branch and its round are always in order.                            *)
LEMMA AlwaysInOrder == Spec => []RoundsLandRight
BY InitIsSound, StepKeeps, PTL DEF Spec

(* A command's catch-up is still to come, was lost, or was made.            *)
LEMMA AlwaysCalled == Spec => []CallSound
<1>1. Init => CallSound
    BY DEF Init, CallSound
<1>2. CallSound /\ [Next]_vars => CallSound'
  <2> SUFFICES ASSUME CallSound, [Next]_vars PROVE CallSound'
      OBVIOUS
  <2> USE DEF CallSound
  <2>1. CASE CatchUp \/ CallFails \/ RetryBroken \/ Recompute \/ Abandon \/ Crash
      BY <2>1 DEF CatchUp, CallFails, RetryBroken, Recompute, Abandon, Crash
  <2>2. CASE RoundStep
      BY <2>2 DEF RoundStep, Schedule, Start, Read, Finish, Decide, Land, Advance
  <2>3. CASE \E i \in Running : Fail(i)
      BY <2>3 DEF Fail
  <2>4. CASE \E b \in InputBuffer, e \in Entity : \E v \in ClientValue(b) :
                 ClientWrite(<<b, e>>, v)
      BY <2>4 DEF ClientWrite
  <2>5. CASE \E p \in Producer : Push(p)
      BY <2>5 DEF Push
  <2>6. CASE UNCHANGED vars
      BY <2>6 DEF vars
  <2> QED BY <2>1, <2>2, <2>3, <2>4, <2>5, <2>6 DEF Next
<1> QED BY <1>1, <1>2, PTL DEF Spec

(* The order implies the shape of a round and of the branch, as far as user *)
(* code stays inside its buffers.                                           *)
LEMMA OrderShows == CodeStaysInside /\ RoundsLandRight /\ CallSound => DeriveInv
<1> SUFFICES ASSUME CodeStaysInside, RoundsLandRight, CallSound PROVE DeriveInv
    OBVIOUS
<1> USE DEF RoundsLandRight
<1>1. \A c : Named(c) => c \in Cell
    BY DEF Named, Cell
<1>2. ASSUME NEW i \in DOMAIN trunk
      PROVE  /\ trunk[i].by \in Producer \cup {Client}
             /\ DOMAIN trunk[i].writes \subseteq Cell
             /\ ~IsSource(i) => trunk[i].reflects \in 1..(i - 1) /\ IsSource(trunk[i].reflects)
    BY <1>1 DEF TrunkSound, LayerSound
<1>3. edges \in [Invocation -> SUBSET Cell]
  <2>1. \A inv \in Invocation : edges[inv] \in SUBSET Cell
        BY <1>1 DEF TablesSound
  <2> QED BY <2>1 DEF TablesSound
<1>4. round.applied \subseteq Committed(round.log)
    BY DEF LandingSound
<1>5. TypeOK
    BY <1>2, <1>3, <1>4 DEF TypeOK, TablesSound, RoundSound, CallSound
<1>6. LandedIsClosed
    BY DEF LandedIsClosed, LandingSound
<1> QED BY <1>5, <1>6 DEF DeriveInv

(* Whatever a round lands was not computed from anything it dropped, every  *)
(* landed layer speaks for a client's layer below it, and watermarks,       *)
(* versions, poisonings and edges name what there is (branch.rs merge_round,*)
(* Round::cascade; projection.rs after a death), for user code that reads   *)
(* and writes fields there are.                                             *)
THEOREM RoundsLandClosed == CodeStaysInside => (Spec => []DeriveInv)
<1>1. CodeStaysInside => [](RoundsLandRight /\ CallSound => DeriveInv)
  <2>1. SUFFICES ASSUME CodeStaysInside
                 PROVE  [](RoundsLandRight /\ CallSound => DeriveInv)
        OBVIOUS
  <2>2. RoundsLandRight /\ CallSound => DeriveInv
        BY <2>1, OrderShows
  <2> QED BY <2>2, PTL
<1> QED BY <1>1, AlwaysInOrder, AlwaysCalled, PTL

(* Nothing of what a round lands is on an object that a client's layer,     *)
(* landed since the fork, deletes (branch.rs deleted_since), whatever user  *)
(* code does.                                                               *)
THEOREM DeletedStaysDeleted == Spec => NothingResurrected
<1> DEFINE Lives == Decide => \A i \in round'.applied : \A c \in DOMAIN round.log[i].writes :
            \A n \in (round.forkAt + 1)..Len(trunk) :
                IsSource(n) /\ <<Object, c[2]>> \in DOMAIN trunk[n].writes
                    => trunk[n].writes[<<Object, c[2]>>] # Tombstone
<1>1. RoundsLandRight /\ [Next]_vars => [Lives]_vars
  <2> SUFFICES ASSUME RoundsLandRight, Decide,
                      NEW i \in round'.applied, NEW c \in DOMAIN round.log[i].writes,
                      NEW n \in (round.forkAt + 1)..Len(trunk), IsSource(n),
                      <<Object, c[2]>> \in DOMAIN trunk[n].writes,
                      trunk[n].writes[<<Object, c[2]>>] = Tombstone
               PROVE  FALSE
      OBVIOUS
  <2> USE DEF RoundsLandRight
  <2>1. PICK applied : applied = Committed(round.log) \ Cascade(Failed)
        OBVIOUS
  <2>2. round'.applied = applied
        BY <2>1 DEF Decide, RoundSound
  <2>3. i \in Committed(round.log) /\ i \notin Failed
        BY <2>1, <2>2, DecisionCloses
  <2>4. c[2] \in Entity
        BY <2>3 DEF Committed, RunsSound, EntrySound, Named
  <2>5. c[2] \in DeletedSince(round.forkAt)
        BY <2>4 DEF DeletedSince
  <2>6. i \in Failed
        BY <2>3, <2>5 DEF Failed
  <2> QED BY <2>3, <2>6
<1> HIDE DEF Lives
<1>2. Spec => [][Lives]_vars
    BY <1>1, AlwaysInOrder, PTL DEF Spec
<1> QED BY <1>2 DEF NothingResurrected, Lives
=============================================================================
