--------------------------- MODULE ResolveProofs ---------------------------
(***************************************************************************)
(* What a stamp and the word current mean, proved for any cells, any       *)
(* producers that do not feed on themselves, any readers and any bounds:   *)
(* as long as no producer broke and derived layers land while no client    *)
(* has a layer open, replaying the world at the layer an answer names      *)
(* gives the answer.                                                       *)
(*                                                                         *)
(* A stored value is compared with a replay, never with another stored     *)
(* value.  What makes this an induction is that values tell their history: *)
(* if two replays agree, every replay between them does (Follows).         *)
(***************************************************************************)
EXTENDS Resolve, FiniteSetTheorems, WellFoundedInduction, TLAPS

---------------------------------------------------------------------------
(* Induction over the numbers, for a predicate given as a set.              *)

(* A set of numbers has a least one. *)
LEMMA LeastNumber ==
    ASSUME NEW S, S \subseteq Nat, S # {}
    PROVE  \E m \in S : \A k \in S : m <= k
<1> DEFINE Below == {pair \in Nat \X Nat : pair[1] < pair[2]}
<1>1. IsWellFoundedOn(Below, Nat)
    BY NatLessThanWellFounded, Zenon DEF OpToRel
<1>2. \A k, m \in Nat : k < m => <<k, m>> \in Below
    OBVIOUS
<1> HIDE DEF Below
<1>3. PICK m \in S : \A k \in S : ~ (<<k, m>> \in Below)
    BY <1>1, WFMin, Zenon
<1>4. \A k \in S : ~ (k < m)
    BY <1>2, <1>3
<1>5. \A k \in S : m <= k
    BY <1>4
<1> QED BY <1>5

(* A set that holds zero, and with a number the next, holds them all. *)
LEMMA EveryNumber ==
    ASSUME NEW S, 0 \in S, \A n \in Nat : n \in S => n + 1 \in S
    PROVE  Nat \subseteq S
<1> DEFINE Left == Nat \ S
<1>1. SUFFICES ASSUME Left # {} PROVE FALSE
    OBVIOUS
<1>2. PICK m \in Left : \A k \in Left : m <= k
    BY <1>1, LeastNumber
<1>3. m \in Nat /\ m # 0 /\ m \notin S
    BY <1>2
<1>4. m - 1 \in Nat /\ m = (m - 1) + 1 /\ ~(m <= m - 1)
    BY <1>3
<1>5. m - 1 \in S
    BY <1>2, <1>4
<1>6. (m - 1) + 1 \in S
    BY <1>4, <1>5
<1> QED BY <1>3, <1>4, <1>6

---------------------------------------------------------------------------
(* Cells, in the order in which they are made                              *)

Rank == CHOOSE rank \in [Cell -> 0..Cardinality(Derived)] :
            \A c \in Derived : \A d \in ToSet(Reads[c]) : rank[d] < rank[c]

(* What a producer reads ranks below what it makes (refresh follows the     *)
(* read-sets down and comes to an end).                                     *)
LEMMA RankIs ==
    /\ Rank \in [Cell -> 0..Cardinality(Derived)] /\ Cardinality(Derived) \in Nat
    /\ \A c \in Derived : \A d \in ToSet(Reads[c]) : d \in Cell /\ Rank[d] < Rank[c]
<1>1. /\ Rank \in [Cell -> 0..Cardinality(Derived)]
      /\ \A c \in Derived : \A d \in ToSet(Reads[c]) : Rank[d] < Rank[c]
    BY ResolveAssumption, Zenon DEF Rank
<1>2. Cardinality(Derived) \in Nat
    BY ResolveAssumption, FS_CardinalityType
<1>3. ASSUME NEW c \in Derived, NEW d \in ToSet(Reads[c]) PROVE d \in Cell
  <2>1. Reads[c] \in Seq(Cell)
        BY ResolveAssumption
  <2> QED BY <2>1 DEF ToSet
<1> QED BY <1>1, <1>2, <1>3

(* Whatever passes from what is read to what is made of it holds of every   *)
(* cell.                                                                    *)
LEMMA EveryCell ==
    ASSUME NEW S, \A c \in Cell : (c \in Derived => ToSet(Reads[c]) \subseteq S) => c \in S
    PROVE  Cell \subseteq S
<1> SUFFICES ASSUME Cell \ S # {} PROVE FALSE
    OBVIOUS
<1> DEFINE Left == {Rank[c] : c \in Cell \ S}
<1>0. \A c \in Cell : Rank[c] \in Nat
    BY RankIs
<1>1. Left \subseteq Nat /\ Left # {}
    BY <1>0
<1>2. PICK m \in Left : \A k \in Left : m <= k
    BY <1>1, LeastNumber
<1>3. PICK c \in Cell \ S : m = Rank[c]
    OBVIOUS
<1>4. ASSUME c \in Derived, NEW d \in ToSet(Reads[c]), d \notin S PROVE FALSE
  <2>1. d \in Cell /\ Rank[d] < Rank[c]
        BY <1>4, RankIs
  <2>2. Rank[d] \in Left
        BY <1>4, <2>1
  <2>3. Rank[c] <= Rank[d]
        BY <1>2, <1>3, <2>2
  <2> QED BY <1>0, <2>1, <2>3
<1> QED BY <1>3, <1>4

\* The cells below a rank.
Under(k) == {c \in Cell : Rank[c] < k}

(* What a producer reads lies under the rank of what it makes.              *)
LEMMA UnderIs ==
    /\ Under(0) = {} /\ Under(Cardinality(Derived) + 1) = Cell
    /\ \A k \in Nat : Under(k) \subseteq Under(k + 1)
    /\ \A k \in Nat : \A c \in Under(k + 1) \cap Derived : ToSet(Reads[c]) \subseteq Under(k)
<1>1. \A c \in Cell : Rank[c] \in 0..Cardinality(Derived)
    BY RankIs
<1>2. ASSUME NEW k \in Nat, NEW c \in Under(k + 1) \cap Derived, NEW d \in ToSet(Reads[c])
      PROVE  d \in Under(k)
  <2>1. d \in Cell /\ Rank[d] < Rank[c] /\ Rank[c] < k + 1 /\ c \in Cell
        BY RankIs DEF Under
  <2> QED BY <1>1, <2>1, RankIs DEF Under
<1>3. Under(0) = {} /\ Under(Cardinality(Derived) + 1) = Cell
    BY <1>1, RankIs DEF Under
<1>4. \A k \in Nat : Under(k) \subseteq Under(k + 1)
    BY <1>1, RankIs DEF Under
<1> QED BY <1>2, <1>3, <1>4

\* One step of Composed, given what f says of the cells that are read.
ComposedOf(f, world, made, c) ==
    IF c \in made THEN [n \in DOMAIN Reads[c] |-> f[Reads[c][n]]] ELSE world[c]

(* A world can be composed to the end.                                      *)
LEMMA CompositionEnds ==
    ASSUME NEW world, NEW made, made \subseteq Derived
    PROVE  \E f : f = [c \in Cell |-> ComposedOf(f, world, made, c)]
<1> DEFINE Far == {k \in Nat : \E f : f = [c \in Under(k) |-> ComposedOf(f, world, made, c)]}
<1>1. 0 \in Far
  <2> DEFINE f == [c \in Under(0) |-> 0]
  <2>1. \A c \in Under(0) : f[c] = ComposedOf(f, world, made, c)
        BY UnderIs
  <2>2. f = [c \in Under(0) |-> ComposedOf(f, world, made, c)]
        BY <2>1
  <2> QED BY <2>2
<1>2. ASSUME NEW k \in Nat, k \in Far PROVE k + 1 \in Far
  <2>1. PICK f : f = [c \in Under(k) |-> ComposedOf(f, world, made, c)]
        BY <1>2
  <2> DEFINE g == [c \in Under(k + 1) |-> ComposedOf(f, world, made, c)]
  <2>2. \A c \in Under(k) : f[c] = ComposedOf(f, world, made, c)
    <3> DEFINE h == [c \in Under(k) |-> ComposedOf(f, world, made, c)]
    <3>1. \A c \in Under(k) : h[c] = ComposedOf(f, world, made, c)
          OBVIOUS
    <3>2. f = h
          BY <2>1
    <3> HIDE DEF h
    <3> QED BY <3>1, <3>2, Zenon
  <2>3. \A c \in Under(k + 1) : g[c] = ComposedOf(f, world, made, c)
        OBVIOUS
  <2>4. g = [c \in Under(k + 1) |-> ComposedOf(f, world, made, c)]
        OBVIOUS
  <2> HIDE DEF g
  <2>5. \A c \in Under(k) : f[c] = g[c]
        BY <2>2, <2>3, UnderIs
  <2>6. ASSUME NEW c \in Under(k + 1)
        PROVE  ComposedOf(f, world, made, c) = ComposedOf(g, world, made, c)
    <3>1. CASE c \in made
      <4>1. \A n \in DOMAIN Reads[c] : Reads[c][n] \in Under(k)
            BY <3>1, UnderIs DEF ToSet
      <4> QED BY <2>5, <4>1, <3>1 DEF ComposedOf
    <3>2. CASE c \notin made
          BY <3>2 DEF ComposedOf
    <3> QED BY <3>1, <3>2
  <2>7. g = [c \in Under(k + 1) |-> ComposedOf(g, world, made, c)]
        BY <2>4, <2>6
  <2> QED BY <2>7
<1> HIDE DEF Far
<1>3. Cardinality(Derived) + 1 \in Nat
    BY RankIs
<1>4. Cardinality(Derived) + 1 \in Far
    BY <1>1, <1>2, <1>3, EveryNumber
<1>5. \E f : f = [c \in Under(Cardinality(Derived) + 1) |-> ComposedOf(f, world, made, c)]
    BY <1>4, Zenon DEF Far
<1>6. Under(Cardinality(Derived) + 1) = Cell
    BY UnderIs
<1> QED BY <1>5, <1>6

(* Replay and a round's values are the composition they say they are.       *)
LEMMA ComposedIs ==
    ASSUME NEW world, NEW made, made \subseteq Derived
    PROVE  \A c \in Cell : Composed(world, made)[c]
              = IF c \in made THEN [n \in DOMAIN Reads[c] |-> Composed(world, made)[Reads[c][n]]]
                ELSE world[c]
<1> DEFINE f == CHOOSE f : f = [c \in Cell |-> ComposedOf(f, world, made, c)]
<1>1. Composed(world, made) = f
    BY Zenon DEF Composed, ComposedOf
<1>2. f = [c \in Cell |-> ComposedOf(f, world, made, c)]
    BY CompositionEnds
<1> HIDE DEF f
<1> DEFINE h == [c \in Cell |-> ComposedOf(f, world, made, c)]
<1>3. \A c \in Cell : h[c] = ComposedOf(f, world, made, c)
    OBVIOUS
<1>4. f = h
    BY <1>2
<1> HIDE DEF h
<1>5. \A c \in Cell : f[c] = ComposedOf(f, world, made, c)
    BY <1>3, <1>4, Zenon
<1> QED BY <1>1, <1>5 DEF ComposedOf

\* One step of Spreads, given what f says of the cells that are read.
ReachedOf(f, seed, through, c) ==
    c \in seed \/ (c \in through /\ \E d \in ToSet(Reads[c]) : f[d])


(* What spreads along the reads has an end.                                 *)
LEMMA SpreadEnds ==
    ASSUME NEW seed, NEW through, through \subseteq Derived
    PROVE  \E f : f = [c \in Cell |-> ReachedOf(f, seed, through, c)]
<1> DEFINE Far == {k \in Nat : \E f : f = [c \in Under(k) |-> ReachedOf(f, seed, through, c)]}
<1>1. 0 \in Far
  <2> DEFINE f == [c \in Under(0) |-> 0]
  <2>1. \A c \in Under(0) : f[c] = ReachedOf(f, seed, through, c)
        BY UnderIs
  <2>2. f = [c \in Under(0) |-> ReachedOf(f, seed, through, c)]
        BY <2>1
  <2> QED BY <2>2
<1>2. ASSUME NEW k \in Nat, k \in Far PROVE k + 1 \in Far
  <2>1. PICK f : f = [c \in Under(k) |-> ReachedOf(f, seed, through, c)]
        BY <1>2
  <2> DEFINE g == [c \in Under(k + 1) |-> ReachedOf(f, seed, through, c)]
  <2>2. \A c \in Under(k) : f[c] = ReachedOf(f, seed, through, c)
    <3> DEFINE h == [c \in Under(k) |-> ReachedOf(f, seed, through, c)]
    <3>1. \A c \in Under(k) : h[c] = ReachedOf(f, seed, through, c)
          OBVIOUS
    <3>2. f = h
          BY <2>1
    <3> HIDE DEF h
    <3> QED BY <3>1, <3>2, Zenon
  <2>3. \A c \in Under(k + 1) : g[c] = ReachedOf(f, seed, through, c)
        OBVIOUS
  <2>4. g = [c \in Under(k + 1) |-> ReachedOf(f, seed, through, c)]
        OBVIOUS
  <2> HIDE DEF g
  <2>5. \A c \in Under(k) : f[c] = g[c]
        BY <2>2, <2>3, UnderIs
  <2>6. ASSUME NEW c \in Under(k + 1) PROVE ReachedOf(f, seed, through, c) = ReachedOf(g, seed, through, c)
    <3>1. CASE c \in through
      <4>1. \A d \in ToSet(Reads[c]) : d \in Under(k)
            BY <3>1, UnderIs
      <4>2. \A d \in ToSet(Reads[c]) : f[d] = g[d]
            BY <2>5, <4>1
      <4>3. (\E d \in ToSet(Reads[c]) : f[d]) <=> (\E d \in ToSet(Reads[c]) : g[d])
            BY <4>2
      <4> QED BY <4>3, Zenon DEF ReachedOf
    <3>2. CASE c \notin through
          BY <3>2, Zenon DEF ReachedOf
    <3> QED BY <3>1, <3>2
  <2>7. g = [c \in Under(k + 1) |-> ReachedOf(g, seed, through, c)]
        BY <2>4, <2>6
  <2> QED BY <2>7
<1> HIDE DEF Far
<1>3. Cardinality(Derived) + 1 \in Nat
    BY RankIs
<1>4. Cardinality(Derived) + 1 \in Far
    BY <1>1, <1>2, <1>3, EveryNumber
<1>5. \E f : f = [c \in Under(Cardinality(Derived) + 1) |-> ReachedOf(f, seed, through, c)]
    BY <1>4, Zenon DEF Far
<1>6. Under(Cardinality(Derived) + 1) = Cell
    BY UnderIs
<1> QED BY <1>5, <1>6

(* The cells a round runs, and the runs that fall, are closed along the     *)
(* reads and nothing else (schedule, Round::cascade).                       *)
LEMMA SpreadsIs ==
    ASSUME NEW seed, NEW through, through \subseteq Derived
    PROVE  \A c \in Cell : c \in Spreads(seed, through) <=>
              c \in seed \/ (c \in through /\ \E d \in ToSet(Reads[c]) : d \in Spreads(seed, through))
<1> DEFINE f == CHOOSE f : f = [c \in Cell |-> ReachedOf(f, seed, through, c)]
<1>1. Spreads(seed, through) = {c \in Cell : f[c]}
    BY Zenon DEF Spreads, ReachedOf
<1>2. f = [c \in Cell |-> ReachedOf(f, seed, through, c)]
    BY SpreadEnds
<1> HIDE DEF f
<1> DEFINE h == [c \in Cell |-> ReachedOf(f, seed, through, c)]
<1>3. \A c \in Cell : h[c] = ReachedOf(f, seed, through, c)
    OBVIOUS
<1>4. f = h
    BY <1>2
<1> HIDE DEF h
<1>5. \A c \in Cell : f[c] = ReachedOf(f, seed, through, c)
    BY <1>3, <1>4, Zenon
<1>6. ASSUME NEW c \in Cell
      PROVE  c \in Spreads(seed, through) <=>
                c \in seed \/ (c \in through /\ \E d \in ToSet(Reads[c]) : d \in Spreads(seed, through))
  <2>1. c \in Spreads(seed, through) <=> f[c]
        BY <1>1
  <2>2. f[c] = (c \in seed \/ (c \in through /\ \E d \in ToSet(Reads[c]) : f[d]))
        BY <1>5 DEF ReachedOf
  <2>3. c \in through => \A d \in ToSet(Reads[c]) : d \in Spreads(seed, through) <=> f[d]
    <3>1. c \in through => \A d \in ToSet(Reads[c]) : d \in Cell
          BY RankIs
    <3> QED BY <1>1, <3>1
  <2> QED BY <2>1, <2>2, <2>3, Zenon
<1> QED BY <1>6

(* Values tell their history: whatever two worlds that agree on the source  *)
(* cells imply of two others, they imply of all that is made of them.       *)
LEMMA Follows ==
    ASSUME NEW A, NEW B, NEW A2, NEW B2,
           \A s \in Source : A[s] = B[s] => A2[s] = B2[s]
    PROVE  \A c \in Cell : Composed(A, Derived)[c] = Composed(B, Derived)[c]
                             => Composed(A2, Derived)[c] = Composed(B2, Derived)[c]
<1> DEFINE Good == {c \in Cell : Composed(A, Derived)[c] = Composed(B, Derived)[c]
                                   => Composed(A2, Derived)[c] = Composed(B2, Derived)[c]}
           Made(w, c) == [n \in DOMAIN Reads[c] |-> Composed(w, Derived)[Reads[c][n]]]
<1>1. \A w : \A c \in Derived : Composed(w, Derived)[c] = Made(w, c)
    BY ComposedIs DEF Cell
<1>2. \A w : \A c \in Source : Composed(w, Derived)[c] = w[c]
    BY ZenonT(60), ComposedIs, ResolveAssumption DEF Cell
<1>3. ASSUME NEW c \in Cell, c \in Derived => ToSet(Reads[c]) \subseteq Good
      PROVE  c \in Good
  <2>1. CASE c \in Source
        BY <1>2, <2>1 DEF Cell
  <2>2. CASE c \in Derived
    <3>a. /\ Composed(A, Derived)[c] = Made(A, c) /\ Composed(B, Derived)[c] = Made(B, c)
          /\ Composed(A2, Derived)[c] = Made(A2, c) /\ Composed(B2, Derived)[c] = Made(B2, c)
          BY <1>1, <2>2, Zenon
    <3> SUFFICES ASSUME Made(A, c) = Made(B, c) PROVE Made(A2, c) = Made(B2, c)
        BY <3>a
    <3>1. ASSUME NEW n \in DOMAIN Reads[c]
          PROVE  Composed(A2, Derived)[Reads[c][n]] = Composed(B2, Derived)[Reads[c][n]]
      <4>1. Reads[c][n] \in Good
            BY <1>3, <2>2 DEF ToSet
      <4>2. Made(A, c)[n] = Made(B, c)[n]
            OBVIOUS
      <4>3. Composed(A, Derived)[Reads[c][n]] = Composed(B, Derived)[Reads[c][n]]
            BY <4>2
      <4> QED BY <4>1, <4>3
    <3> QED BY <3>1
  <2> QED BY <2>1, <2>2 DEF Cell
<1> HIDE DEF Good
<1>4. Cell \subseteq Good
    BY <1>3, EveryCell
<1> QED BY <1>4 DEF Good

(* Worlds that agree on the source cells have one replay.                   *)
LEMMA SameReplay ==
    ASSUME NEW A, NEW B, \A s \in Source : A[s] = B[s]
    PROVE  \A c \in Cell : Composed(A, Derived)[c] = Composed(B, Derived)[c]
<1>1. \A s \in Source : A[s] = A[s] => A[s] = B[s]
    OBVIOUS
<1>2. \A c \in Cell : Composed(A, Derived)[c] = Composed(A, Derived)[c]
                         => Composed(A, Derived)[c] = Composed(B, Derived)[c]
    BY <1>1, Follows
<1> QED BY <1>2

---------------------------------------------------------------------------
(* Validation                                                              *)

\* The records on the path of a ceiling name what their producer reads.
ReadsKept(ceiling) ==
    \A c \in Derived : ~Absent(c, ceiling) => Found(c, ceiling).reads = Reads[c]

\* One step of validate, given what f says of the dependencies.
BoundOf(f, ceiling, c) ==
    IF c \in Source \/ Absent(c, ceiling) THEN ceiling
    ELSE LET d == Found(c, ceiling)
         IN IF Moved(d, ceiling) THEN d.fresh
            ELSE LeastOf({ceiling} \cup {f[e] : e \in There(d, ceiling)})


(* The walk of validate comes to an end.                                    *)
LEMMA ValidationEnds ==
    ASSUME NEW ceiling, ReadsKept(ceiling)
    PROVE  \E f : f = [c \in Cell |-> BoundOf(f, ceiling, c)]
<1> DEFINE Far == {k \in Nat : \E f : f = [c \in Under(k) |-> BoundOf(f, ceiling, c)]}
<1>1. 0 \in Far
  <2> DEFINE f == [c \in Under(0) |-> 0]
  <2>1. \A c \in Under(0) : f[c] = BoundOf(f, ceiling, c)
        BY UnderIs
  <2>2. f = [c \in Under(0) |-> BoundOf(f, ceiling, c)]
        BY <2>1
  <2> QED BY <2>2
<1>2. ASSUME NEW k \in Nat, k \in Far PROVE k + 1 \in Far
  <2>1. PICK f : f = [c \in Under(k) |-> BoundOf(f, ceiling, c)]
        BY <1>2
  <2> DEFINE g == [c \in Under(k + 1) |-> BoundOf(f, ceiling, c)]
  <2>2. \A c \in Under(k) : f[c] = BoundOf(f, ceiling, c)
    <3> DEFINE h == [c \in Under(k) |-> BoundOf(f, ceiling, c)]
    <3>1. \A c \in Under(k) : h[c] = BoundOf(f, ceiling, c)
          OBVIOUS
    <3>2. f = h
          BY <2>1
    <3> HIDE DEF h
    <3> QED BY <3>1, <3>2, Zenon
  <2>3. \A c \in Under(k + 1) : g[c] = BoundOf(f, ceiling, c)
        OBVIOUS
  <2>4. g = [c \in Under(k + 1) |-> BoundOf(f, ceiling, c)]
        OBVIOUS
  <2> HIDE DEF g
  <2>5. \A c \in Under(k) : f[c] = g[c]
        BY <2>2, <2>3, UnderIs
  <2>6. ASSUME NEW c \in Under(k + 1) PROVE BoundOf(f, ceiling, c) = BoundOf(g, ceiling, c)
    <3>1. CASE c \in Derived /\ ~Absent(c, ceiling)
      <4>1. \A e \in There(Found(c, ceiling), ceiling) : e \in Under(k)
            BY <3>1, UnderIs DEF ReadsKept, There
      <4>2. \A e \in There(Found(c, ceiling), ceiling) : f[e] = g[e]
            BY <2>5, <4>1
      <4>3. {f[e] : e \in There(Found(c, ceiling), ceiling)}
              = {g[e] : e \in There(Found(c, ceiling), ceiling)}
            BY <4>2
      <4> QED BY <4>3 DEF BoundOf
    <3>2. CASE ~(c \in Derived /\ ~Absent(c, ceiling))
      <4>1. c \in Source \/ Absent(c, ceiling)
            BY <3>2 DEF Under, Cell
      <4> QED BY <4>1 DEF BoundOf
    <3> QED BY <3>1, <3>2
  <2>7. g = [c \in Under(k + 1) |-> BoundOf(g, ceiling, c)]
        BY <2>4, <2>6
  <2> QED BY <2>7
<1> HIDE DEF Far
<1>3. Cardinality(Derived) + 1 \in Nat
    BY RankIs
<1>4. Cardinality(Derived) + 1 \in Far
    BY <1>1, <1>2, <1>3, EveryNumber
<1>5. \E f : f = [c \in Under(Cardinality(Derived) + 1) |-> BoundOf(f, ceiling, c)]
    BY <1>4, Zenon DEF Far
<1>6. Under(Cardinality(Derived) + 1) = Cell
    BY UnderIs
<1> QED BY <1>5, <1>6

(* The least of some numbers is one of them, and no other is below it.      *)
LEMMA LeastIs ==
    ASSUME NEW S, S \subseteq Nat, S # {}
    PROVE  LeastOf(S) \in S /\ \A n \in S : LeastOf(S) <= n
<1>1. \E n \in S : \A m \in S : n <= m
    BY LeastNumber
<1> QED BY <1>1, Zenon DEF LeastOf

(* What validate answers: a number, and it is the ceiling exactly if nothing *)
(* the record was made of has moved, and each of that holds at the ceiling   *)
(* too.                                                                      *)
LEMMA ValidatedIs ==
    ASSUME NEW ceiling \in Nat, ReadsKept(ceiling),
           \A c \in Derived : ~Absent(c, ceiling) => Found(c, ceiling).fresh \in Nat
    PROVE  \E f \in [Cell -> Nat] :
              /\ \A c \in Derived : ~Absent(c, ceiling) /\ f[c] >= ceiling =>
                    \/ Found(c, ceiling).fresh >= ceiling
                    \/ /\ ~Moved(Found(c, ceiling), ceiling)
                       /\ \A e \in There(Found(c, ceiling), ceiling) : f[e] >= ceiling
              /\ \A c \in Derived : ~Absent(c, ceiling)
                    => Validated(Found(c, ceiling), ceiling) = f[c]
              /\ \A c \in Cell : c \in Source \/ Absent(c, ceiling) => f[c] = ceiling
              /\ \A c \in Derived : /\ ~Absent(c, ceiling) /\ ~Moved(Found(c, ceiling), ceiling)
                                    /\ \A e \in There(Found(c, ceiling), ceiling) : f[e] >= ceiling
                    => f[c] >= ceiling
<1> DEFINE f == CHOOSE f : f = [c \in Cell |-> BoundOf(f, ceiling, c)]
           Deps(c) == There(Found(c, ceiling), ceiling)
<1>1. \A c : Validated(Found(c, ceiling), ceiling)
         = IF Moved(Found(c, ceiling), ceiling) THEN Found(c, ceiling).fresh
           ELSE LeastOf({ceiling} \cup {f[e] : e \in Deps(c)})
    BY Zenon DEF Validated, BoundOf
<1>2. f = [c \in Cell |-> BoundOf(f, ceiling, c)]
    BY ValidationEnds
<1> HIDE DEF f
<1> DEFINE h == [c \in Cell |-> BoundOf(f, ceiling, c)]
<1>3. \A c \in Cell : h[c] = BoundOf(f, ceiling, c)
    OBVIOUS
<1>4. f = h
    BY <1>2
<1> HIDE DEF h
<1>5. \A c \in Cell : f[c] = BoundOf(f, ceiling, c)
    BY <1>3, <1>4, Zenon
<1>6. f = [c \in Cell |-> f[c]]
    BY <1>2
<1> HIDE DEF Deps
<1>7. ASSUME NEW c \in Derived, ~Absent(c, ceiling)
      PROVE  f[c] = IF Moved(Found(c, ceiling), ceiling) THEN Found(c, ceiling).fresh
                    ELSE LeastOf({ceiling} \cup {f[e] : e \in Deps(c)})
    BY <1>5, <1>7, ResolveAssumption DEF BoundOf, Cell, Deps
<1>8. ASSUME NEW c \in Cell, ~(c \in Derived /\ ~Absent(c, ceiling))
      PROVE  f[c] = ceiling
    BY <1>5, <1>8 DEF BoundOf, Cell
<1>9. \A c \in Derived : ~Absent(c, ceiling) => Deps(c) \subseteq ToSet(Reads[c])
    BY DEF Deps, There, ReadsKept
<1>10. \A c \in Cell : f[c] \in Nat
  <2> DEFINE Good == {c \in Cell : f[c] \in Nat}
  <2>1. ASSUME NEW c \in Cell, c \in Derived => ToSet(Reads[c]) \subseteq Good
        PROVE  c \in Good
    <3>1. CASE c \in Derived /\ ~Absent(c, ceiling)
      <4>1. \A e \in Deps(c) : f[e] \in Nat
            BY <1>9, <2>1, <3>1
      <4> DEFINE S == {ceiling} \cup {f[e] : e \in Deps(c)}
      <4>2. S \subseteq Nat /\ S # {}
            BY <4>1
      <4> HIDE DEF S
      <4>3. LeastOf(S) \in Nat
            BY <4>2, LeastIs
      <4>4. f[c] = IF Moved(Found(c, ceiling), ceiling) THEN Found(c, ceiling).fresh ELSE LeastOf(S)
            BY <1>7, <3>1 DEF S
      <4> QED BY <3>1, <4>3, <4>4
    <3>2. CASE ~(c \in Derived /\ ~Absent(c, ceiling))
          BY <1>8, <3>2
    <3> QED BY <3>1, <3>2
  <2> HIDE DEF Good
  <2>2. Cell \subseteq Good
        BY <2>1, EveryCell
  <2> QED BY <2>2 DEF Good
<1>11. f \in [Cell -> Nat]
    BY <1>6, <1>10
<1>12. ASSUME NEW c \in Derived, ~Absent(c, ceiling), f[c] >= ceiling,
              ~(Found(c, ceiling).fresh >= ceiling)
       PROVE  ~Moved(Found(c, ceiling), ceiling) /\ \A e \in Deps(c) : f[e] >= ceiling
  <2>1. ~Moved(Found(c, ceiling), ceiling)
        BY <1>7, <1>12
  <2>2. \A e \in Deps(c) : e \in Cell
        BY <1>9, <1>12, RankIs
  <2> DEFINE S == {ceiling} \cup {f[e] : e \in Deps(c)}
  <2>3. S \subseteq Nat /\ S # {}
        BY <1>10, <2>2
  <2>4. \A e \in Deps(c) : f[e] \in S
        OBVIOUS
  <2>5. f[c] = LeastOf(S)
        BY <1>7, <1>12, <2>1
  <2> HIDE DEF S
  <2>6. LeastOf(S) \in Nat /\ \A n \in S : LeastOf(S) <= n
        BY <2>3, LeastIs
  <2>7. \A e \in Deps(c) : f[e] \in Nat /\ LeastOf(S) <= f[e]
        BY <1>10, <2>2, <2>4, <2>6
  <2>8. \A e \in Deps(c) : f[e] >= ceiling
        BY <1>12, <2>5, <2>6, <2>7
  <2> QED BY <2>1, <2>8
<1>13. \A c \in Derived : ~Absent(c, ceiling) => Validated(Found(c, ceiling), ceiling) = f[c]
    BY <1>1, <1>7
<1>14. \A c \in Cell : c \in Source \/ Absent(c, ceiling) => f[c] = ceiling
    BY <1>8, ResolveAssumption
<1>15. ASSUME NEW c \in Derived, ~Absent(c, ceiling), ~Moved(Found(c, ceiling), ceiling),
              \A e \in Deps(c) : f[e] >= ceiling
       PROVE  f[c] >= ceiling
  <2>1. \A e \in Deps(c) : e \in Cell
        BY <1>9, <1>15, RankIs
  <2> DEFINE S == {ceiling} \cup {f[e] : e \in Deps(c)}
  <2>2. S \subseteq Nat /\ S # {} /\ \A n \in S : n >= ceiling
        BY <1>10, <1>15, <2>1
  <2>3. f[c] = LeastOf(S)
        BY <1>7, <1>15
  <2> HIDE DEF S
  <2>4. LeastOf(S) \in S
        BY <2>2, LeastIs
  <2> QED BY <2>2, <2>3, <2>4
<1> QED BY <1>11, <1>12, <1>13, <1>14, <1>15 DEF Deps

---------------------------------------------------------------------------
(* The plan of a refresh                                                   *)

\* A sequence of cells there are, each after those of them it was made of.
InOrder(s, P) ==
    /\ s \in Seq(P)
    /\ \A k \in 1..Len(s) : \A e \in ToSet(Reads[s[k]]) \cap P : \E j \in 1..(k - 1) : s[j] = e

(* One plan after the other is a plan.                                      *)
LEMMA PlansJoin ==
    ASSUME NEW P, NEW s, NEW t, InOrder(s, P), InOrder(t, P)
    PROVE  InOrder(s \o t, P) /\ ToSet(s) \subseteq ToSet(s \o t) /\ ToSet(t) \subseteq ToSet(s \o t)
<1>1. /\ s \in Seq(P) /\ t \in Seq(P) /\ s \o t \in Seq(P) /\ Len(s) \in Nat /\ Len(t) \in Nat
      /\ Len(s \o t) = Len(s) + Len(t)
      /\ \A k \in 1..Len(s) : (s \o t)[k] = s[k]
      /\ \A k \in 1..Len(t) : (s \o t)[Len(s) + k] = t[k]
    BY DEF InOrder
<1> DEFINE u == s \o t
<1>2. /\ u \in Seq(P) /\ Len(u) = Len(s) + Len(t)
      /\ \A k \in 1..Len(s) : u[k] = s[k]
      /\ \A k \in 1..Len(t) : u[Len(s) + k] = t[k]
    BY <1>1
<1> HIDE DEF u
<1>3. ASSUME NEW k \in 1..Len(u), NEW e \in ToSet(Reads[u[k]]) \cap P
      PROVE  \E j \in 1..(k - 1) : u[j] = e
  <2>1. CASE k <= Len(s)
    <3>1. k \in 1..Len(s) /\ u[k] = s[k]
          BY <1>1, <1>2, <2>1
    <3>2. PICK j \in 1..(k - 1) : s[j] = e
          BY <1>3, <3>1 DEF InOrder
    <3>3. j \in 1..Len(s)
          BY <1>1, <3>1
    <3> QED BY <1>2, <3>2, <3>3
  <2>2. CASE ~(k <= Len(s))
    <3>1. PICK n : n = k - Len(s)
          OBVIOUS
    <3>2. n \in 1..Len(t) /\ k = Len(s) + n
          BY <1>1, <1>2, <2>2, <3>1
    <3>3. u[k] = t[n]
          BY <1>2, <3>2
    <3>4. PICK j \in 1..(n - 1) : t[j] = e
          BY <1>3, <3>2, <3>3 DEF InOrder
    <3>5. j \in 1..Len(t) /\ Len(s) + j \in 1..(k - 1)
          BY <1>1, <3>2
    <3>6. u[Len(s) + j] = e
          BY <1>2, <3>4, <3>5
    <3> QED BY <3>5, <3>6
  <2> QED BY <2>1, <2>2
<1>4. ToSet(s) \subseteq ToSet(u) /\ ToSet(t) \subseteq ToSet(u)
  <2>1. DOMAIN s = 1..Len(s) /\ DOMAIN t = 1..Len(t) /\ DOMAIN u = 1..Len(u)
        BY <1>1, <1>2
  <2>2. \A k \in 1..Len(s) : k \in 1..Len(u)
        BY <1>1, <1>2
  <2>3. \A k \in 1..Len(t) : Len(s) + k \in 1..Len(u)
        BY <1>1, <1>2
  <2> QED BY <1>2, <2>1, <2>2, <2>3 DEF ToSet
<1>5. InOrder(u, P)
    BY <1>2, <1>3 DEF InOrder
<1> QED BY <1>4, <1>5 DEF u

\* One step of FlattenSeq, given what f says of fewer sequences.
FlattenOf(f, s, i) == IF i = 1 THEN s[i] ELSE f[i - 1] \o s[i]

(* Any number of plans can be joined.                                       *)
LEMMA FlattenEnds ==
    ASSUME NEW n \in Nat, NEW s
    PROVE  \E f : f = [i \in 1..n |-> FlattenOf(f, s, i)]
<1> DEFINE Far == {k \in Nat : \E f : f = [i \in 1..k |-> FlattenOf(f, s, i)]}
<1>1. 0 \in Far
  <2> DEFINE f == [i \in 1..0 |-> 0]
  <2>1. \A i \in 1..0 : f[i] = FlattenOf(f, s, i)
        OBVIOUS
  <2>2. f = [i \in 1..0 |-> FlattenOf(f, s, i)]
        BY <2>1
  <2> QED BY <2>2
<1>2. ASSUME NEW k \in Nat, k \in Far PROVE k + 1 \in Far
  <2>1. PICK f : f = [i \in 1..k |-> FlattenOf(f, s, i)]
        BY <1>2
  <2> DEFINE g == [i \in 1..(k + 1) |-> FlattenOf(f, s, i)]
  <2>2. \A i \in 1..k : f[i] = FlattenOf(f, s, i)
    <3> DEFINE h == [i \in 1..k |-> FlattenOf(f, s, i)]
    <3>1. \A i \in 1..k : h[i] = FlattenOf(f, s, i)
          OBVIOUS
    <3>2. f = h
          BY <2>1
    <3> HIDE DEF h
    <3> QED BY <3>1, <3>2, Zenon
  <2>3. \A i \in 1..(k + 1) : g[i] = FlattenOf(f, s, i)
        OBVIOUS
  <2>4. g = [i \in 1..(k + 1) |-> FlattenOf(f, s, i)]
        OBVIOUS
  <2> HIDE DEF g
  <2>5. \A i \in 1..k : f[i] = g[i]
    <3>1. \A i \in 1..k : i \in 1..(k + 1)
          OBVIOUS
    <3> QED BY <2>2, <2>3, <3>1
  <2>6. ASSUME NEW i \in 1..(k + 1) PROVE FlattenOf(f, s, i) = FlattenOf(g, s, i)
    <3>1. i # 1 => i - 1 \in 1..k
          OBVIOUS
    <3>2. i # 1 => f[i - 1] = g[i - 1]
          BY <2>5, <3>1
    <3> QED BY <3>2, Zenon DEF FlattenOf
  <2>7. g = [i \in 1..(k + 1) |-> FlattenOf(g, s, i)]
        BY <2>4, <2>6
  <2> QED BY <2>7
<1> HIDE DEF Far
<1>3. n \in Far
    BY <1>1, <1>2, EveryNumber
<1> QED BY <1>3 DEF Far

(* Plans joined one after the other are a plan, of all of them.             *)
LEMMA FlattenIs ==
    ASSUME NEW P, NEW s, NEW n \in Nat, DOMAIN s = 1..n, s \in Seq(Seq(P)),
           \A i \in 1..n : InOrder(s[i], P)
    PROVE  /\ InOrder(FlattenSeq(s), P)
           /\ \A i \in 1..n : ToSet(s[i]) \subseteq ToSet(FlattenSeq(s))
<1> DEFINE f == CHOOSE f : f = [i \in 1..Len(s) |-> FlattenOf(f, s, i)]
<1>0. Len(s) = n
    OBVIOUS
<1>1. FlattenSeq(s) = IF Len(s) = 0 THEN s ELSE f[Len(s)]
    BY Zenon DEF FlattenSeq, FlattenOf
<1>a. \E g : g = [i \in 1..n |-> FlattenOf(g, s, i)]
    BY FlattenEnds
<1>b. \E g : g = [i \in 1..Len(s) |-> FlattenOf(g, s, i)]
    BY <1>0, <1>a
<1>2. f = [i \in 1..Len(s) |-> FlattenOf(f, s, i)]
    BY <1>b, Zenon
<1> HIDE DEF f
<1> DEFINE h == [i \in 1..Len(s) |-> FlattenOf(f, s, i)]
<1>3. \A i \in 1..n : h[i] = FlattenOf(f, s, i)
    BY <1>0
<1>4. f = h
    BY <1>2
<1> HIDE DEF h
<1>5. \A i \in 1..n : f[i] = FlattenOf(f, s, i)
    BY <1>3, <1>4, Zenon
<1> DEFINE Right(k) == InOrder(f[k], P) /\ \A i \in 1..k : ToSet(s[i]) \subseteq ToSet(f[k])
           Far == {k \in Nat : k + 1 <= n => Right(k + 1)}
<1>6. 0 \in Far
  <2> SUFFICES ASSUME 1 <= n PROVE Right(1)
      OBVIOUS
  <2>1. 1 \in 1..n /\ 1..1 = {1}
        OBVIOUS
  <2>2. f[1] = s[1]
        BY <1>5, <2>1 DEF FlattenOf
  <2> QED BY <2>1, <2>2
<1>7. ASSUME NEW k \in Nat, k \in Far PROVE k + 1 \in Far
  <2> SUFFICES ASSUME (k + 1) + 1 <= n PROVE Right((k + 1) + 1)
      OBVIOUS
  <2>1. PICK m : m = (k + 1) + 1
        OBVIOUS
  <2>2. m \in 1..n /\ m # 1 /\ m - 1 = k + 1 /\ k + 1 <= n /\ 1..m = (1..(k + 1)) \cup {m}
        BY <2>1
  <2>3. f[m] = f[k + 1] \o s[m]
        BY <1>5, <2>2 DEF FlattenOf
  <2>4. Right(k + 1)
        BY <1>7, <2>2
  <2>5. InOrder(s[m], P)
        BY <2>2
  <2>6. InOrder(f[m], P) /\ ToSet(f[k + 1]) \subseteq ToSet(f[m]) /\ ToSet(s[m]) \subseteq ToSet(f[m])
        BY <2>3, <2>4, <2>5, PlansJoin
  <2>7. \A i \in 1..m : ToSet(s[i]) \subseteq ToSet(f[m])
        BY <2>2, <2>4, <2>6
  <2> QED BY <2>1, <2>6, <2>7
<1> HIDE DEF Right
<1>8. CASE n = 0
  <2>1. FlattenSeq(s) = s /\ s = <<>>
        BY <1>0, <1>1, <1>8
  <2>2. s \in Seq(P) /\ 1..Len(s) = {}
        BY <1>0, <1>8, <2>1
  <2> QED BY <1>8, <2>1, <2>2 DEF InOrder
<1>9. CASE n # 0
  <2> HIDE DEF Far
  <2>1. Nat \subseteq Far
        BY <1>6, <1>7, EveryNumber
  <2>2. n - 1 \in Nat /\ (n - 1) + 1 = n
        BY <1>9
  <2>3. n - 1 \in Far
        BY <2>1, <2>2
  <2>4. Right(n)
        BY <2>2, <2>3 DEF Far
  <2> QED BY <1>0, <1>1, <1>9, <2>4 DEF Right
<1> QED BY <1>8, <1>9

\* The cells with a producer that have a value now.
Present == {c \in Derived : ~Absent(c, Top)}

\* One step of refresh, given what f says of the cells that are read.
PlanOf(f, present, c) ==
    IF c \notin present THEN <<>>
    ELSE FlattenSeq([n \in DOMAIN Reads[c] |-> f[Reads[c][n]]]) \o <<c>>


(* The walk of refresh comes to an end.                                     *)
LEMMA PlanEnds ==
    ASSUME NEW present, present \subseteq Derived
    PROVE  \E f : f = [c \in Cell |-> PlanOf(f, present, c)]
<1> DEFINE Far == {k \in Nat : \E f : f = [c \in Under(k) |-> PlanOf(f, present, c)]}
<1>1. 0 \in Far
  <2> DEFINE f == [c \in Under(0) |-> 0]
  <2>1. \A c \in Under(0) : f[c] = PlanOf(f, present, c)
        BY UnderIs
  <2>2. f = [c \in Under(0) |-> PlanOf(f, present, c)]
        BY <2>1
  <2> QED BY <2>2
<1>2. ASSUME NEW k \in Nat, k \in Far PROVE k + 1 \in Far
  <2>1. PICK f : f = [c \in Under(k) |-> PlanOf(f, present, c)]
        BY <1>2
  <2> DEFINE g == [c \in Under(k + 1) |-> PlanOf(f, present, c)]
  <2>2. \A c \in Under(k) : f[c] = PlanOf(f, present, c)
    <3> DEFINE h == [c \in Under(k) |-> PlanOf(f, present, c)]
    <3>1. \A c \in Under(k) : h[c] = PlanOf(f, present, c)
          OBVIOUS
    <3>2. f = h
          BY <2>1
    <3> HIDE DEF h
    <3> QED BY <3>1, <3>2, Zenon
  <2>3. \A c \in Under(k + 1) : g[c] = PlanOf(f, present, c)
        OBVIOUS
  <2>4. g = [c \in Under(k + 1) |-> PlanOf(f, present, c)]
        OBVIOUS
  <2> HIDE DEF g
  <2>5. \A c \in Under(k) : f[c] = g[c]
        BY <2>2, <2>3, UnderIs
  <2>6. ASSUME NEW c \in Under(k + 1) PROVE PlanOf(f, present, c) = PlanOf(g, present, c)
    <3>1. CASE c \in present
      <4>1. \A n \in DOMAIN Reads[c] : Reads[c][n] \in Under(k)
            BY <3>1, UnderIs DEF ToSet
      <4>2. [n \in DOMAIN Reads[c] |-> f[Reads[c][n]]] = [n \in DOMAIN Reads[c] |-> g[Reads[c][n]]]
            BY <2>5, <4>1
      <4> QED BY <4>2, Zenon DEF PlanOf
    <3>2. CASE c \notin present
          BY <3>2, Zenon DEF PlanOf
    <3> QED BY <3>1, <3>2
  <2>7. g = [c \in Under(k + 1) |-> PlanOf(g, present, c)]
        BY <2>4, <2>6
  <2> QED BY <2>7
<1> HIDE DEF Far
<1>3. Cardinality(Derived) + 1 \in Nat
    BY RankIs
<1>4. Cardinality(Derived) + 1 \in Far
    BY <1>1, <1>2, <1>3, EveryNumber
<1>5. \E f : f = [c \in Under(Cardinality(Derived) + 1) |-> PlanOf(f, present, c)]
    BY <1>4, Zenon DEF Far
<1>6. Under(Cardinality(Derived) + 1) = Cell
    BY UnderIs
<1> QED BY <1>5, <1>6

\* Nothing twice.
Distinct(s) == \A j \in 1..Len(s) : \A k \in 1..Len(s) : s[j] = s[k] => j = k

(* A plan to which a cell is added that was made of what is in it.          *)
LEMMA PlanGrows ==
    ASSUME NEW P, NEW t, InOrder(t, P), NEW d \in P, \A e \in ToSet(Reads[d]) \cap P : e \in ToSet(t)
    PROVE  /\ InOrder(Append(t, d), P) /\ ToSet(Append(t, d)) = ToSet(t) \cup {d}
           /\ Distinct(t) /\ d \notin ToSet(t) => Distinct(Append(t, d))
<1>1. PICK u : u = Append(t, d)
    OBVIOUS
<1>2. /\ t \in Seq(P) /\ Len(t) \in Nat /\ DOMAIN t = 1..Len(t)
      /\ u \in Seq(P) /\ Len(u) = Len(t) + 1 /\ DOMAIN u = 1..Len(u) /\ u[Len(t) + 1] = d
      /\ \A k \in 1..Len(t) : u[k] = t[k]
    BY <1>1 DEF InOrder
<1>3. \A k \in 1..Len(u) : k \in 1..Len(t) \/ k = Len(t) + 1
    BY <1>2
<1>4. \A k \in 1..Len(t) : k \in 1..Len(u)
    BY <1>2
<1>5. ASSUME NEW k \in 1..Len(u), NEW e \in ToSet(Reads[u[k]]) \cap P
      PROVE  \E j \in 1..(k - 1) : u[j] = e
  <2>1. CASE k \in 1..Len(t)
    <3>1. PICK j \in 1..(k - 1) : t[j] = e
          BY <1>2, <1>5, <2>1 DEF InOrder
    <3>2. j \in 1..Len(t)
          BY <1>2, <2>1
    <3> QED BY <1>2, <3>1, <3>2
  <2>2. CASE k = Len(t) + 1
    <3>1. e \in ToSet(t)
          BY <1>2, <1>5, <2>2
    <3>2. PICK j \in 1..Len(t) : t[j] = e
          BY <1>2, <3>1 DEF ToSet
    <3>3. j \in 1..(k - 1)
          BY <1>2, <2>2
    <3> QED BY <1>2, <3>2, <3>3
  <2> QED BY <1>3, <2>1, <2>2
<1>6. ToSet(u) = ToSet(t) \cup {d}
  <2>1. Len(t) + 1 \in 1..Len(u)
        BY <1>2
  <2> QED BY <1>2, <1>3, <1>4, <2>1 DEF ToSet
<1>7. ASSUME Distinct(t), d \notin ToSet(t) PROVE Distinct(u)
  <2>1. \A k \in 1..Len(t) : u[k] # d
        BY <1>2, <1>7 DEF ToSet
  <2>2. \A j \in 1..Len(t) : \A k \in 1..Len(t) : u[j] = u[k] => j = k
        BY <1>2, <1>7 DEF Distinct
  <2> QED BY <1>2, <1>3, <2>1, <2>2 DEF Distinct
<1>8. InOrder(u, P)
    BY <1>2, <1>5 DEF InOrder
<1> QED BY <1>1, <1>6, <1>7, <1>8

\* One step along a sequence of which nothing is taken twice.
OnceOf(f, s, n) ==
    IF n = 0 THEN <<>>
    ELSE IF s[n] \in ToSet(f[n - 1]) THEN f[n - 1] ELSE Append(f[n - 1], s[n])

(* Passing over what was there before comes to an end.                      *)
LEMMA OnceEnds ==
    ASSUME NEW n \in Nat, NEW s
    PROVE  \E f : f = [i \in 0..n |-> OnceOf(f, s, i)]
<1> DEFINE Far == {k \in Nat : \E f : f = [i \in 0..k |-> OnceOf(f, s, i)]}
<1>1. 0 \in Far
  <2> DEFINE f == [i \in 0..0 |-> <<>>]
  <2>1. \A i \in 0..0 : f[i] = OnceOf(f, s, i)
        BY DEF OnceOf
  <2>2. f = [i \in 0..0 |-> OnceOf(f, s, i)]
        BY <2>1
  <2> QED BY <2>2
<1>2. ASSUME NEW k \in Nat, k \in Far PROVE k + 1 \in Far
  <2>1. PICK f : f = [i \in 0..k |-> OnceOf(f, s, i)]
        BY <1>2
  <2> DEFINE g == [i \in 0..(k + 1) |-> OnceOf(f, s, i)]
  <2>2. \A i \in 0..k : f[i] = OnceOf(f, s, i)
    <3> DEFINE h == [i \in 0..k |-> OnceOf(f, s, i)]
    <3>1. \A i \in 0..k : h[i] = OnceOf(f, s, i)
          OBVIOUS
    <3>2. f = h
          BY <2>1
    <3> HIDE DEF h
    <3> QED BY <3>1, <3>2, Zenon
  <2>3. \A i \in 0..(k + 1) : g[i] = OnceOf(f, s, i)
        OBVIOUS
  <2>4. g = [i \in 0..(k + 1) |-> OnceOf(f, s, i)]
        OBVIOUS
  <2> HIDE DEF g
  <2>5. \A i \in 0..k : f[i] = g[i]
    <3>1. \A i \in 0..k : i \in 0..(k + 1)
          OBVIOUS
    <3> QED BY <2>2, <2>3, <3>1
  <2>6. ASSUME NEW i \in 0..(k + 1) PROVE OnceOf(f, s, i) = OnceOf(g, s, i)
    <3>1. i # 0 => i - 1 \in 0..k
          OBVIOUS
    <3>2. i # 0 => f[i - 1] = g[i - 1]
          BY <2>5, <3>1
    <3> QED BY <3>2, Zenon DEF OnceOf
  <2>7. g = [i \in 0..(k + 1) |-> OnceOf(g, s, i)]
        BY <2>4, <2>6
  <2> QED BY <2>7
<1> HIDE DEF Far
<1>3. n \in Far
    BY <1>1, <1>2, EveryNumber
<1> QED BY <1>3 DEF Far

(* Of a plan that names a cell again, what is left names the same cells in   *)
(* an order that is still a plan, and each of them once (refresh,            *)
(* `computing`).                                                             *)
LEMMA OnceIs ==
    ASSUME NEW P, NEW s, InOrder(s, P)
    PROVE  InOrder(Once(s), P) /\ ToSet(Once(s)) = ToSet(s) /\ Distinct(Once(s))
<1> DEFINE f == CHOOSE f : f = [i \in 0..Len(s) |-> OnceOf(f, s, i)]
<1>0. s \in Seq(P) /\ Len(s) \in Nat /\ DOMAIN s = 1..Len(s)
    BY DEF InOrder
<1>1. Once(s) = f[Len(s)]
    BY Zenon DEF Once, OnceOf
<1>a. \E g : g = [i \in 0..Len(s) |-> OnceOf(g, s, i)]
    BY <1>0, OnceEnds
<1>2. f = [i \in 0..Len(s) |-> OnceOf(f, s, i)]
    BY <1>a, Zenon
<1> HIDE DEF f
<1> DEFINE h == [i \in 0..Len(s) |-> OnceOf(f, s, i)]
<1>3. \A i \in 0..Len(s) : h[i] = OnceOf(f, s, i)
    OBVIOUS
<1>4. f = h
    BY <1>2
<1> HIDE DEF h
<1>5. \A i \in 0..Len(s) : f[i] = OnceOf(f, s, i)
    BY <1>3, <1>4, Zenon
<1> DEFINE Right(k) == InOrder(f[k], P) /\ ToSet(f[k]) = {s[j] : j \in 1..k} /\ Distinct(f[k])
           Far == {k \in Nat : k <= Len(s) => Right(k)}
<1>6. 0 \in Far
  <2>1. 0 \in 0..Len(s)
        BY <1>0
  <2>2. f[0] = <<>>
        BY <1>5, <2>1 DEF OnceOf
  <2>3. f[0] \in Seq(P) /\ 1..Len(f[0]) = {} /\ DOMAIN f[0] = {} /\ {s[j] : j \in 1..0} = {}
        BY <2>2
  <2>4. InOrder(f[0], P) /\ Distinct(f[0])
        BY <2>3 DEF InOrder, Distinct
  <2>5. ToSet(f[0]) = {s[j] : j \in 1..0}
        BY <2>3 DEF ToSet
  <2> QED BY <2>4, <2>5
<1>7. ASSUME NEW k \in Nat, k \in Far PROVE k + 1 \in Far
  <2> SUFFICES ASSUME k + 1 <= Len(s) PROVE Right(k + 1)
      OBVIOUS
  <2>1. PICK n : n = k + 1
        OBVIOUS
  <2>2. n \in 1..Len(s) /\ n \in 0..Len(s) /\ n # 0 /\ n - 1 = k /\ 1..n = (1..k) \cup {n} /\ k <= Len(s)
        BY <1>0, <2>1
  <2>3. Right(k)
        BY <1>7, <2>2
  <2>4. f[n] = IF s[n] \in ToSet(f[k]) THEN f[k] ELSE Append(f[k], s[n])
        BY <1>5, <2>2 DEF OnceOf
  <2>5. {s[j] : j \in 1..n} = {s[j] : j \in 1..k} \cup {s[n]}
        BY <2>2
  <2>6. CASE s[n] \in ToSet(f[k])
    <3>1. f[n] = f[k] /\ s[n] \in {s[j] : j \in 1..k}
          BY <2>3, <2>4, <2>6
    <3>2. Right(n)
          BY <2>3, <2>5, <3>1
    <3> QED BY <2>1, <3>2
  <2>7. CASE s[n] \notin ToSet(f[k])
    <3>1. s[n] \in P
          BY <1>0, <2>2
    <3>2. ASSUME NEW e \in ToSet(Reads[s[n]]) \cap P PROVE e \in ToSet(f[k])
      <4>1. PICK j \in 1..(n - 1) : s[j] = e
            BY <2>2, <3>2 DEF InOrder
      <4>2. j \in 1..k
            BY <2>2, <4>1
      <4> QED BY <2>3, <4>1, <4>2
    <3>3. /\ InOrder(Append(f[k], s[n]), P) /\ ToSet(Append(f[k], s[n])) = ToSet(f[k]) \cup {s[n]}
          /\ Distinct(Append(f[k], s[n]))
          BY <2>3, <2>7, <3>1, <3>2, PlanGrows
    <3>4. f[n] = Append(f[k], s[n])
          BY <2>4, <2>7
    <3>5. Right(n)
          BY <2>3, <2>5, <3>3, <3>4
    <3> QED BY <2>1, <3>5
  <2> QED BY <2>6, <2>7
<1> HIDE DEF Right
<1>8. Right(Len(s))
  <2> HIDE DEF Far
  <2>1. Nat \subseteq Far
        BY <1>6, <1>7, EveryNumber
  <2> QED BY <1>0, <2>1 DEF Far
<1>9. ToSet(s) = {s[j] : j \in 1..Len(s)}
    BY <1>0 DEF ToSet
<1> QED BY <1>1, <1>8, <1>9 DEF Right

(* A plan names a cell and all it was made of, each once and after those it   *)
(* was made of in turn.                                                      *)
LEMMA PlanIs ==
    ASSUME NEW c \in Cell
    PROVE  /\ InOrder(Plan(c), Present) /\ Distinct(Plan(c))
           /\ c \in Present => c \in ToSet(Plan(c))
<1> DEFINE f == CHOOSE f : f = [d \in Cell |-> PlanOf(f, Present, d)]
<1>0. \A d \in Cell : d \notin Present <=> d \in Source \/ Absent(d, Top)
    BY ResolveAssumption DEF Present, Cell
<1>1. Plan(c) = Once(f[c])
  <2> DEFINE Step(g, d) == IF d \in Source \/ Absent(d, Top) THEN <<>>
                           ELSE FlattenSeq([n \in DOMAIN Reads[d] |-> g[Reads[d][n]]]) \o <<d>>
  <2>1. Plan(c) = Once((CHOOSE g : g = [d \in Cell |-> Step(g, d)])[c])
        BY Zenon DEF Plan
  <2>2. \A g : \A d \in Cell : Step(g, d) = PlanOf(g, Present, d)
        BY <1>0, Zenon DEF PlanOf
  <2> HIDE DEF Step
  <2>3. \A g : [d \in Cell |-> Step(g, d)] = [d \in Cell |-> PlanOf(g, Present, d)]
        BY <2>2
  <2>4. (CHOOSE g : g = [d \in Cell |-> Step(g, d)]) = f
        BY <2>3
  <2> QED BY <2>1, <2>4
<1>2. f = [d \in Cell |-> PlanOf(f, Present, d)]
    BY PlanEnds DEF Present
<1> HIDE DEF f
<1> DEFINE h == [d \in Cell |-> PlanOf(f, Present, d)]
<1>3. \A d \in Cell : h[d] = PlanOf(f, Present, d)
    OBVIOUS
<1>4. f = h
    BY <1>2
<1> HIDE DEF h
<1>5. \A d \in Cell : f[d] = PlanOf(f, Present, d)
    BY <1>3, <1>4, Zenon
<1> DEFINE Good == {d \in Cell : InOrder(f[d], Present) /\ (d \in Present => d \in ToSet(f[d]))}
<1>6. ASSUME NEW d \in Cell, d \in Derived => ToSet(Reads[d]) \subseteq Good
      PROVE  d \in Good
  <2>1. CASE d \notin Present
    <3>1. f[d] = <<>>
          BY <1>5, <2>1 DEF PlanOf
    <3>2. f[d] \in Seq(Present) /\ 1..Len(f[d]) = {}
          BY <3>1
    <3> QED BY <2>1, <3>2 DEF InOrder
  <2>2. CASE d \in Present
    <3>0. d \in Derived /\ Reads[d] \in Seq(Cell)
          BY <2>2, ResolveAssumption DEF Present
    <3> DEFINE s == [n \in DOMAIN Reads[d] |-> f[Reads[d][n]]]
               all == FlattenSeq(s)
    <3>1. f[d] = all \o <<d>>
          BY <1>5, <2>2 DEF PlanOf
    <3>2. \A n \in DOMAIN Reads[d] : Reads[d][n] \in ToSet(Reads[d])
          BY DEF ToSet
    <3>3. \A n \in DOMAIN Reads[d] : Reads[d][n] \in Good
          BY <1>6, <3>0, <3>2
    <3>4. PICK m \in Nat : m = Len(Reads[d])
          BY <3>0
    <3>5. DOMAIN Reads[d] = 1..m /\ DOMAIN s = 1..m
          BY <3>0, <3>4
    <3>6. \A n \in 1..m : InOrder(s[n], Present) /\ s[n] = f[Reads[d][n]]
          BY <3>3, <3>5
    <3>7. s \in Seq(Seq(Present))
      <4>1. \A n \in 1..m : s[n] \in Seq(Present)
            BY <3>6 DEF InOrder
      <4>2. s = [n \in 1..m |-> s[n]]
            BY <3>5
      <4> HIDE DEF s
      <4>3. s \in [1..m -> Seq(Present)]
            BY <4>1, <4>2
      <4> QED BY <4>3, <3>4
    <3> HIDE DEF s
    <3>8. InOrder(all, Present) /\ \A n \in 1..m : ToSet(s[n]) \subseteq ToSet(all)
          BY <3>5, <3>6, <3>7, FlattenIs
    <3> HIDE DEF all
    <3>9. \A e \in ToSet(Reads[d]) \cap Present : e \in ToSet(all)
      <4>1. ASSUME NEW e \in ToSet(Reads[d]) \cap Present PROVE e \in ToSet(all)
        <5>1. PICK n \in DOMAIN Reads[d] : e = Reads[d][n]
              BY DEF ToSet
        <5>2. e \in ToSet(f[e])
              BY <3>3, <5>1
        <5> QED BY <3>5, <3>6, <3>8, <5>1, <5>2
      <4> QED BY <4>1
    <3>10. all \in Seq(Present) /\ all \o <<d>> = Append(all, d)
          BY <2>2, <3>8 DEF InOrder
    <3>11. InOrder(Append(all, d), Present) /\ ToSet(Append(all, d)) = ToSet(all) \cup {d}
          BY <2>2, <3>8, <3>9, PlanGrows
    <3>12. f[d] = Append(all, d)
          BY <3>1, <3>10
    <3> QED BY <3>11, <3>12
  <2> QED BY <2>1, <2>2
<1> HIDE DEF Good
<1>7. Cell \subseteq Good
    BY <1>6, EveryCell
<1>8. InOrder(f[c], Present) /\ (c \in Present => c \in ToSet(f[c]))
    BY <1>7 DEF Good
<1> QED BY <1>1, <1>8, OnceIs

---------------------------------------------------------------------------
(* The log as the replays see it.  Of any log, so that what is proved of    *)
(* one holds of the one after a step.                                       *)

Done(L) == {i \in DOMAIN L : L[i].state = "committed"}
OpenIn(L) == {i \in DOMAIN L : L[i].state = "open" /\ L[i].by = "client"}
TopOf(L) == Highest({0} \cup Done(L))

LayersOf(L, c, k) == {i \in Done(L) : i <= k /\ c \in DOMAIN L[i].cells}
Landing(L, c, k) == Highest({0} \cup LayersOf(L, c, k))
RecordOf(L, c, k) == L[Landing(L, c, k)].cells[c]
ValueOf(L, c, k) == IF Landing(L, c, k) = 0 THEN <<>> ELSE RecordOf(L, c, k).value
ReplayOf(L, k) == Composed([c \in Source |-> ValueOf(L, c, k)], Derived)

\* A layer below every layer a client has open: no commit changes what is under it.
Firm(L, k) == \A j \in OpenIn(L) : k < j

\* Clients write source cells, one to a layer; the engine writes what producers make.
LayerOk(L, i) ==
    /\ L[i] = [by |-> L[i].by, state |-> L[i].state, reflects |-> L[i].reflects,
               cells |-> L[i].cells]
    /\ L[i].by = "client" =>
          /\ L[i].state \in {"open", "committed", "aborted"}
          /\ \E c \in Source : DOMAIN L[i].cells = {c} /\ L[i].cells[c].value = <<i>>
    /\ L[i].by # "client" =>
          /\ L[i].by = "engine" /\ L[i].state = "committed" /\ L[i].reflects \in Nat
          /\ DOMAIN L[i].cells \subseteq Derived
          /\ \A c \in DOMAIN L[i].cells :
                /\ L[i].cells[c].fresh \in Nat /\ L[i].cells[c].fresh < i
                /\ L[i].cells[c].reads = Reads[c]

LogOk(L) ==
    /\ Len(L) \in Nat /\ L = [i \in 1..Len(L) |-> L[i]]
    /\ \A i \in 1..Len(L) : LayerOk(L, i)

\* What the engine lands was made of cells that are there, and lands where no client
\* has a layer open below.
EngineOk(L) ==
    \A i \in 1..Len(L) : L[i].by = "engine" =>
        /\ Firm(L, i)
        /\ \A c \in DOMAIN L[i].cells : \A d \in ToSet(Reads[c]) \cap Derived :
              Landing(L, d, i) # 0

\* Every stamp is true.
StampsOk(L) ==
    \A i \in 1..Len(L) : L[i].by = "engine" =>
        \A c \in DOMAIN L[i].cells :
            L[i].cells[c].value = ReplayOf(L, L[i].cells[c].fresh)[c]

(* The highest of some numbers is one of them, and none is above it.        *)
LEMMA HighestIs ==
    ASSUME NEW n \in Nat, NEW S, S \subseteq 0..n, S # {}
    PROVE  Highest(S) \in S /\ \A m \in S : m <= Highest(S)
<1> DEFINE Gaps == {n - m : m \in S}
<1>0. \A m \in S : m \in Nat /\ n - m \in Nat
    OBVIOUS
<1>1. Gaps \subseteq Nat /\ Gaps # {}
    BY <1>0
<1>2. PICK g \in Gaps : \A k \in Gaps : g <= k
    BY <1>1, LeastNumber
<1>3. PICK h \in S : g = n - h
    OBVIOUS
<1>4. \A m \in S : h >= m
    BY <1>0, <1>2, <1>3
<1>5. \E k \in S : \A m \in S : k >= m
    BY <1>3, <1>4
<1>6. Highest(S) \in S /\ \A m \in S : Highest(S) >= m
    BY <1>5, Zenon DEF Highest
<1> QED BY <1>0, <1>6

(* The layer a cell is read from (get_cell).                                *)
LEMMA LandingIs ==
    ASSUME NEW L, LogOk(L), NEW c, NEW k \in Nat
    PROVE  /\ Landing(L, c, k) \in Nat /\ Landing(L, c, k) <= k /\ Landing(L, c, k) <= Len(L)
           /\ Landing(L, c, k) # 0 => Landing(L, c, k) \in LayersOf(L, c, k)
           /\ \A i \in LayersOf(L, c, k) : i <= Landing(L, c, k) /\ Landing(L, c, k) # 0
<1> DEFINE S == {0} \cup LayersOf(L, c, k)
<1>1. DOMAIN L = 1..Len(L) /\ Len(L) \in Nat
    BY DEF LogOk
<1>2. \A i \in LayersOf(L, c, k) : i \in 1..Len(L) /\ i <= k
    BY <1>1 DEF LayersOf, Done
<1>3. S \subseteq 0..Len(L) /\ S # {}
    BY <1>1, <1>2
<1> HIDE DEF S
<1>4. Highest(S) \in S /\ \A m \in S : m <= Highest(S)
    BY <1>1, <1>3, HighestIs
<1>5. Landing(L, c, k) = Highest(S)
    BY DEF S, Landing
<1>6. \A i \in LayersOf(L, c, k) : i <= Highest(S)
    BY <1>4 DEF S
<1>7. Highest(S) = 0 \/ Highest(S) \in LayersOf(L, c, k)
    BY <1>4 DEF S
<1>8. PICK h : h = Highest(S)
    OBVIOUS
<1>9. h \in 0..Len(L) /\ h <= k
    BY <1>1, <1>2, <1>7, <1>8
<1>10. \A i \in LayersOf(L, c, k) : i <= h /\ h # 0
    BY <1>1, <1>2, <1>6, <1>8, <1>9
<1> QED BY <1>1, <1>5, <1>7, <1>8, <1>9, <1>10

(* What is committed last.                                                  *)
LEMMA TopIs ==
    ASSUME NEW L, LogOk(L)
    PROVE  /\ TopOf(L) \in Nat /\ TopOf(L) <= Len(L) /\ TopOf(L) \in {0} \cup Done(L)
           /\ \A i \in Done(L) : i \in 1..Len(L) /\ i <= TopOf(L)
<1> DEFINE S == {0} \cup Done(L)
<1>1. DOMAIN L = 1..Len(L) /\ Len(L) \in Nat
    BY DEF LogOk
<1>2. S \subseteq 0..Len(L) /\ S # {}
    BY <1>1 DEF Done
<1> HIDE DEF S
<1>3. Highest(S) \in S /\ \A m \in S : m <= Highest(S)
    BY <1>1, <1>2, HighestIs
<1>4. TopOf(L) = Highest(S)
    BY DEF S, TopOf
<1> QED BY <1>1, <1>2, <1>3, <1>4 DEF S, Done

(* A higher ceiling reads no lower layer, and the same one if it is not     *)
(* above the lower ceiling.                                                 *)
LEMMA LandingRises ==
    ASSUME NEW L, LogOk(L), NEW c, NEW j \in Nat, NEW k \in Nat, j <= k
    PROVE  /\ Landing(L, c, j) <= Landing(L, c, k)
           /\ Landing(L, c, k) <= j => Landing(L, c, j) = Landing(L, c, k)
<1>1. LayersOf(L, c, j) \subseteq LayersOf(L, c, k)
  <2>1. \A i \in Done(L) : i \in Nat
        BY TopIs
  <2> QED BY <2>1 DEF LayersOf
<1>2. /\ Landing(L, c, j) \in Nat /\ Landing(L, c, k) \in Nat
      /\ Landing(L, c, j) # 0 => Landing(L, c, j) \in LayersOf(L, c, j)
      /\ Landing(L, c, k) # 0 => Landing(L, c, k) \in LayersOf(L, c, k)
      /\ \A i \in LayersOf(L, c, j) : i <= Landing(L, c, j)
      /\ \A i \in LayersOf(L, c, k) : i <= Landing(L, c, k)
    BY LandingIs
<1>3. Landing(L, c, j) <= Landing(L, c, k)
    BY <1>1, <1>2
<1>4. ASSUME Landing(L, c, k) <= j PROVE Landing(L, c, k) <= Landing(L, c, j)
  <2>1. CASE Landing(L, c, k) = 0
        BY <1>2, <2>1
  <2>2. CASE Landing(L, c, k) # 0
    <3>1. Landing(L, c, k) \in LayersOf(L, c, j)
          BY <1>2, <1>4, <2>2 DEF LayersOf
    <3> QED BY <1>2, <3>1
  <2> QED BY <2>1, <2>2
<1> QED BY <1>2, <1>3, <1>4

(* A source cell's value names the layer of its write.                      *)
LEMMA SourceValue ==
    ASSUME NEW L, LogOk(L), NEW s \in Source, NEW k \in Nat
    PROVE  ValueOf(L, s, k) = IF Landing(L, s, k) = 0 THEN <<>> ELSE <<Landing(L, s, k)>>
<1> SUFFICES ASSUME Landing(L, s, k) # 0
             PROVE  ValueOf(L, s, k) = <<Landing(L, s, k)>>
    BY DEF ValueOf
<1>1. PICK i : i = Landing(L, s, k)
    OBVIOUS
<1>2. i \in 1..Len(L) /\ s \in DOMAIN L[i].cells
    BY <1>1, LandingIs, TopIs DEF LayersOf
<1>3. LayerOk(L, i)
    BY <1>2 DEF LogOk
<1>4. L[i].by = "client"
    BY <1>2, <1>3, ResolveAssumption DEF LayerOk
<1>5. PICK c \in Source : DOMAIN L[i].cells = {c} /\ L[i].cells[c].value = <<i>>
    BY <1>3, <1>4 DEF LayerOk
<1>6. L[i].cells[s].value = <<i>>
    BY <1>2, <1>5
<1> QED BY <1>1, <1>6 DEF ValueOf, RecordOf

(* Two source values are one exactly if they come from one layer.           *)
LEMMA SourceSame ==
    ASSUME NEW L, NEW N, LogOk(L), LogOk(N), NEW s \in Source, NEW a \in Nat, NEW b \in Nat
    PROVE  ValueOf(L, s, a) = ValueOf(N, s, b) <=> Landing(L, s, a) = Landing(N, s, b)
<1>1. /\ ValueOf(L, s, a) = IF Landing(L, s, a) = 0 THEN <<>> ELSE <<Landing(L, s, a)>>
      /\ ValueOf(N, s, b) = IF Landing(N, s, b) = 0 THEN <<>> ELSE <<Landing(N, s, b)>>
    BY SourceValue
<1>2. \A i, j : (<<i>> = <<j>> => i = j) /\ <<i>> # <<>>
    OBVIOUS
<1> QED BY <1>1, <1>2

(* What a replay gives a cell.                                              *)
LEMMA ReplayIs ==
    ASSUME NEW L, NEW k
    PROVE  /\ \A c \in Source : ReplayOf(L, k)[c] = ValueOf(L, c, k)
           /\ \A c \in Derived : ReplayOf(L, k)[c]
                 = [n \in DOMAIN Reads[c] |-> ReplayOf(L, k)[Reads[c][n]]]
<1> DEFINE W == [c \in Source |-> ValueOf(L, c, k)]
<1>1. ReplayOf(L, k) = Composed(W, Derived)
    BY DEF ReplayOf
<1>2. \A c \in Source : W[c] = ValueOf(L, c, k)
    OBVIOUS
<1> HIDE DEF W
<1>3. \A c \in Cell : Composed(W, Derived)[c]
         = IF c \in Derived THEN [n \in DOMAIN Reads[c] |-> Composed(W, Derived)[Reads[c][n]]]
           ELSE W[c]
    BY ComposedIs
<1> QED BY <1>1, <1>2, <1>3, ResolveAssumption DEF Cell

(* If what is written before says two replays read the same layers whenever *)
(* two others do, then they give the same values whenever those do.         *)
LEMMA ReplayFollows ==
    ASSUME NEW L, NEW N, LogOk(L), LogOk(N),
           NEW a \in Nat, NEW b \in Nat, NEW a2 \in Nat, NEW b2 \in Nat,
           \A s \in Source : Landing(L, s, a) = Landing(L, s, b)
                               => Landing(N, s, a2) = Landing(N, s, b2)
    PROVE  \A c \in Cell : ReplayOf(L, a)[c] = ReplayOf(L, b)[c]
                             => ReplayOf(N, a2)[c] = ReplayOf(N, b2)[c]
<1> DEFINE W(M, k) == [s \in Source |-> ValueOf(M, s, k)]
<1>1. \A s \in Source : W(L, a)[s] = W(L, b)[s] => W(N, a2)[s] = W(N, b2)[s]
  <2>1. ASSUME NEW s \in Source, ValueOf(L, s, a) = ValueOf(L, s, b)
        PROVE  ValueOf(N, s, a2) = ValueOf(N, s, b2)
    <3>1. Landing(L, s, a) = Landing(L, s, b)
          BY <2>1, SourceSame
    <3>2. Landing(N, s, a2) = Landing(N, s, b2)
          BY <3>1
    <3> QED BY <3>2, SourceSame
  <2> QED BY <2>1
<1>2. /\ ReplayOf(L, a) = Composed(W(L, a), Derived) /\ ReplayOf(L, b) = Composed(W(L, b), Derived)
      /\ ReplayOf(N, a2) = Composed(W(N, a2), Derived) /\ ReplayOf(N, b2) = Composed(W(N, b2), Derived)
    BY DEF ReplayOf
<1> HIDE DEF W
<1>3. \A c \in Cell : Composed(W(L, a), Derived)[c] = Composed(W(L, b), Derived)[c]
                        => Composed(W(N, a2), Derived)[c] = Composed(W(N, b2), Derived)[c]
    BY <1>1, Follows
<1> QED BY <1>2, <1>3

(* Replays that read the same layers give the same values.                  *)
LEMMA ReplaySame ==
    ASSUME NEW L, NEW N, LogOk(L), LogOk(N), NEW a \in Nat, NEW b \in Nat,
           \A s \in Source : Landing(L, s, a) = Landing(N, s, b)
    PROVE  \A c \in Cell : ReplayOf(L, a)[c] = ReplayOf(N, b)[c]
<1> DEFINE W(M, k) == [s \in Source |-> ValueOf(M, s, k)]
<1>1. \A s \in Source : W(L, a)[s] = W(N, b)[s]
    BY SourceSame
<1>2. ReplayOf(L, a) = Composed(W(L, a), Derived) /\ ReplayOf(N, b) = Composed(W(N, b), Derived)
    BY DEF ReplayOf
<1> HIDE DEF W
<1> QED BY <1>1, <1>2, SameReplay

(* If two replays agree on a cell, every replay between them does.          *)
LEMMA Between ==
    ASSUME NEW L, LogOk(L), NEW a \in Nat, NEW b \in Nat, NEW d \in Nat, a <= b, b <= d,
           NEW c \in Cell, ReplayOf(L, a)[c] = ReplayOf(L, d)[c]
    PROVE  ReplayOf(L, b)[c] = ReplayOf(L, d)[c] /\ ReplayOf(L, b)[c] = ReplayOf(L, a)[c]
<1>1. ASSUME NEW s \in Source, Landing(L, s, a) = Landing(L, s, d)
      PROVE  Landing(L, s, a) = Landing(L, s, b)
    BY <1>1, LandingRises, LandingIs
<1>2. ReplayOf(L, a)[c] = ReplayOf(L, b)[c]
    BY <1>1, ReplayFollows
<1> QED BY <1>2

(* The record of a derived cell was landed by the engine, and its stamp is  *)
(* true (Run, Land).                                                        *)
LEMMA RecordIs ==
    ASSUME NEW L, LogOk(L), NEW c \in Derived, NEW k \in Nat, Landing(L, c, k) # 0
    PROVE  /\ RecordOf(L, c, k).fresh \in Nat /\ RecordOf(L, c, k).fresh < Landing(L, c, k)
           /\ RecordOf(L, c, k).reads = Reads[c]
           /\ Landing(L, c, k) \in 1..Len(L) /\ Landing(L, c, k) <= k
           /\ L[Landing(L, c, k)].by = "engine" /\ c \in DOMAIN L[Landing(L, c, k)].cells
           /\ StampsOk(L) => ValueOf(L, c, k) = ReplayOf(L, RecordOf(L, c, k).fresh)[c]
<1>1. PICK i : i = Landing(L, c, k)
    OBVIOUS
<1>2. i \in 1..Len(L) /\ i <= k /\ c \in DOMAIN L[i].cells
    BY <1>1, LandingIs, TopIs DEF LayersOf
<1>3. LayerOk(L, i)
    BY <1>2 DEF LogOk
<1>4. L[i].by # "client"
    BY <1>2, <1>3, ResolveAssumption DEF LayerOk
<1>5. /\ L[i].by = "engine" /\ L[i].cells[c].fresh \in Nat /\ L[i].cells[c].fresh < i
      /\ L[i].cells[c].reads = Reads[c]
    BY <1>2, <1>3, <1>4 DEF LayerOk
<1>6. RecordOf(L, c, k) = L[i].cells[c]
    BY <1>1 DEF RecordOf
<1>7. StampsOk(L) => L[i].cells[c].value = ReplayOf(L, L[i].cells[c].fresh)[c]
    BY <1>2, <1>5 DEF StampsOk
<1>8. ValueOf(L, c, k) = L[i].cells[c].value
    BY <1>1, <1>6 DEF ValueOf
<1> QED BY <1>1, <1>2, <1>5, <1>6, <1>7, <1>8

(* What a derived cell that is there was made of is there too.              *)
LEMMA InputsAreThere ==
    ASSUME NEW L, LogOk(L), EngineOk(L), NEW c \in Derived, NEW k \in Nat, Landing(L, c, k) # 0,
           NEW d \in ToSet(Reads[c]) \cap Derived
    PROVE  Landing(L, d, k) # 0
<1>1. PICK i : i = Landing(L, c, k)
    OBVIOUS
<1>2. i \in 1..Len(L) /\ i <= k /\ L[i].by = "engine" /\ c \in DOMAIN L[i].cells
    BY <1>1, RecordIs
<1>3. Landing(L, d, i) # 0
    BY <1>2 DEF EngineOk
<1>4. i \in Nat /\ Landing(L, d, i) <= Landing(L, d, k)
    BY <1>2, LandingRises
<1> QED BY <1>3, <1>4, LandingIs

(* What the read path says of the log of the moment.                        *)
LEMMA OfTheLog ==
    /\ Committed = Done(log) /\ Opens = OpenIn(log) /\ Top = TopOf(log)
    /\ \A c, k : /\ LandedAt(c, k) = Landing(log, c, k) /\ (Absent(c, k) <=> Landing(log, c, k) = 0)
                 /\ Found(c, k) = RecordOf(log, c, k) /\ Value(c, k) = ValueOf(log, c, k)
    /\ \A k : Replay(k) = ReplayOf(log, k)
<1>1. Committed = Done(log) /\ Opens = OpenIn(log)
    BY DEF Committed, Done, Opens, OpenIn
<1>2. Top = TopOf(log)
    BY <1>1 DEF Top, TopOf
<1>3. ASSUME NEW c, NEW k
      PROVE  /\ LandedAt(c, k) = Landing(log, c, k) /\ (Absent(c, k) <=> Landing(log, c, k) = 0)
             /\ Found(c, k) = RecordOf(log, c, k) /\ Value(c, k) = ValueOf(log, c, k)
  <2>1. LandedAt(c, k) = Landing(log, c, k)
        BY <1>1 DEF LandedAt, Landing, LayersOf
  <2>2. Absent(c, k) <=> Landing(log, c, k) = 0
        BY <2>1 DEF Absent
  <2>3. Found(c, k) = RecordOf(log, c, k)
        BY <2>1 DEF Found, RecordOf
  <2>4. Value(c, k) = ValueOf(log, c, k)
        BY <2>1 DEF Value, ValueOf, RecordOf
  <2> QED BY <2>1, <2>2, <2>3, <2>4
<1>4. ASSUME NEW k PROVE Replay(k) = ReplayOf(log, k)
  <2>1. [c \in Source |-> Value(c, k)] = [c \in Source |-> ValueOf(log, c, k)]
        BY <1>3
  <2> QED BY <2>1 DEF Replay, ReplayOf
<1> QED BY <1>1, <1>2, <1>3, <1>4

(* A record that validates to the ceiling is what a replay at the ceiling   *)
(* gives: nothing it was made of moved after its stamp, all the way down.   *)
LEMMA ValidatedHolds ==
    ASSUME LogOk(log), EngineOk(log), StampsOk(log),
           NEW c \in Derived, NEW k \in Nat, Landing(log, c, k) # 0,
           Validated(RecordOf(log, c, k), k) >= k
    PROVE  RecordOf(log, c, k).value = ReplayOf(log, k)[c]
<1>0. \A d \in Derived : Landing(log, d, k) # 0 =>
         RecordOf(log, d, k).fresh \in Nat /\ RecordOf(log, d, k).reads = Reads[d]
    BY RecordIs
<1>1. /\ ReadsKept(k)
      /\ \A d \in Derived : ~Absent(d, k) => Found(d, k).fresh \in Nat
    BY <1>0, OfTheLog DEF ReadsKept
<1>2. PICK f \in [Cell -> Nat] :
         /\ \A d \in Derived : ~Absent(d, k) /\ f[d] >= k =>
               \/ Found(d, k).fresh >= k
               \/ /\ ~Moved(Found(d, k), k)
                  /\ \A e \in There(Found(d, k), k) : f[e] >= k
         /\ \A d \in Derived : ~Absent(d, k) => Validated(Found(d, k), k) = f[d]
    BY <1>1, ValidatedIs
<1>3. \A d : Found(d, k) = RecordOf(log, d, k) /\ (Absent(d, k) <=> Landing(log, d, k) = 0)
             /\ LandedAt(d, k) = Landing(log, d, k)
    BY OfTheLog
<1>4. \A d \in Derived : Landing(log, d, k) # 0 /\ f[d] >= k =>
         \/ RecordOf(log, d, k).fresh >= k
         \/ /\ ~Moved(RecordOf(log, d, k), k)
            /\ \A e \in There(RecordOf(log, d, k), k) : f[e] >= k
    BY <1>2, <1>3
<1>5. f[c] >= k
    BY <1>2, <1>3
<1> DEFINE Good == {d \in Cell : d \in Derived /\ Landing(log, d, k) # 0 /\ f[d] >= k
                                   => ValueOf(log, d, k) = ReplayOf(log, k)[d]}
<1>6. ASSUME NEW d \in Cell, d \in Derived => ToSet(Reads[d]) \subseteq Good
      PROVE  d \in Good
  <2> SUFFICES ASSUME d \in Derived, Landing(log, d, k) # 0, f[d] >= k
               PROVE  ValueOf(log, d, k) = ReplayOf(log, k)[d]
      OBVIOUS
  <2>1. PICK m : m = RecordOf(log, d, k).fresh
        OBVIOUS
  <2>2. /\ m \in Nat /\ m < Landing(log, d, k) /\ Landing(log, d, k) <= k /\ Landing(log, d, k) \in Nat
        /\ RecordOf(log, d, k).reads = Reads[d]
        /\ ValueOf(log, d, k) = ReplayOf(log, m)[d]
        BY <2>1, RecordIs, LandingIs
  <2>3. m < k /\ m <= k
        BY <2>2
  <2>4. /\ ~Moved(RecordOf(log, d, k), k)
        /\ \A e \in There(RecordOf(log, d, k), k) : f[e] >= k
        BY <1>4, <2>1, <2>2, <2>3
  <2>5. ASSUME NEW e \in ToSet(Reads[d]) PROVE ReplayOf(log, m)[e] = ReplayOf(log, k)[e]
    <3>0. e \in Cell /\ e \in Good
          BY <1>6, <2>5, RankIs
    <3>1. Landing(log, e, k) # 0 => e \in There(RecordOf(log, d, k), k)
          BY <1>3, <2>2, <2>5 DEF There
    <3>2. Landing(log, e, k) # 0 => ~(Reflects(e, k) > m)
          BY <2>1, <2>4, <3>1 DEF Moved
    <3>3. CASE e \in Source
      <4>1. Landing(log, e, k) # 0 => ~(Landing(log, e, k) > m)
            BY <1>3, <3>2, <3>3 DEF Reflects
      <4>2. Landing(log, e, k) \in Nat /\ Landing(log, e, k) <= m
            BY <2>2, <4>1, LandingIs
      <4>3. Landing(log, e, m) = Landing(log, e, k)
            BY <2>2, <2>3, <4>2, LandingRises
      <4>4. ValueOf(log, e, m) = ValueOf(log, e, k)
            BY <2>2, <3>3, <4>3, SourceSame
      <4> QED BY <3>3, <4>4, ReplayIs
    <3>4. CASE e \in Derived
      <4>1. Landing(log, e, k) # 0
            BY <2>5, <3>4, InputsAreThere
      <4>2. f[e] >= k
            BY <2>4, <3>1, <4>1
      <4>3. ValueOf(log, e, k) = ReplayOf(log, k)[e]
            BY <3>0, <3>4, <4>1, <4>2
      <4>4. PICK g : g = RecordOf(log, e, k).fresh
            OBVIOUS
      <4>5. g \in Nat /\ ValueOf(log, e, k) = ReplayOf(log, g)[e]
            BY <3>4, <4>1, <4>4, RecordIs
      <4>6. g <= m
        <5>1. Reflects(e, k) = g
              BY <1>3, <3>4, <4>4, ResolveAssumption DEF Reflects
        <5> QED BY <2>2, <3>2, <4>1, <4>5, <5>1
      <4>7. ReplayOf(log, g)[e] = ReplayOf(log, k)[e]
            BY <4>3, <4>5
      <4> QED BY <2>2, <2>3, <3>0, <4>5, <4>6, <4>7, Between
    <3> QED BY <3>0, <3>3, <3>4 DEF Cell
  <2>6. \A n \in DOMAIN Reads[d] : Reads[d][n] \in ToSet(Reads[d])
        BY DEF ToSet
  <2>7. [n \in DOMAIN Reads[d] |-> ReplayOf(log, m)[Reads[d][n]]]
          = [n \in DOMAIN Reads[d] |-> ReplayOf(log, k)[Reads[d][n]]]
        BY <2>5, <2>6
  <2>8. ReplayOf(log, m)[d] = [n \in DOMAIN Reads[d] |-> ReplayOf(log, m)[Reads[d][n]]]
        BY ReplayIs
  <2>9. ReplayOf(log, k)[d] = [n \in DOMAIN Reads[d] |-> ReplayOf(log, k)[Reads[d][n]]]
        BY ReplayIs
  <2> QED BY <2>2, <2>7, <2>8, <2>9, Zenon
<1> HIDE DEF Good
<1>7. Cell \subseteq Good
    BY <1>6, EveryCell
<1>8. c \in Good /\ c \in Cell
    BY <1>7 DEF Cell
<1>9. ValueOf(log, c, k) = ReplayOf(log, k)[c]
    BY <1>5, <1>8 DEF Good
<1> QED BY <1>9 DEF ValueOf

---------------------------------------------------------------------------
(* How the log goes on                                                      *)

\* One log after another: layers are added above, and open ones are finished.
Later(L, N) ==
    /\ LogOk(L) /\ LogOk(N) /\ Len(L) <= Len(N)
    /\ \A i \in 1..Len(L) : /\ N[i].by = L[i].by /\ N[i].cells = L[i].cells
                            /\ N[i].reflects = L[i].reflects
    /\ Done(L) \subseteq Done(N)
    /\ \A i \in Done(N) : i \in Done(L) \/ i \in OpenIn(L) \/ Len(L) < i
    /\ \A i \in OpenIn(N) : i \in OpenIn(L) \/ Len(L) < i

\* The engine landed nothing.
NoneLanded(L, N) == \A i \in 1..Len(N) : N[i].by = "engine" => i \in 1..Len(L)

\* N is L with a layer more.
Adds(L, N, x) ==
    /\ Len(N) \in Nat /\ Len(L) \in Nat /\ Len(N) = Len(L) + 1
    /\ N = [i \in 1..Len(N) |-> N[i]] /\ DOMAIN N = 1..Len(N) /\ DOMAIN L = 1..Len(L)
    /\ N[Len(L) + 1] = x
    /\ \A i \in 1..Len(L) : N[i] = L[i]
    /\ \A i \in 1..Len(N) : i \in 1..Len(L) \/ i = Len(L) + 1

(* Appending to the log adds a layer above the others.                      *)
LEMMA AppendAdds ==
    ASSUME NEW L, LogOk(L), NEW x, NEW N, N = Append(L, x)
    PROVE  Adds(L, N, x)
<1> DEFINE S == {x} \cup {L[i] : i \in 1..Len(L)}
<1>1. Len(L) \in Nat /\ L = [i \in 1..Len(L) |-> L[i]]
    BY DEF LogOk
<1>2. \A i \in 1..Len(L) : L[i] \in S
    OBVIOUS
<1>3. x \in S
    OBVIOUS
<1> HIDE DEF S
<1>4. L \in [1..Len(L) -> S]
    BY <1>1, <1>2
<1>5. L \in Seq(S)
    BY <1>1, <1>4
<1>6. /\ N \in Seq(S) /\ Len(N) = Len(L) + 1 /\ N[Len(L) + 1] = x
      /\ \A i \in 1..Len(L) : N[i] = L[i]
    BY <1>3, <1>5
<1>a. \A s \in Seq(S) : Len(s) \in Nat /\ s = [i \in 1..Len(s) |-> s[i]] /\ DOMAIN s = 1..Len(s)
    OBVIOUS
<1>7. Len(N) \in Nat /\ N = [i \in 1..Len(N) |-> N[i]] /\ DOMAIN N = 1..Len(N) /\ DOMAIN L = 1..Len(L)
    BY <1>a, <1>5, <1>6, Zenon
<1>8. \A i \in 1..Len(N) : i \in 1..Len(L) \/ i = Len(L) + 1
    BY <1>1, <1>6
<1> QED BY <1>1, <1>6, <1>7, <1>8 DEF Adds

(* A layer more, of the shape layers have, leaves a log that goes on.       *)
LEMMA AppendIsLater ==
    ASSUME NEW L, LogOk(L), NEW x, NEW N, Adds(L, N, x), LayerOk(N, Len(L) + 1)
    PROVE  Later(L, N)
<1>1. /\ Len(N) \in Nat /\ Len(L) \in Nat /\ Len(N) = Len(L) + 1
      /\ N = [i \in 1..Len(N) |-> N[i]] /\ DOMAIN N = 1..Len(N) /\ DOMAIN L = 1..Len(L)
      /\ N[Len(L) + 1] = x
      /\ \A i \in 1..Len(L) : N[i] = L[i]
      /\ \A i \in 1..Len(N) : i \in 1..Len(L) \/ i = Len(L) + 1
    BY DEF Adds
<1>2. ASSUME NEW i \in 1..Len(N) PROVE LayerOk(N, i)
  <2>1. CASE i \in 1..Len(L)
    <3>1. LayerOk(L, i) /\ N[i] = L[i]
          BY <1>1, <2>1 DEF LogOk
    <3> QED BY <3>1 DEF LayerOk
  <2>2. CASE i = Len(L) + 1
        BY <2>2
  <2> QED BY <1>1, <2>1, <2>2
<1>3. LogOk(N)
    BY <1>1, <1>2 DEF LogOk
<1>4. \A i \in 1..Len(N) : i \in 1..Len(L) \/ Len(L) < i
    BY <1>1
<1>5. \A i \in Done(L) : i \in Done(N)
    BY <1>1 DEF Done
<1>6. \A i \in Done(N) : i \in Done(L) \/ Len(L) < i
    BY <1>1, <1>4 DEF Done
<1>7. \A i \in OpenIn(N) : i \in OpenIn(L) \/ Len(L) < i
    BY <1>1, <1>4 DEF OpenIn
<1>8. Len(L) <= Len(N)
    BY <1>1
<1> QED BY <1>1, <1>3, <1>5, <1>6, <1>7, <1>8 DEF Later

(* A client opens a layer with one cell (Write).                            *)
LEMMA WriteIsLater ==
    ASSUME NEW L, LogOk(L), NEW s \in Source, NEW N,
           N = Append(L, [by |-> "client", state |-> "open", reflects |-> 0,
                 cells |-> [d \in {s} |-> [value |-> <<Len(L) + 1>>, fresh |-> 0, reads |-> <<>>]]])
    PROVE  Later(L, N) /\ NoneLanded(L, N)
<1> DEFINE x == [by |-> "client", state |-> "open", reflects |-> 0,
                 cells |-> [d \in {s} |-> [value |-> <<Len(L) + 1>>, fresh |-> 0, reads |-> <<>>]]]
<1>1. /\ x = [by |-> x.by, state |-> x.state, reflects |-> x.reflects, cells |-> x.cells]
      /\ x.by = "client" /\ x.state = "open"
      /\ DOMAIN x.cells = {s} /\ x.cells[s].value = <<Len(L) + 1>>
    OBVIOUS
<1>2. N = Append(L, x)
    OBVIOUS
<1> HIDE DEF x
<1>a. Adds(L, N, x)
    BY <1>2, AppendAdds, Zenon
<1>3. N[Len(L) + 1] = x /\ Len(L) \in Nat /\ Len(N) = Len(L) + 1
    BY <1>a DEF Adds
<1>4. LayerOk(N, Len(L) + 1)
    BY <1>1, <1>3 DEF LayerOk
<1>5. Later(L, N)
    BY <1>a, <1>4, AppendIsLater
<1>6. NoneLanded(L, N)
    BY <1>1, <1>3 DEF NoneLanded
<1> QED BY <1>5, <1>6

(* A client finishes a layer it opened (Commit).                            *)
LEMMA CommitIsLater ==
    ASSUME NEW L, LogOk(L), NEW i \in OpenIn(L), NEW state \in {"committed", "aborted"},
           NEW N, N = [L EXCEPT ![i].state = state]
    PROVE  Later(L, N) /\ NoneLanded(L, N) /\ Len(N) = Len(L) /\ OpenIn(N) \subseteq OpenIn(L) \ {i}
<1>1. Len(L) \in Nat /\ L = [j \in 1..Len(L) |-> L[j]] /\ DOMAIN L = 1..Len(L)
    BY DEF LogOk
<1>2. i \in 1..Len(L) /\ L[i].by = "client" /\ L[i].state = "open"
    BY <1>1 DEF OpenIn
<1>3. L[i] = [by |-> L[i].by, state |-> L[i].state, reflects |-> L[i].reflects,
              cells |-> L[i].cells]
    BY <1>2 DEF LogOk, LayerOk
<1> DEFINE y == [L[i] EXCEPT !.state = state]
<1>4. y = [by |-> L[i].by, state |-> state, reflects |-> L[i].reflects, cells |-> L[i].cells]
    BY <1>3
<1>5. N = [j \in 1..Len(L) |-> IF j = i THEN y ELSE L[j]]
    BY <1>1, <1>2
<1>a. PICK z : z = y
    OBVIOUS
<1> HIDE DEF y
<1>6. DOMAIN N = 1..Len(L) /\ N[i] = z /\ \A j \in 1..Len(L) : j # i => N[j] = L[j]
    BY <1>2, <1>5, <1>a
<1>7. Len(N) = Len(L) /\ N = [j \in 1..Len(N) |-> N[j]]
  <2> DEFINE f == [j \in 1..Len(L) |-> IF j = i THEN y ELSE L[j]]
  <2>1. f \in [1..Len(L) -> {f[j] : j \in 1..Len(L)}]
        OBVIOUS
  <2>2. N = f
        BY <1>5
  <2> HIDE DEF f
  <2>3. f \in Seq({f[j] : j \in 1..Len(L)}) /\ Len(f) = Len(L) /\ f = [j \in 1..Len(L) |-> f[j]]
        BY <1>1, <2>1
  <2> QED BY <2>2, <2>3, Zenon
<1>b. /\ z = [by |-> z.by, state |-> z.state, reflects |-> z.reflects, cells |-> z.cells]
      /\ z.by = L[i].by /\ z.state = state /\ z.reflects = L[i].reflects /\ z.cells = L[i].cells
    BY <1>4, <1>a
<1>8. ASSUME NEW j \in 1..Len(N) PROVE LayerOk(N, j)
  <2>0. LayerOk(L, j)
        BY <1>7 DEF LogOk
  <2>1. CASE j = i
    <3>1. N[j] = z
          BY <1>6, <2>1
    <3> QED BY <1>2, <1>b, <2>0, <2>1, <3>1 DEF LayerOk
  <2>2. CASE j # i
    <3>1. N[j] = L[j]
          BY <1>6, <1>7, <2>2
    <3> QED BY <2>0, <3>1 DEF LayerOk
  <2> QED BY <2>1, <2>2
<1>9. LogOk(N)
    BY <1>1, <1>7, <1>8 DEF LogOk
<1>10. \A j \in 1..Len(L) : N[j].by = L[j].by /\ N[j].cells = L[j].cells
                            /\ N[j].reflects = L[j].reflects
    BY <1>6, <1>b
<1>11. \A j \in Done(L) : j \in Done(N)
  <2>1. \A j \in Done(L) : j \in 1..Len(L) /\ j # i
        BY <1>1, <1>2 DEF Done
  <2> QED BY <1>6, <1>7, <2>1 DEF Done
<1>12. \A j \in Done(N) : j \in Done(L) \/ j = i
    BY <1>1, <1>6 DEF Done
<1>13. \A j \in OpenIn(N) : j \in OpenIn(L) /\ j # i
    BY <1>1, <1>6, <1>b DEF OpenIn
<1>14. Later(L, N)
  <2>1. Len(L) <= Len(N)
        BY <1>1, <1>7
  <2>2. \A j \in Done(N) : j \in Done(L) \/ j \in OpenIn(L) \/ Len(L) < j
        BY <1>12
  <2>3. \A j \in OpenIn(N) : j \in OpenIn(L) \/ Len(L) < j
        BY <1>13
  <2> QED BY <1>9, <1>10, <1>11, <2>1, <2>2, <2>3, Zenon DEF Later
<1>15. NoneLanded(L, N)
    BY <1>7 DEF NoneLanded
<1> QED BY <1>7, <1>13, <1>14, <1>15

\* One layer of the engine above the others.
Appends(L, N, reflects, cells) ==
    N = Append(L, [by |-> "engine", state |-> "committed", reflects |-> reflects, cells |-> cells])

\* What a layer of the engine holds was computed at a layer of the log, from what it reads.
Sourced(L, cells) ==
    /\ DOMAIN cells \subseteq Derived
    /\ \A c \in DOMAIN cells : /\ cells[c].fresh \in Nat /\ cells[c].fresh <= Len(L)
                               /\ cells[c].reads = Reads[c]

\* N is L and the layer the engine landed, which is the highest that is done.
OneAbove(L, N, reflects, cells) ==
    /\ Later(L, N) /\ Len(L) \in Nat /\ Len(N) = Len(L) + 1 /\ TopOf(N) = Len(L) + 1
    /\ OpenIn(N) = OpenIn(L) /\ Done(N) = Done(L) \cup {Len(L) + 1}
    /\ N[Len(L) + 1].by = "engine" /\ N[Len(L) + 1].cells = cells
    /\ N[Len(L) + 1].reflects = reflects
    /\ \A i \in 1..Len(L) : N[i] = L[i]
    /\ \A i \in 1..Len(N) : i \in 1..Len(L) \/ i = Len(L) + 1

(* The engine lands a layer (Land, Run).                                    *)
LEMMA EngineIsLater ==
    ASSUME NEW L, LogOk(L), NEW N, NEW reflects \in Nat, NEW cells, Sourced(L, cells),
           Appends(L, N, reflects, cells)
    PROVE  OneAbove(L, N, reflects, cells)
<1> DEFINE x == [by |-> "engine", state |-> "committed", reflects |-> reflects, cells |-> cells]
<1>1. /\ x = [by |-> x.by, state |-> x.state, reflects |-> x.reflects, cells |-> x.cells]
      /\ x.by = "engine" /\ x.state = "committed" /\ x.cells = cells /\ x.reflects = reflects
    OBVIOUS
<1>2. N = Append(L, x)
    BY DEF Appends
<1> HIDE DEF x
<1>3. Adds(L, N, x)
    BY <1>2, AppendAdds, Zenon
<1>4. /\ Len(L) \in Nat /\ Len(N) = Len(L) + 1 /\ N[Len(L) + 1] = x
      /\ \A i \in 1..Len(L) : N[i] = L[i]
      /\ \A i \in 1..Len(N) : i \in 1..Len(L) \/ i = Len(L) + 1
      /\ DOMAIN N = 1..Len(N) /\ DOMAIN L = 1..Len(L)
    BY <1>3 DEF Adds
<1>5. LayerOk(N, Len(L) + 1)
    BY <1>1, <1>4 DEF LayerOk, Sourced
<1>6. Later(L, N) /\ LogOk(N)
    BY <1>3, <1>5, AppendIsLater DEF Later
<1>7. OpenIn(N) = OpenIn(L)
  <2>1. \A i \in OpenIn(N) : i \in OpenIn(L)
        BY <1>1, <1>4 DEF OpenIn
  <2>2. \A i \in OpenIn(L) : i \in OpenIn(N)
    <3>1. \A i \in 1..Len(L) : i \in 1..Len(N)
          BY <1>4
    <3> QED BY <1>4, <3>1 DEF OpenIn
  <2> QED BY <2>1, <2>2
<1>8. Done(N) = Done(L) \cup {Len(L) + 1}
  <2>1. \A i \in Done(N) : i \in Done(L) \cup {Len(L) + 1}
        BY <1>4 DEF Done
  <2>2. \A i \in Done(L) \cup {Len(L) + 1} : i \in Done(N)
    <3>1. Len(L) + 1 \in 1..Len(N)
          BY <1>4
    <3>2. Len(L) + 1 \in Done(N)
          BY <1>1, <1>4, <3>1 DEF Done
    <3>3. Done(L) \subseteq Done(N)
          BY <1>6 DEF Later
    <3> QED BY <3>2, <3>3
  <2> QED BY <2>1, <2>2
<1>9. TopOf(N) = Len(L) + 1
  <2>1. TopOf(N) \in Nat /\ TopOf(N) <= Len(N) /\ \A i \in Done(N) : i <= TopOf(N)
        BY <1>6, TopIs
  <2>2. Len(L) + 1 \in Done(N)
        BY <1>8
  <2>3. Len(L) + 1 <= TopOf(N)
        BY <2>1, <2>2
  <2>4. PICK t \in Nat : t = TopOf(N)
        BY <2>1
  <2>5. t <= Len(L) + 1 /\ Len(L) + 1 <= t
        BY <1>4, <2>1, <2>3, <2>4
  <2>6. t = Len(L) + 1
        BY <1>4, <2>4, <2>5
  <2> QED BY <2>4, <2>6
<1> QED BY <1>1, <1>4, <1>6, <1>7, <1>8, <1>9 DEF OneAbove

\* One layer of the engine above the others, no client writing.
Lands(L, N, reflects, cells) ==
    /\ OpenIn(L) = {}
    /\ N = Append(L, [by |-> "engine", state |-> "committed", reflects |-> reflects, cells |-> cells])

(* The same where no client is writing.                                      *)
LEMMA LandIsLater ==
    ASSUME NEW L, LogOk(L), NEW N, NEW reflects \in Nat, NEW cells, Sourced(L, cells),
           Lands(L, N, reflects, cells)
    PROVE  OneAbove(L, N, reflects, cells) /\ OpenIn(N) = {}
<1>1. OpenIn(L) = {} /\ Appends(L, N, reflects, cells)
    BY Zenon DEF Lands, Appends
<1>2. OneAbove(L, N, reflects, cells)
    BY <1>1, EngineIsLater
<1> QED BY <1>1, <1>2 DEF OneAbove

(* What is firm stays what it was: what is read at it, and what a replay at *)
(* it gives.                                                                *)
LEMMA FirmStays ==
    ASSUME NEW L, NEW N, Later(L, N), NEW k \in Nat, k <= Len(L), Firm(L, k)
    PROVE  /\ Firm(N, k)
           /\ \A c : /\ Landing(N, c, k) = Landing(L, c, k)
                     /\ Landing(L, c, k) # 0 => RecordOf(N, c, k) = RecordOf(L, c, k)
           /\ \A c \in Cell : ReplayOf(N, k)[c] = ReplayOf(L, k)[c]
<1>0. LogOk(L) /\ LogOk(N) /\ DOMAIN L = 1..Len(L) /\ DOMAIN N = 1..Len(N) /\ Len(L) \in Nat
    BY DEF Later, LogOk
<1>1. Firm(N, k)
  <2>1. \A j \in OpenIn(N) : j \in Nat
        BY <1>0 DEF OpenIn
  <2> QED BY <1>0, <2>1 DEF Firm, Later
<1>2. \A i \in Done(N) : i <= k => i \in Done(L)
  <2>1. \A i \in Done(N) : i \in Nat
        BY <1>0 DEF Done
  <2>2. \A i \in Done(N) : i <= k => ~(Len(L) < i) /\ i \notin OpenIn(L)
        BY <1>0, <2>1 DEF Firm
  <2> QED BY <2>2 DEF Later
<1>3. \A i \in Done(L) : i \in Done(N) /\ i \in 1..Len(L) /\ N[i].cells = L[i].cells
    BY <1>0 DEF Later, Done
<1>4. ASSUME NEW c
      PROVE  /\ Landing(N, c, k) = Landing(L, c, k)
             /\ Landing(L, c, k) # 0 => RecordOf(N, c, k) = RecordOf(L, c, k)
  <2>1. \A i : i \in LayersOf(N, c, k) <=> i \in LayersOf(L, c, k)
        BY <1>2, <1>3 DEF LayersOf
  <2>2. LayersOf(N, c, k) = LayersOf(L, c, k)
        BY <2>1
  <2>3. Landing(N, c, k) = Landing(L, c, k)
        BY <2>2 DEF Landing
  <2>4. Landing(L, c, k) # 0 => Landing(L, c, k) \in Done(L)
        BY <1>0, LandingIs DEF LayersOf
  <2> QED BY <1>3, <2>3, <2>4 DEF RecordOf
<1>5. \A c \in Cell : ReplayOf(N, k)[c] = ReplayOf(L, k)[c]
    BY <1>0, <1>4, ReplaySame
<1> QED BY <1>1, <1>4, <1>5

(* A source cell is read from the same layer or a higher one in a later     *)
(* log, and a derived one from the same unless the engine landed.           *)
LEMMA LandingGrows ==
    ASSUME NEW L, NEW N, Later(L, N), NEW k \in Nat
    PROVE  /\ \A c : Landing(L, c, k) <= Landing(N, c, k)
           /\ TopOf(L) <= TopOf(N)
           /\ NoneLanded(L, N) => \A c \in Derived :
                 /\ Landing(N, c, k) = Landing(L, c, k)
                 /\ Landing(L, c, k) # 0 => RecordOf(N, c, k) = RecordOf(L, c, k)
<1>0. LogOk(L) /\ LogOk(N) /\ DOMAIN L = 1..Len(L) /\ DOMAIN N = 1..Len(N) /\ Len(L) \in Nat
    BY DEF Later, LogOk
<1>1. \A i \in Done(L) : i \in Done(N) /\ i \in 1..Len(L) /\ N[i].cells = L[i].cells
    BY <1>0 DEF Later, Done
<1>2. ASSUME NEW c PROVE LayersOf(L, c, k) \subseteq LayersOf(N, c, k)
    BY <1>1 DEF LayersOf
<1>3. ASSUME NEW c PROVE Landing(L, c, k) <= Landing(N, c, k)
  <2>1. /\ Landing(L, c, k) \in Nat /\ Landing(N, c, k) \in Nat
        /\ Landing(L, c, k) # 0 => Landing(L, c, k) \in LayersOf(L, c, k)
        /\ \A i \in LayersOf(N, c, k) : i <= Landing(N, c, k)
        BY <1>0, LandingIs
  <2> QED BY <1>2, <2>1
<1>4. TopOf(L) <= TopOf(N)
  <2>1. /\ TopOf(L) \in Nat /\ TopOf(N) \in Nat /\ TopOf(L) \in {0} \cup Done(L)
        /\ \A i \in Done(N) : i <= TopOf(N)
        BY <1>0, TopIs
  <2> QED BY <1>1, <2>1
<1>5. ASSUME NoneLanded(L, N), NEW c \in Derived
      PROVE  /\ Landing(N, c, k) = Landing(L, c, k)
             /\ Landing(L, c, k) # 0 => RecordOf(N, c, k) = RecordOf(L, c, k)
  <2>1. ASSUME NEW i \in LayersOf(N, c, k) PROVE i \in LayersOf(L, c, k)
    <3>1. i \in Done(N) /\ i <= k /\ c \in DOMAIN N[i].cells /\ i \in 1..Len(N)
          BY <1>0, <2>1 DEF LayersOf, Done
    <3>2. LayerOk(N, i)
          BY <1>0, <3>1 DEF LogOk
    <3>3. N[i].by = "engine"
          BY <3>1, <3>2, ResolveAssumption DEF LayerOk
    <3>4. i \in 1..Len(L)
          BY <1>5, <3>1, <3>3 DEF NoneLanded
    <3>5. L[i].by = "engine" /\ L[i].cells = N[i].cells
          BY <3>3, <3>4 DEF Later
    <3>6. LayerOk(L, i)
          BY <1>0, <3>4 DEF LogOk
    <3>7. i \in Done(L)
          BY <1>0, <3>4, <3>5, <3>6 DEF LayerOk, Done
    <3> QED BY <3>1, <3>5, <3>7 DEF LayersOf
  <2>2. LayersOf(N, c, k) = LayersOf(L, c, k)
        BY <1>2, <2>1
  <2>3. Landing(N, c, k) = Landing(L, c, k)
        BY <2>2 DEF Landing
  <2>4. Landing(L, c, k) # 0 => Landing(L, c, k) \in Done(L)
        BY <1>0, LandingIs DEF LayersOf
  <2> QED BY <1>1, <2>3, <2>4 DEF RecordOf
<1> QED BY <1>3, <1>4, <1>5

(* Above what is committed last, a cell is read from where it is read there *)
(* (Top is the head of the branch).                                         *)
LEMMA AtTheTop ==
    ASSUME NEW L, LogOk(L), NEW k \in Nat, TopOf(L) <= k
    PROVE  \A c : Landing(L, c, k) = Landing(L, c, TopOf(L))
<1> SUFFICES ASSUME NEW c PROVE Landing(L, c, k) = Landing(L, c, TopOf(L))
    OBVIOUS
<1>1. TopOf(L) \in Nat /\ \A i \in Done(L) : i \in 1..Len(L) /\ i <= TopOf(L)
    BY TopIs
<1>2. \A i : i \in LayersOf(L, c, k) <=> i \in LayersOf(L, c, TopOf(L))
    BY <1>1 DEF LayersOf
<1>3. LayersOf(L, c, k) = LayersOf(L, c, TopOf(L))
    BY <1>2
<1> QED BY <1>3 DEF Landing

(* What the engine has landed stays as true as it was.                      *)
LEMMA SoundStays ==
    ASSUME NEW L, NEW N, Later(L, N), EngineOk(L), StampsOk(L)
    PROVE  \A i \in 1..Len(L) : N[i].by = "engine" =>
              /\ Firm(N, i)
              /\ \A c \in DOMAIN N[i].cells :
                    /\ \A d \in ToSet(Reads[c]) \cap Derived : Landing(N, d, i) # 0
                    /\ N[i].cells[c].value = ReplayOf(N, N[i].cells[c].fresh)[c]
<1> SUFFICES ASSUME NEW i \in 1..Len(L), N[i].by = "engine"
             PROVE  /\ Firm(N, i)
                    /\ \A c \in DOMAIN N[i].cells :
                          /\ \A d \in ToSet(Reads[c]) \cap Derived : Landing(N, d, i) # 0
                          /\ N[i].cells[c].value = ReplayOf(N, N[i].cells[c].fresh)[c]
    OBVIOUS
<1>1. L[i].by = "engine" /\ N[i].cells = L[i].cells /\ LogOk(L)
    BY DEF Later
<1>2. Firm(L, i) /\ i \in Nat /\ i <= Len(L) /\ Len(L) \in Nat
    BY <1>1 DEF EngineOk, LogOk
<1>3. Firm(N, i) /\ \A d : Landing(N, d, i) = Landing(L, d, i)
    BY <1>2, FirmStays
<1>4. ASSUME NEW c \in DOMAIN L[i].cells
      PROVE  /\ \A d \in ToSet(Reads[c]) \cap Derived : Landing(N, d, i) # 0
             /\ L[i].cells[c].value = ReplayOf(N, L[i].cells[c].fresh)[c]
  <2>1. \A d \in ToSet(Reads[c]) \cap Derived : Landing(N, d, i) # 0
        BY <1>1, <1>3, <1>4 DEF EngineOk
  <2>2. LayerOk(L, i)
        BY <1>1 DEF LogOk
  <2>3. PICK k : k = L[i].cells[c].fresh
        OBVIOUS
  <2>4. k \in Nat /\ k < i /\ c \in Derived
        BY <1>1, <1>4, <2>2, <2>3 DEF LayerOk
  <2>5. Firm(L, k) /\ k <= Len(L)
    <3>1. \A j \in OpenIn(L) : j \in Nat
          BY <1>1 DEF OpenIn, LogOk
    <3> QED BY <1>2, <2>4, <3>1 DEF Firm
  <2>6. ReplayOf(N, k)[c] = ReplayOf(L, k)[c]
        BY <2>4, <2>5, FirmStays DEF Cell
  <2>7. L[i].cells[c].value = ReplayOf(L, k)[c]
        BY <1>1, <1>4, <2>3 DEF StampsOk
  <2> QED BY <2>1, <2>3, <2>6, <2>7
<1> QED BY <1>1, <1>3, <1>4

(* A client's step leaves what the engine landed as sound as it was.        *)
LEMMA ClientsKeepSound ==
    ASSUME NEW L, NEW N, Later(L, N), NoneLanded(L, N), EngineOk(L), StampsOk(L)
    PROVE  LogOk(N) /\ EngineOk(N) /\ StampsOk(N)
<1>1. \A i \in 1..Len(N) : N[i].by = "engine" => i \in 1..Len(L)
    BY DEF NoneLanded
<1>2. EngineOk(N)
    BY <1>1, SoundStays DEF EngineOk
<1>3. StampsOk(N)
    BY <1>1, SoundStays DEF StampsOk
<1> QED BY <1>2, <1>3 DEF Later

(* A stamp is firm.                                                         *)
LEMMA StampIsFirm ==
    ASSUME NEW L, LogOk(L), EngineOk(L), NEW c \in Derived, NEW k \in Nat, Landing(L, c, k) # 0
    PROVE  /\ RecordOf(L, c, k).fresh \in Nat /\ RecordOf(L, c, k).fresh <= Len(L)
           /\ RecordOf(L, c, k).fresh < k /\ Firm(L, RecordOf(L, c, k).fresh)
<1>1. PICK i : i = Landing(L, c, k)
    OBVIOUS
<1>2. PICK m : m = RecordOf(L, c, k).fresh
    OBVIOUS
<1>3. m \in Nat /\ m < i /\ i \in 1..Len(L) /\ i <= k /\ L[i].by = "engine"
    BY <1>1, <1>2, RecordIs
<1>4. Firm(L, i)
    BY <1>3 DEF EngineOk
<1>5. \A j \in OpenIn(L) : j \in Nat
    BY DEF OpenIn, LogOk
<1>6. Firm(L, m)
    BY <1>3, <1>4, <1>5 DEF Firm
<1>7. Len(L) \in Nat
    BY DEF LogOk
<1> QED BY <1>2, <1>3, <1>6, <1>7

---------------------------------------------------------------------------
(* What holds as long as no producer broke                                  *)

\* What a watermark promises of the values that are there: made at or above it, or what a
\* replay at it gives, or a replay above it differs and the next round will see why.
KeptOne(L, m, c) ==
    \/ RecordOf(L, c, TopOf(L)).fresh >= m
    \/ ReplayOf(L, RecordOf(L, c, TopOf(L)).fresh)[c] = ReplayOf(L, m)[c]
    \/ \E t \in m..TopOf(L) : Firm(L, t) /\ ReplayOf(L, t)[c] # ReplayOf(L, m)[c]

Kept(L, m) == \A c \in Derived : Landing(L, c, TopOf(L)) # 0 => KeptOne(L, m, c)

\* The same of a round that has forked, whose fork point is where the difference shows.
KeptAt(L, m, k, c) ==
    \/ RecordOf(L, c, k).fresh >= m
    \/ ReplayOf(L, RecordOf(L, c, k).fresh)[c] = ReplayOf(L, m)[c]
    \/ ReplayOf(L, k)[c] # ReplayOf(L, m)[c]

Forked(L, m, rd) ==
    /\ rd.reflects \in Nat /\ rd.forkAt \in Nat
    /\ m <= rd.reflects /\ rd.reflects <= rd.forkAt /\ rd.forkAt <= TopOf(L)
    /\ Firm(L, rd.forkAt)
    /\ \A i \in 1..Len(L) : L[i].by = "engine" => i <= rd.forkAt
    /\ \A i \in Done(L) : L[i].by = "client" => i <= rd.reflects \/ rd.forkAt < i
    /\ \A c \in Derived : Landing(L, c, rd.forkAt) # 0 => KeptAt(L, m, rd.forkAt, c)

RoundOk(L, m, rd) ==
    /\ rd = [phase |-> rd.phase, forkAt |-> rd.forkAt, reflects |-> rd.reflects]
    /\ \A i \in 1..Len(L) : L[i].by = "engine" =>
          L[i].reflects <= m \/ (rd.phase = "landed" /\ L[i].reflects <= rd.reflects)
    /\ \/ rd = NoRound /\ Kept(L, m)
       \/ rd.phase = "forked" /\ Forked(L, m, rd)
       \/ /\ rd.phase = "landed" /\ rd.reflects \in m..TopOf(L) /\ Firm(L, rd.reflects)
          /\ Kept(L, rd.reflects)

\* Nobody is writing, nothing is being derived, and the value at the head is a replay's.
Settled(L, rd, c) ==
    OpenIn(L) = {} /\ rd = NoRound /\ ValueOf(L, c, TopOf(L)) = ReplayOf(L, TopOf(L))[c]

\* What is to be run is there, and each cell's inputs come before it or are settled.
TodoOk(L, rd, todo) ==
    /\ todo \in Seq(Derived)
    /\ \A k \in 1..Len(todo) :
          /\ Landing(L, todo[k], TopOf(L)) # 0
          /\ \A d \in ToSet(Reads[todo[k]]) \cap Derived :
                (\E j \in 1..(k - 1) : todo[j] = d) \/ Settled(L, rd, d)

\* A reader that runs a producer has claimed a head that nobody writes above.
RunOk(L, m, rd, x) ==
    /\ x.todo # <<>> /\ OpenIn(L) = {} /\ rd = NoRound /\ x.claim \in m..TopOf(L)
    /\ \A i \in Done(L) : L[i].by = "client" => i <= x.claim

\* A reader that validates holds the record of its ceiling, and noted the ceiling among
\* the layers whose replay gives the value, if it does.
ValidateOk(L, x) ==
    /\ x.ceiling \in 0..TopOf(L) /\ Landing(L, x.ask.cell, x.ceiling) # 0
    /\ x.record = RecordOf(L, x.ask.cell, x.ceiling)
    /\ ReplayOf(L, x.ceiling)[x.ask.cell] = x.record.value => x.ceiling \in x.holds

CallOk(L, m, rd, x) ==
    /\ x = [at |-> x.at, ask |-> x.ask, ceiling |-> x.ceiling, record |-> x.record,
            todo |-> x.todo, claim |-> x.claim, holds |-> x.holds, calm |-> x.calm,
            answer |-> x.answer]
    /\ x.answer # None /\ x.answer.state = "current" => x.answer.fresh \in x.answer.holds
    /\ x.at # "none" =>
          x.ask \in Requests /\ (x.ask.pinned => x.ceiling \in 0..TopOf(L))
    /\ x.at \in {"compute", "run"} => TodoOk(L, rd, x.todo)
    /\ x.at = "run" => RunOk(L, m, rd, x)
    /\ x.at = "validate" => ValidateOk(L, x)

CallsOk(L, m, rd, x) ==
    x = [r \in Reader |-> x[r]] /\ \A r \in Reader : CallOk(L, m, rd, x[r])

MarkOk(L, m) == m <= TopOf(L) /\ Firm(L, m)

LogPart == LogOk(log) /\ EngineOk(log) /\ StampsOk(log)

(* A client's step keeps what a watermark promises.                         *)
LEMMA ClientsKeepKept ==
    ASSUME NEW L, NEW N, Later(L, N), NoneLanded(L, N), EngineOk(L),
           NEW m \in Nat, m <= TopOf(L), Firm(L, m), Kept(L, m)
    PROVE  Kept(N, m)
<1>0. LogOk(L) /\ LogOk(N) /\ Len(L) \in Nat /\ TopOf(L) \in Nat /\ TopOf(N) \in Nat
      /\ TopOf(L) <= Len(L) /\ TopOf(L) <= TopOf(N)
    BY TopIs, LandingGrows DEF Later, LogOk
<1> SUFFICES ASSUME NEW c \in Derived, Landing(N, c, TopOf(N)) # 0 PROVE KeptOne(N, m, c)
    BY DEF Kept
<1>1. Landing(L, c, TopOf(N)) # 0 /\ RecordOf(N, c, TopOf(N)) = RecordOf(L, c, TopOf(N))
    BY <1>0, LandingGrows
<1>2. Landing(L, c, TopOf(N)) = Landing(L, c, TopOf(L))
    BY <1>0, AtTheTop
<1>3. PICK f : f = RecordOf(L, c, TopOf(L)).fresh
    OBVIOUS
<1>4. RecordOf(N, c, TopOf(N)).fresh = f /\ Landing(L, c, TopOf(L)) # 0
    BY <1>1, <1>2, <1>3 DEF RecordOf
<1>5. f \in Nat /\ f <= Len(L) /\ Firm(L, f)
    BY <1>0, <1>3, <1>4, StampIsFirm
<1>6. ReplayOf(N, f)[c] = ReplayOf(L, f)[c]
    BY <1>5, FirmStays DEF Cell
<1>7. m <= Len(L)
    BY <1>0
<1>8. ReplayOf(N, m)[c] = ReplayOf(L, m)[c]
    BY <1>7, FirmStays DEF Cell
<1>9. KeptOne(L, m, c)
    BY <1>4 DEF Kept
<1>10. ASSUME NEW t \in m..TopOf(L), Firm(L, t), ReplayOf(L, t)[c] # ReplayOf(L, m)[c]
       PROVE  t \in m..TopOf(N) /\ Firm(N, t) /\ ReplayOf(N, t)[c] # ReplayOf(N, m)[c]
  <2>1. t \in Nat /\ t <= Len(L) /\ t \in m..TopOf(N)
        BY <1>0
  <2>2. Firm(N, t) /\ ReplayOf(N, t)[c] = ReplayOf(L, t)[c]
        BY <1>10, <2>1, FirmStays DEF Cell
  <2> QED BY <1>8, <1>10, <2>1, <2>2
<1>11. CASE f >= m
    BY <1>4, <1>11 DEF KeptOne
<1>12. CASE ReplayOf(L, f)[c] = ReplayOf(L, m)[c]
    BY <1>4, <1>6, <1>8, <1>12 DEF KeptOne
<1>13. CASE \E t \in m..TopOf(L) : Firm(L, t) /\ ReplayOf(L, t)[c] # ReplayOf(L, m)[c]
    BY <1>10, <1>13 DEF KeptOne
<1> QED BY <1>3, <1>9, <1>11, <1>12, <1>13 DEF KeptOne

(* A client's step keeps a round that has forked: no layer below its fork   *)
(* point is open any more (span stops before the first open layer).         *)
LEMMA ClientsKeepForked ==
    ASSUME NEW L, NEW N, Later(L, N), NoneLanded(L, N), EngineOk(L),
           NEW m \in Nat, MarkOk(L, m), NEW rd, Forked(L, m, rd)
    PROVE  Forked(N, m, rd)
<1>0. LogOk(L) /\ LogOk(N) /\ Len(L) \in Nat /\ TopOf(L) \in Nat /\ TopOf(N) \in Nat
      /\ TopOf(L) <= Len(L) /\ TopOf(L) <= TopOf(N) /\ DOMAIN N = 1..Len(N) /\ DOMAIN L = 1..Len(L)
    BY TopIs, LandingGrows DEF Later, LogOk
<1>1. PICK k : k = rd.forkAt
    OBVIOUS
<1>2. /\ k \in Nat /\ rd.reflects \in Nat /\ m <= rd.reflects /\ rd.reflects <= k /\ k <= TopOf(L)
      /\ Firm(L, k) /\ k <= Len(L) /\ k <= TopOf(N)
    BY <1>0, <1>1 DEF Forked
<1>3. /\ Firm(N, k)
      /\ \A c : /\ Landing(N, c, k) = Landing(L, c, k)
                /\ Landing(L, c, k) # 0 => RecordOf(N, c, k) = RecordOf(L, c, k)
      /\ \A c \in Cell : ReplayOf(N, k)[c] = ReplayOf(L, k)[c]
    BY <1>2, FirmStays
<1>4. \A i \in 1..Len(N) : N[i].by = "engine" => i <= k
    BY <1>1 DEF NoneLanded, Forked, Later
<1>5. ASSUME NEW i \in Done(N), N[i].by = "client" PROVE i <= rd.reflects \/ k < i
  <2>0. i \in Nat
        BY <1>0 DEF Done
  <2>1. CASE i \in Done(L)
    <3>1. L[i].by = "client"
          BY <1>0, <1>5, <2>1 DEF Later, Done
    <3> QED BY <1>1, <2>1, <3>1 DEF Forked
  <2>2. CASE i \in OpenIn(L)
        BY <1>2, <2>2 DEF Firm
  <2>3. CASE Len(L) < i
        BY <1>0, <1>2, <2>0, <2>3
  <2> QED BY <2>1, <2>2, <2>3 DEF Later
<1>6. ASSUME NEW c \in Derived, Landing(N, c, k) # 0 PROVE KeptAt(N, m, k, c)
  <2>1. Landing(L, c, k) # 0 /\ RecordOf(N, c, k) = RecordOf(L, c, k)
        BY <1>3, <1>6
  <2>2. KeptAt(L, m, k, c)
        BY <1>1, <2>1 DEF Forked
  <2>3. PICK f : f = RecordOf(L, c, k).fresh
        OBVIOUS
  <2>4. f \in Nat /\ f <= Len(L) /\ Firm(L, f)
        BY <1>0, <1>2, <2>1, <2>3, StampIsFirm
  <2>5. ReplayOf(N, f)[c] = ReplayOf(L, f)[c]
        BY <2>4, FirmStays DEF Cell
  <2>6. m <= Len(L) /\ Firm(L, m)
        BY <1>0 DEF MarkOk
  <2>7. ReplayOf(N, m)[c] = ReplayOf(L, m)[c]
        BY <2>6, FirmStays DEF Cell
  <2>8. ReplayOf(N, k)[c] = ReplayOf(L, k)[c]
        BY <1>3 DEF Cell
  <2> QED BY <2>1, <2>2, <2>3, <2>5, <2>7, <2>8 DEF KeptAt
<1> QED BY <1>1, <1>2, <1>3, <1>4, <1>5, <1>6 DEF Forked

(* A client's step leaves rounds and marks as they are.                     *)
LEMMA ClientsKeepRound ==
    ASSUME NEW L, NEW N, Later(L, N), NoneLanded(L, N), EngineOk(L),
           NEW m \in Nat, MarkOk(L, m), NEW rd, RoundOk(L, m, rd)
    PROVE  MarkOk(N, m) /\ RoundOk(N, m, rd)
<1>0. LogOk(L) /\ LogOk(N) /\ Len(L) \in Nat /\ TopOf(L) \in Nat /\ TopOf(N) \in Nat
      /\ TopOf(L) <= Len(L) /\ TopOf(L) <= TopOf(N)
    BY TopIs, LandingGrows DEF Later, LogOk
<1>1. m <= Len(L) /\ m <= TopOf(L) /\ m <= TopOf(N) /\ Firm(L, m)
    BY <1>0 DEF MarkOk
<1>2. MarkOk(N, m)
    BY <1>1, FirmStays DEF MarkOk
<1>3. \A i \in 1..Len(N) : N[i].by = "engine" =>
         N[i].reflects <= m \/ (rd.phase = "landed" /\ N[i].reflects <= rd.reflects)
    BY DEF NoneLanded, Later, RoundOk
<1>4. CASE rd = NoRound /\ Kept(L, m)
  <2>1. Kept(N, m)
        BY <1>1, <1>4, ClientsKeepKept
  <2> QED BY <1>2, <1>3, <1>4, <2>1 DEF RoundOk
<1>5. CASE rd.phase = "forked" /\ Forked(L, m, rd)
  <2>1. Forked(N, m, rd)
        BY <1>5, ClientsKeepForked
  <2> QED BY <1>2, <1>3, <1>5, <2>1 DEF RoundOk
<1>6. CASE rd.phase = "landed" /\ rd.reflects \in m..TopOf(L) /\ Firm(L, rd.reflects) /\ Kept(L, rd.reflects)
  <2>1. PICK w : w = rd.reflects
        OBVIOUS
  <2>2. w \in Nat /\ w <= TopOf(L) /\ w <= Len(L) /\ w \in m..TopOf(N) /\ Firm(L, w) /\ Kept(L, w)
        BY <1>0, <1>6, <2>1
  <2>3. Kept(N, w)
        BY <2>2, ClientsKeepKept
  <2>4. Firm(N, w)
        BY <2>2, FirmStays
  <2> QED BY <1>2, <1>3, <1>6, <2>1, <2>2, <2>3, <2>4 DEF RoundOk
<1> QED BY <1>4, <1>5, <1>6 DEF RoundOk

\* The same call, whether or not the reader was alone.
Alike(x, y) ==
    y = [at |-> x.at, ask |-> x.ask, ceiling |-> x.ceiling, record |-> x.record,
         todo |-> x.todo, claim |-> x.claim, holds |-> x.holds, calm |-> y.calm,
         answer |-> x.answer]

(* A record that is being validated stays what it was when it was looked    *)
(* up; and if a replay at the ceiling gives its value now, it did then:     *)
(* what is committed late only takes values away from replays.              *)
LEMMA ValidateStays ==
    ASSUME NEW L, NEW N, Later(L, N), EngineOk(L), StampsOk(L), NEW x, x.ask \in Requests,
           ValidateOk(L, x),
           /\ Landing(N, x.ask.cell, x.ceiling) = Landing(L, x.ask.cell, x.ceiling)
           /\ RecordOf(N, x.ask.cell, x.ceiling) = RecordOf(L, x.ask.cell, x.ceiling)
    PROVE  ValidateOk(N, x)
<1> DEFINE c == x.ask.cell
           k == x.ceiling
           record == RecordOf(L, c, k)
<1>0. LogOk(L) /\ LogOk(N) /\ TopOf(L) \in Nat /\ TopOf(N) \in Nat /\ TopOf(L) <= TopOf(N)
    BY TopIs, LandingGrows DEF Later
<1>1. c \in Derived /\ c \in Cell
    BY ResolveAssumption DEF Cell
<1>2. k \in 0..TopOf(L) /\ Landing(L, c, k) # 0 /\ x.record = record
    BY DEF ValidateOk
<1>3. k \in Nat /\ k \in 0..TopOf(N)
    BY <1>0, <1>2
<1>4. PICK f : f = record.fresh
    OBVIOUS
<1>5. f \in Nat /\ f <= Len(L) /\ f < k /\ Firm(L, f)
    BY <1>0, <1>1, <1>2, <1>3, <1>4, StampIsFirm
<1>6. record.value = ReplayOf(L, f)[c]
  <2>1. ValueOf(L, c, k) = ReplayOf(L, f)[c]
        BY <1>0, <1>1, <1>2, <1>3, <1>4, RecordIs
  <2> QED BY <1>2, <2>1 DEF ValueOf
<1>7. \A s : Landing(N, s, f) = Landing(L, s, f)
    BY <1>5, FirmStays
<1>8. ReplayOf(N, f)[c] = ReplayOf(L, f)[c]
    BY <1>1, <1>5, FirmStays
<1>9. ASSUME NEW s \in Source, Landing(N, s, f) = Landing(N, s, k)
      PROVE  Landing(L, s, f) = Landing(L, s, k)
  <2>1. Landing(L, s, k) <= Landing(N, s, k)
        BY <1>3, LandingGrows
  <2>2. Landing(L, s, f) <= Landing(L, s, k)
        BY <1>0, <1>3, <1>5, LandingRises
  <2>3. Landing(L, s, f) \in Nat /\ Landing(L, s, k) \in Nat
        BY <1>0, <1>3, <1>5, LandingIs
  <2> QED BY <1>7, <1>9, <2>1, <2>2, <2>3
<1>10. ASSUME ReplayOf(N, k)[c] = record.value PROVE k \in x.holds
  <2>1. ReplayOf(N, f)[c] = ReplayOf(N, k)[c]
        BY <1>6, <1>8, <1>10
  <2>a. \A e \in Cell : ReplayOf(N, f)[e] = ReplayOf(N, k)[e]
                           => ReplayOf(L, f)[e] = ReplayOf(L, k)[e]
    <3> HIDE DEF k
    <3> QED BY <1>0, <1>3, <1>5, <1>9, ReplayFollows
  <2>2. ReplayOf(L, f)[c] = ReplayOf(L, k)[c]
        BY <1>1, <2>1, <2>a
  <2>3. ReplayOf(L, k)[c] = x.record.value
        BY <1>2, <1>6, <2>2
  <2> QED BY <2>3 DEF ValidateOk
<1> QED BY <1>2, <1>3, <1>10 DEF ValidateOk

(* A client's step leaves a reader's call as it is, if nobody computes or   *)
(* the client had a layer open.                                             *)
LEMMA ClientsKeepCall ==
    ASSUME NEW L, NEW N, Later(L, N), NoneLanded(L, N), EngineOk(L), StampsOk(L),
           NEW m, NEW rd, NEW x, CallOk(L, m, rd, x), NEW y, Alike(x, y),
           x.at \notin {"compute", "run"} \/ OpenIn(L) # {}
    PROVE  CallOk(N, m, rd, y)
<1>0. LogOk(L) /\ LogOk(N) /\ TopOf(L) \in Nat /\ TopOf(N) \in Nat /\ TopOf(L) <= TopOf(N)
    BY TopIs, LandingGrows DEF Later
<1>1. y = [at |-> y.at, ask |-> y.ask, ceiling |-> y.ceiling, record |-> y.record,
           todo |-> y.todo, claim |-> y.claim, holds |-> y.holds, calm |-> y.calm,
           answer |-> y.answer]
      /\ y.at = x.at /\ y.ask = x.ask /\ y.ceiling = x.ceiling /\ y.record = x.record
      /\ y.todo = x.todo /\ y.claim = x.claim /\ y.holds = x.holds /\ y.answer = x.answer
    BY DEF Alike
<1>2. y.answer # None /\ y.answer.state = "current" => y.answer.fresh \in y.answer.holds
    BY <1>1 DEF CallOk
<1>3. y.at # "none" => y.ask \in Requests /\ (y.ask.pinned => y.ceiling \in 0..TopOf(N))
    BY <1>0, <1>1 DEF CallOk
<1>4. ASSUME y.at \in {"compute", "run"} PROVE TodoOk(N, rd, y.todo)
  <2>1. TodoOk(L, rd, x.todo) /\ OpenIn(L) # {}
        BY <1>1, <1>4 DEF CallOk
  <2>2. PICK s : s = x.todo
        OBVIOUS
  <2>3. s \in Seq(Derived) /\ Len(s) \in Nat /\ \A k \in 1..Len(s) : s[k] \in Derived
        BY <2>1, <2>2 DEF TodoOk
  <2>4. ASSUME NEW k \in 1..Len(s) PROVE Landing(N, s[k], TopOf(N)) # 0
    <3>1. Landing(L, s[k], TopOf(L)) # 0
          BY <2>1, <2>2 DEF TodoOk
    <3>2. Landing(L, s[k], TopOf(N)) = Landing(L, s[k], TopOf(L))
          BY <1>0, AtTheTop
    <3>3. Landing(N, s[k], TopOf(N)) = Landing(L, s[k], TopOf(N))
          BY <1>0, <2>3, LandingGrows
    <3> QED BY <3>1, <3>2, <3>3
  <2>5. ASSUME NEW k \in 1..Len(s), NEW d \in ToSet(Reads[s[k]]) \cap Derived
        PROVE  \E j \in 1..(k - 1) : s[j] = d
    <3>1. ~Settled(L, rd, d)
          BY <2>1 DEF Settled
    <3> QED BY <2>1, <2>2, <3>1 DEF TodoOk
  <2> QED BY <1>1, <2>2, <2>3, <2>4, <2>5 DEF TodoOk
<1>5. y.at # "run"
    BY <1>1 DEF CallOk, RunOk
<1>6. ASSUME y.at = "validate" PROVE ValidateOk(N, y)
  <2>1. ValidateOk(L, x) /\ x.ask \in Requests
        BY <1>1, <1>6 DEF CallOk
  <2>2. x.ask.cell \in Derived /\ x.ceiling \in Nat /\ Landing(L, x.ask.cell, x.ceiling) # 0
        BY <1>0, <2>1, ResolveAssumption DEF ValidateOk
  <2>3. /\ Landing(N, x.ask.cell, x.ceiling) = Landing(L, x.ask.cell, x.ceiling)
        /\ RecordOf(N, x.ask.cell, x.ceiling) = RecordOf(L, x.ask.cell, x.ceiling)
        BY <2>2, LandingGrows
  <2>4. ValidateOk(N, x)
        BY <2>1, <2>3, ValidateStays
  <2> QED BY <1>1, <2>4 DEF ValidateOk
<1> QED BY <1>1, <1>2, <1>3, <1>4, <1>5, <1>6 DEF CallOk

---------------------------------------------------------------------------
(* The steps, one by one                                                    *)

\* What the invariant says as long as no producer broke, for the watermark m.
Holds(m) ==
    /\ LogPart /\ m \in Nat /\ mark = [p \in Derived |-> m] /\ MarkOk(log, m)
    /\ RoundOk(log, m, round) /\ CallsOk(log, m, round, call)

\* The inductive invariant: nothing is said of a branch one of whose producers broke.
ResolveInv ==
    /\ broken = [now |-> broken.now, ever |-> broken.ever] /\ broken.ever \in BOOLEAN
    /\ ~broken.ever => broken.now = {} /\ \E m : Holds(m)

(* Write.                                                                   *)
LEMMA WriteKeeps ==
    ASSUME NEW m, Holds(m), Overlap = FALSE, NEW c \in Source, Write(c)
    PROVE  Holds(m)'
<1> PICK L : L = log
    OBVIOUS
<1> PICK N : N = log'
    OBVIOUS
<1>1. LogOk(L) /\ EngineOk(L) /\ StampsOk(L)
    BY DEF Holds, LogPart
<1>2. N = Append(L, [by |-> "client", state |-> "open", reflects |-> 0,
          cells |-> [d \in {c} |-> [value |-> <<Len(L) + 1>>, fresh |-> 0, reads |-> <<>>]]])
    BY DEF Write
<1>3. Later(L, N) /\ NoneLanded(L, N)
    BY <1>1, <1>2, WriteIsLater
<1>4. LogOk(N) /\ EngineOk(N) /\ StampsOk(N)
    BY <1>1, <1>3, ClientsKeepSound
<1>5. MarkOk(N, m) /\ RoundOk(N, m, round)
    BY <1>1, <1>3, ClientsKeepRound DEF Holds
<1>6. ASSUME NEW r \in Reader PROVE CallOk(N, m, round, call[r])
  <2>1. call[r].at \notin {"compute", "run"}
        BY DEF Write, Computing
  <2>2. PICK x : x = call[r]
        OBVIOUS
  <2>3. CallOk(L, m, round, x)
        BY <2>2 DEF Holds, CallsOk
  <2>4. Alike(x, x)
        BY <2>3 DEF CallOk, Alike
  <2>5. CallOk(N, m, round, x)
        BY <1>1, <1>3, <2>1, <2>2, <2>3, <2>4, ClientsKeepCall
  <2> QED BY <2>2, <2>5
<1>7. CallsOk(N, m, round, call)
    BY <1>6 DEF CallsOk, Holds
<1>8. mark' = mark /\ round' = round /\ call' = call
    BY DEF Write
<1> QED BY <1>4, <1>5, <1>7, <1>8 DEF Holds, LogPart

(* Who reads is not alone any more, and reads on.                           *)
LEMMA DisturbedIs ==
    ASSUME NEW m, Holds(m)
    PROVE  /\ Disturbed = [r \in Reader |-> Disturbed[r]]
           /\ \A r \in Reader : Alike(call[r], Disturbed[r])
<1>1. \A r \in Reader : Disturbed[r] = [call[r] EXCEPT !.calm = FALSE]
    BY DEF Disturbed
<1>2. Disturbed = [r \in Reader |-> Disturbed[r]]
    BY DEF Disturbed
<1>3. ASSUME NEW r \in Reader PROVE Alike(call[r], Disturbed[r])
  <2>1. PICK x : x = call[r]
        OBVIOUS
  <2>2. x = [at |-> x.at, ask |-> x.ask, ceiling |-> x.ceiling, record |-> x.record,
             todo |-> x.todo, claim |-> x.claim, holds |-> x.holds, calm |-> x.calm,
             answer |-> x.answer]
        BY <2>1 DEF Holds, CallsOk, CallOk
  <2>3. PICK y : y = [x EXCEPT !.calm = FALSE]
        OBVIOUS
  <2>4. y = [at |-> x.at, ask |-> x.ask, ceiling |-> x.ceiling, record |-> x.record,
             todo |-> x.todo, claim |-> x.claim, holds |-> x.holds, calm |-> y.calm,
             answer |-> x.answer]
        BY <2>2, <2>3
  <2>5. y = Disturbed[r]
        BY <1>1, <2>1, <2>3
  <2> QED BY <2>1, <2>4, <2>5 DEF Alike
<1> QED BY <1>2, <1>3

(* Commit.                                                                  *)
LEMMA CommitKeeps ==
    ASSUME NEW m, Holds(m), NEW i \in DOMAIN log, NEW state \in {"committed", "aborted"},
           Commit(i, state)
    PROVE  Holds(m)'
<1> PICK L : L = log
    OBVIOUS
<1> PICK N : N = log'
    OBVIOUS
<1>1. LogOk(L) /\ EngineOk(L) /\ StampsOk(L)
    BY DEF Holds, LogPart
<1>2. i \in OpenIn(L) /\ N = [L EXCEPT ![i].state = state]
    BY DEF Commit, OpenIn
<1>3. Later(L, N) /\ NoneLanded(L, N)
    BY <1>1, <1>2, CommitIsLater
<1>4. LogOk(N) /\ EngineOk(N) /\ StampsOk(N)
    BY <1>1, <1>3, ClientsKeepSound
<1>5. MarkOk(N, m) /\ RoundOk(N, m, round)
    BY <1>1, <1>3, ClientsKeepRound DEF Holds
<1>6. ASSUME NEW r \in Reader PROVE CallOk(N, m, round, Disturbed[r])
  <2>1. CallOk(L, m, round, call[r])
        BY DEF Holds, CallsOk
  <2>2. Alike(call[r], Disturbed[r])
        BY DisturbedIs
  <2> QED BY <1>1, <1>2, <1>3, <2>1, <2>2, ClientsKeepCall
<1>7. CallsOk(N, m, round, Disturbed)
    BY <1>6, DisturbedIs DEF CallsOk
<1>8. mark' = mark /\ round' = round /\ call' = Disturbed
    BY DEF Commit
<1> QED BY <1>4, <1>5, <1>7, <1>8 DEF Holds, LogPart

(* The lowest watermark is everyone's (span).                               *)
LEMMA SpanIs ==
    ASSUME NEW m, Holds(m)
    PROVE  /\ SpanFrom = m /\ m \in Nat
           /\ Span = {i \in Done(log) : i > m /\ Firm(log, i)}
           /\ \A i \in Span : i \in 1..Len(log) /\ i <= TopOf(log)
<1>1. m \in Nat /\ LogOk(log)
    BY DEF Holds, LogPart
<1>2. {mark[p] : p \in Derived} = {m}
    BY ResolveAssumption DEF Holds
<1>3. SpanFrom = m
    BY <1>1, <1>2, LeastIs DEF SpanFrom
<1>4. Committed = Done(log) /\ Opens = OpenIn(log)
    BY OfTheLog
<1>5. Span = {i \in Done(log) : i > m /\ Firm(log, i)}
    BY <1>3, <1>4 DEF Span, Firm
<1> QED BY <1>1, <1>3, <1>5, TopIs

(* The round's fork point is firm, and all that was committed below it by   *)
(* clients is below what it reflects (span, settle_span).                   *)
LEMMA ForkKeeps ==
    ASSUME NEW m, Holds(m), Overlap = FALSE, Fork
    PROVE  Holds(m)'
<1> PICK L : L = log
    OBVIOUS
<1>1. LogOk(L) /\ EngineOk(L) /\ StampsOk(L) /\ m \in Nat /\ MarkOk(L, m)
    BY DEF Holds, LogPart
<1>2. Span = {i \in Done(L) : i > m /\ Firm(L, i)} /\ SpanFrom = m
    BY SpanIs
<1>3. Len(L) \in Nat /\ DOMAIN L = 1..Len(L) /\ TopOf(L) \in Nat
      /\ \A i \in Done(L) : i \in 1..Len(L) /\ i <= TopOf(L)
    BY <1>1, TopIs DEF LogOk
<1>4. PICK k : k = Highest(Span)
    OBVIOUS
<1>5. k \in Span /\ \A i \in Span : i <= k
  <2>1. Span # {}
        BY DEF Fork
  <2>2. Span \subseteq 0..Len(L)
        BY <1>2, <1>3
  <2> QED BY <1>3, <1>4, <2>1, <2>2, HighestIs
<1>6. k \in 1..Len(L) /\ k \in Done(L) /\ k > m /\ Firm(L, k) /\ k <= TopOf(L)
    BY <1>2, <1>3, <1>5
<1> DEFINE Below == {0} \cup {i \in Committed : i <= k /\ log[i].by = "client"}
<1>7. PICK w : w = Highest(Below)
    OBVIOUS
<1>8. Below = {0} \cup {i \in Done(L) : i <= k /\ L[i].by = "client"}
    BY OfTheLog
<1>9. w \in Below /\ \A i \in Below : i <= w
  <2>1. Below \subseteq 0..Len(L) /\ Below # {}
        BY <1>3, <1>8
  <2> HIDE DEF Below
  <2> QED BY <1>3, <1>7, <2>1, HighestIs
<1> PICK rd : rd = [phase |-> "forked", forkAt |-> k, reflects |-> w]
    OBVIOUS
<1>10. round' = rd /\ rd.phase = "forked" /\ rd.forkAt = k /\ rd.reflects = w
    BY <1>4, <1>7 DEF Fork
<1> HIDE DEF Below
<1>11. w \in Nat /\ w <= k /\ (\A i \in Done(L) : L[i].by = "client" /\ i <= k => i <= w)
    BY <1>3, <1>6, <1>8, <1>9
<1>12. round = NoRound /\ Kept(L, m)
       /\ \A i \in 1..Len(L) : L[i].by = "engine" => L[i].reflects <= m
    BY DEF Fork, Holds, RoundOk, NoRound
<1>13. m <= w
  <2>1. PICK i \in Span : Position(i) > m
        BY <1>2 DEF Fork
  <2>2. i \in 1..Len(L) /\ i \in Done(L) /\ i > m /\ i <= k
        BY <1>2, <1>3, <1>5
  <2>3. LayerOk(L, i)
        BY <1>1, <2>2 DEF LogOk
  <2>4. CASE L[i].by = "client"
        BY <1>1, <1>11, <2>2, <2>4
  <2>5. CASE L[i].by # "client"
    <3>1. L[i].by = "engine" /\ L[i].reflects \in Nat
          BY <2>3, <2>5 DEF LayerOk
    <3>2. Position(i) = L[i].reflects
          BY <2>5 DEF Position
    <3> QED BY <1>1, <1>12, <2>1, <2>2, <3>1, <3>2
  <2> QED BY <2>4, <2>5
<1>14. ASSUME NEW i \in 1..Len(L), L[i].by = "engine" PROVE i <= k
  <2>1. LayerOk(L, i) /\ Firm(L, i)
        BY <1>1, <1>14 DEF LogOk, EngineOk
  <2>2. i \in Done(L)
        BY <1>3, <1>14, <2>1 DEF Done, LayerOk
  <2>3. CASE i > m
        BY <1>2, <1>5, <2>1, <2>2, <2>3
  <2>4. CASE ~(i > m)
        BY <1>1, <1>6, <2>4
  <2> QED BY <2>3, <2>4
<1>15. \A i \in Done(L) : L[i].by = "client" => i <= w \/ k < i
    BY <1>3, <1>6, <1>11
<1>16. ASSUME NEW c \in Derived, Landing(L, c, k) # 0 PROVE KeptAt(L, m, k, c)
  <2>1. Landing(L, c, TopOf(L)) = Landing(L, c, k)
    <3>1. Landing(L, c, k) <= Landing(L, c, TopOf(L))
          BY <1>1, <1>3, <1>6, LandingRises
    <3>2. Landing(L, c, k) \in Nat /\ Landing(L, c, TopOf(L)) # 0
          BY <1>1, <1>3, <1>6, <1>16, <3>1, LandingIs
    <3>3. Landing(L, c, TopOf(L)) <= k
          BY <1>1, <1>3, <1>14, <3>2, RecordIs
    <3> QED BY <1>1, <1>3, <1>6, <3>3, LandingRises
  <2>2. KeptOne(L, m, c)
        BY <1>12, <1>16, <2>1 DEF Kept
  <2>3. RecordOf(L, c, TopOf(L)) = RecordOf(L, c, k)
        BY <2>1 DEF RecordOf
  <2>4. ASSUME NEW t \in m..TopOf(L), Firm(L, t), ReplayOf(L, t)[c] # ReplayOf(L, m)[c]
        PROVE  ReplayOf(L, k)[c] # ReplayOf(L, m)[c]
    <3>0. t \in Nat /\ m <= t /\ k \in Nat /\ m \in Nat /\ m <= k
          BY <1>1, <1>3, <1>6
    <3>1. ASSUME NEW s \in Source, Landing(L, s, m) = Landing(L, s, k)
          PROVE  Landing(L, s, m) = Landing(L, s, t)
      <4>1. PICK i : i = Landing(L, s, t)
            OBVIOUS
      <4>2. /\ i \in Nat /\ i <= t /\ (i # 0 => i \in LayersOf(L, s, t))
            /\ Landing(L, s, m) <= i /\ Landing(L, s, m) \in Nat
            /\ \A j \in LayersOf(L, s, k) : j <= Landing(L, s, k)
            BY <1>1, <3>0, <4>1, LandingIs, LandingRises
      <4>3. CASE i <= k
        <5>1. i # 0 => i \in LayersOf(L, s, k)
              BY <4>2, <4>3 DEF LayersOf
        <5> QED BY <3>1, <4>1, <4>2, <5>1
      <4>4. CASE ~(i <= k)
        <5>1. i # 0 /\ i > m
              BY <1>6, <3>0, <4>2, <4>4
        <5>2. i \in Done(L)
              BY <4>2, <5>1 DEF LayersOf
        <5>3. Firm(L, i)
          <6>1. \A j \in OpenIn(L) : j \in Nat
                BY <1>3 DEF OpenIn
          <6> QED BY <2>4, <3>0, <4>2, <6>1 DEF Firm
        <5> QED BY <1>2, <1>5, <4>4, <5>1, <5>2, <5>3
      <4> QED BY <4>3, <4>4
    <3>2. ReplayOf(L, m)[c] = ReplayOf(L, k)[c] => ReplayOf(L, m)[c] = ReplayOf(L, t)[c]
          BY <1>1, <3>0, <3>1, ReplayFollows DEF Cell
    <3> QED BY <2>4, <3>2
  <2> QED BY <2>2, <2>3, <2>4 DEF KeptOne, KeptAt
<1>17. Forked(L, m, rd)
    BY <1>6, <1>10, <1>11, <1>13, <1>14, <1>15, <1>16 DEF Forked
<1>18. RoundOk(L, m, rd)
    BY <1>10, <1>12, <1>17 DEF RoundOk
<1>19. ASSUME NEW r \in Reader PROVE CallOk(L, m, rd, call[r])
  <2>1. call[r].at \notin {"compute", "run"}
        BY DEF Fork, Computing
  <2>2. CallOk(L, m, round, call[r])
        BY DEF Holds, CallsOk
  <2> QED BY <2>1, <2>2 DEF CallOk
<1>20. CallsOk(L, m, rd, call)
    BY <1>19 DEF CallsOk, Holds
<1>21. log' = log /\ mark' = mark /\ call' = call
    BY DEF Fork
<1> QED BY <1>1, <1>10, <1>18, <1>20, <1>21 DEF Holds, LogPart

(* The watermarks reach what the round reflects (FrontierTracker::advance). *)
LEMMA AdvanceKeeps ==
    ASSUME NEW m, Holds(m), Advance
    PROVE  \E w : Holds(w)'
<1> PICK L : L = log
    OBVIOUS
<1>1. LogOk(L) /\ EngineOk(L) /\ StampsOk(L) /\ m \in Nat /\ MarkOk(L, m) /\ TopOf(L) \in Nat
    BY TopIs DEF Holds, LogPart
<1>2. PICK w : w = round.reflects
    OBVIOUS
<1>3. round.phase = "landed" /\ round # NoRound
    BY DEF Advance, NoRound
<1>4. /\ w \in m..TopOf(L) /\ Firm(L, w) /\ Kept(L, w)
      /\ \A i \in 1..Len(L) : L[i].by = "engine" => L[i].reflects <= m \/ L[i].reflects <= w
    BY <1>2, <1>3 DEF Holds, RoundOk
<1>5. w \in Nat /\ m <= w /\ w <= TopOf(L)
    BY <1>1, <1>4
<1>6. Highest({m, w}) = w
  <2>1. {m, w} \subseteq 0..w /\ {m, w} # {}
        BY <1>1, <1>5
  <2>2. Highest({m, w}) \in {m, w} /\ \A i \in {m, w} : i <= Highest({m, w})
        BY <1>5, <2>1, HighestIs
  <2> QED BY <1>1, <1>5, <2>2
<1>7. mark' = [p \in Derived |-> w]
    BY <1>2, <1>6 DEF Advance, Holds
<1>8. MarkOk(L, w)
    BY <1>4, <1>5 DEF MarkOk
<1>9. RoundOk(L, w, NoRound)
  <2>1. \A i \in 1..Len(L) : L[i].by = "engine" => L[i].reflects <= w
    <3>1. \A i \in 1..Len(L) : L[i].by = "engine" => L[i].reflects \in Nat
          BY <1>1 DEF LogOk, LayerOk
    <3> QED BY <1>1, <1>4, <1>5, <3>1
  <2> QED BY <1>4, <2>1 DEF RoundOk, NoRound
<1>10. ASSUME NEW r \in Reader PROVE CallOk(L, w, NoRound, call[r])
  <2>1. PICK x : x = call[r]
        OBVIOUS
  <2>2. CallOk(L, m, round, x)
        BY <2>1 DEF Holds, CallsOk
  <2>3. x.at # "run"
        BY <1>3, <2>2 DEF CallOk, RunOk
  <2>4. \A d : ~Settled(L, round, d)
        BY <1>3 DEF Settled
  <2>5. TodoOk(L, round, x.todo) => TodoOk(L, NoRound, x.todo)
        BY <2>4, Zenon DEF TodoOk
  <2>6. CallOk(L, w, NoRound, x)
        BY <2>2, <2>3, <2>5 DEF CallOk
  <2> QED BY <2>1, <2>6
<1>11. CallsOk(L, w, NoRound, call)
    BY <1>10 DEF CallsOk, Holds
<1>12. log' = log /\ round' = NoRound /\ call' = call
    BY DEF Advance
<1>13. LogPart' /\ w \in Nat /\ (mark = [p \in Derived |-> w])' /\ MarkOk(log, w)'
       /\ RoundOk(log, w, round)' /\ CallsOk(log, w, round, call)'
    BY <1>1, <1>5, <1>7, <1>8, <1>9, <1>11, <1>12 DEF LogPart
<1>14. Holds(w)'
    BY <1>13 DEF Holds
<1> QED BY <1>14

(* A step of one reader, in which nothing lands.                            *)
LEMMA OneCall ==
    ASSUME NEW m, Holds(m), NEW r \in Reader, NEW y, CallOk(log, m, round, y), Become(r, y),
           UNCHANGED <<log, mark, round>>
    PROVE  Holds(m)'
<1>1. call = [q \in Reader |-> call[q]] /\ \A q \in Reader : CallOk(log, m, round, call[q])
    BY DEF Holds, CallsOk
<1>2. call' = [q \in Reader |-> IF q = r THEN y ELSE call[q]]
    BY <1>1 DEF Become
<1> PICK new : new = call'
    OBVIOUS
<1>3. /\ new = [q \in Reader |-> new[q]]
      /\ \A q \in Reader : new[q] = IF q = r THEN y ELSE call[q]
    BY <1>2
<1>4. \A q \in Reader : CallOk(log, m, round, new[q])
    BY <1>1, <1>3
<1>5. CallsOk(log, m, round, new)
    BY <1>3, <1>4 DEF CallsOk
<1>6. log' = log /\ mark' = mark /\ round' = round /\ call' = new
    OBVIOUS
<1> QED BY <1>5, <1>6 DEF Holds, LogPart

\* The fields of a call.
IsCall(x) ==
    x = [at |-> x.at, ask |-> x.ask, ceiling |-> x.ceiling, record |-> x.record,
         todo |-> x.todo, claim |-> x.claim, holds |-> x.holds, calm |-> x.calm,
         answer |-> x.answer]

(* Ask.                                                                     *)
LEMMA AskKeeps ==
    ASSUME NEW m, Holds(m), NEW r \in Reader, NEW q \in Requests, NEW pin \in 0..Top, Ask(r, q, pin)
    PROVE  Holds(m)'
<1> PICK y : y = [NoCall EXCEPT !.at = IF q.want = "current" THEN "check" ELSE "look",
                  !.ask = q, !.ceiling = pin, !.calm = TRUE]
    OBVIOUS
<1>1. /\ IsCall(y) /\ y.at \in {"check", "look"} /\ y.ask = q /\ y.ceiling = pin /\ y.answer = None
    BY DEF NoCall, IsCall
<1>2. pin \in 0..TopOf(log)
    BY OfTheLog
<1>3. CallOk(log, m, round, y)
    BY <1>1, <1>2 DEF CallOk, IsCall
<1>4. Become(r, y) /\ UNCHANGED <<log, mark, round>>
    BY DEF Ask
<1> QED BY <1>3, <1>4, OneCall

(* The plan of a refresh is one that can be run (refresh).                  *)
LEMMA PlanIsOk ==
    ASSUME LogPart, NEW rd, NEW c \in Derived
    PROVE  TodoOk(log, rd, Plan(c))
<1> PICK s : s = Plan(c)
    OBVIOUS
<1>0. LogOk(log) /\ EngineOk(log) /\ TopOf(log) \in Nat
    BY TopIs DEF LogPart
<1>1. InOrder(s, Present)
    BY PlanIs DEF Cell
<1>2. Present = {d \in Derived : Landing(log, d, TopOf(log)) # 0}
    BY OfTheLog DEF Present
<1>3. s \in Seq(Present) /\ s \in Seq(Derived) /\ \A k \in 1..Len(s) : s[k] \in Present
    BY <1>1, <1>2 DEF InOrder
<1>4. ASSUME NEW k \in 1..Len(s), NEW d \in ToSet(Reads[s[k]]) \cap Derived
      PROVE  \E j \in 1..(k - 1) : s[j] = d
  <2>1. s[k] \in Derived /\ Landing(log, s[k], TopOf(log)) # 0
        BY <1>2, <1>3
  <2>2. Landing(log, d, TopOf(log)) # 0
        BY <1>0, <2>1, InputsAreThere
  <2>3. d \in ToSet(Reads[s[k]]) \cap Present
        BY <1>2, <2>2
  <2> QED BY <1>1, <2>3 DEF InOrder
<1> QED BY <1>2, <1>3, <1>4 DEF TodoOk

(* Check.                                                                   *)
LEMMA CheckKeeps ==
    ASSUME NEW m, Holds(m), NEW r \in Reader, Check(r)
    PROVE  Holds(m)'
<1> PICK x : x = call[r]
    OBVIOUS
<1>1. CallOk(log, m, round, x) /\ x.at = "check" /\ LogPart
    BY DEF Check, Holds, CallsOk
<1>2. IsCall(x) /\ x.ask \in Requests /\ x.ask.cell \in Derived
    BY <1>1, ResolveAssumption DEF CallOk, IsCall
<1>3. UNCHANGED <<log, mark, round>>
    BY DEF Check
<1>4. CASE Become(r, [x EXCEPT !.at = "compute", !.todo = Plan(x.ask.cell)])
  <2> PICK s : s = Plan(x.ask.cell)
      OBVIOUS
  <2> PICK y : y = [x EXCEPT !.at = "compute", !.todo = s]
      OBVIOUS
  <2>1. y = [at |-> "compute", ask |-> x.ask, ceiling |-> x.ceiling, record |-> x.record,
             todo |-> s, claim |-> x.claim, holds |-> x.holds, calm |-> x.calm,
             answer |-> x.answer]
        BY <1>2 DEF IsCall
  <2>2. IsCall(y) /\ y.at = "compute" /\ y.ask = x.ask /\ y.ceiling = x.ceiling
        /\ y.answer = x.answer /\ y.todo = s
        BY <2>1 DEF IsCall
  <2>3. TodoOk(log, round, s)
        BY <1>1, <1>2, PlanIsOk
  <2>4. CallOk(log, m, round, y)
        BY <1>1, <2>2, <2>3 DEF CallOk, IsCall
  <2> QED BY <1>3, <1>4, <2>4, OneCall
<1>5. CASE Become(r, [x EXCEPT !.at = "look"])
  <2> PICK y : y = [x EXCEPT !.at = "look"]
      OBVIOUS
  <2>1. y = [at |-> "look", ask |-> x.ask, ceiling |-> x.ceiling, record |-> x.record,
             todo |-> x.todo, claim |-> x.claim, holds |-> x.holds, calm |-> x.calm,
             answer |-> x.answer]
        BY <1>2 DEF IsCall
  <2>2. IsCall(y) /\ y.at = "look" /\ y.ask = x.ask /\ y.ceiling = x.ceiling
        /\ y.answer = x.answer
        BY <2>1 DEF IsCall
  <2>3. CallOk(log, m, round, y)
        BY <1>1, <2>2 DEF CallOk, IsCall
  <2> QED BY <1>3, <1>5, <2>3, OneCall
<1>6. Become(r, [x EXCEPT !.at = "compute", !.todo = Plan(x.ask.cell)])
      \/ Become(r, [x EXCEPT !.at = "look"])
    BY Zenon DEF Check
<1> QED BY <1>4, <1>5, <1>6

(* Claim.                                                                   *)
LEMMA ClaimKeeps ==
    ASSUME NEW m, Holds(m), Overlap = FALSE, broken.now = {}, NEW r \in Reader, Claim(r)
    PROVE  Holds(m)'
<1> PICK x : x = call[r]
    OBVIOUS
<1>1. CallOk(log, m, round, x) /\ x.at = "compute" /\ LogOk(log) /\ m \in Nat /\ MarkOk(log, m)
    BY DEF Claim, Holds, CallsOk, LogPart
<1>2. IsCall(x) /\ x.ask \in Requests /\ TodoOk(log, round, x.todo)
    BY <1>1 DEF CallOk, IsCall
<1>3. UNCHANGED <<log, mark, round>>
    BY DEF Claim
<1>4. CASE x.todo = <<>> /\ Become(r, [x EXCEPT !.at = "look"])
  <2> PICK y : y = [x EXCEPT !.at = "look"]
      OBVIOUS
  <2>1. y = [at |-> "look", ask |-> x.ask, ceiling |-> x.ceiling, record |-> x.record,
             todo |-> x.todo, claim |-> x.claim, holds |-> x.holds, calm |-> x.calm,
             answer |-> x.answer]
        BY <1>2 DEF IsCall
  <2>2. IsCall(y) /\ y.at = "look" /\ y.ask = x.ask /\ y.ceiling = x.ceiling
        /\ y.answer = x.answer
        BY <2>1 DEF IsCall
  <2>3. CallOk(log, m, round, y)
        BY <1>1, <2>2 DEF CallOk, IsCall
  <2> QED BY <1>3, <1>4, <2>3, OneCall
<1>5. CASE x.todo # <<>> /\ Become(r, [x EXCEPT !.at = "run", !.claim = Top])
  <2> PICK top : top = Top
      OBVIOUS
  <2> PICK y : y = [x EXCEPT !.at = "run", !.claim = top]
      OBVIOUS
  <2>1. y = [at |-> "run", ask |-> x.ask, ceiling |-> x.ceiling, record |-> x.record,
             todo |-> x.todo, claim |-> top, holds |-> x.holds, calm |-> x.calm,
             answer |-> x.answer]
        BY <1>2 DEF IsCall
  <2>2. IsCall(y) /\ y.at = "run" /\ y.ask = x.ask /\ y.ceiling = x.ceiling
        /\ y.answer = x.answer /\ y.todo = x.todo /\ y.claim = top
        BY <2>1 DEF IsCall
  <2>3. Opens = {} /\ round = NoRound
        BY <1>5 DEF Claim
  <2>4. top = TopOf(log) /\ OpenIn(log) = {}
        BY <2>3, OfTheLog
  <2>5. top \in m..TopOf(log) /\ \A i \in Done(log) : i <= top
        BY <1>1, <2>4, TopIs DEF MarkOk
  <2>6. RunOk(log, m, round, y)
        BY <1>5, <2>2, <2>3, <2>4, <2>5 DEF RunOk
  <2>7. CallOk(log, m, round, y)
        BY <1>1, <1>2, <2>2, <2>6 DEF CallOk, IsCall
  <2> QED BY <1>3, <1>5, <2>7, OneCall
<1>6. \/ x.todo = <<>> /\ Become(r, [x EXCEPT !.at = "look"])
      \/ x.todo # <<>> /\ Become(r, [x EXCEPT !.at = "run", !.claim = Top])
  <2>1. Become(r, IF x.todo = <<>> THEN [x EXCEPT !.at = "look"]
                  ELSE IF Head(x.todo) \in broken.now
                       THEN [x EXCEPT !.todo = Tail(x.todo)]
                       ELSE [x EXCEPT !.at = "run", !.claim = Top])
        BY Zenon DEF Claim
  <2>2. Head(x.todo) \notin broken.now
        OBVIOUS
  <2> QED BY <2>1, <2>2, Zenon
<1> QED BY <1>4, <1>5, <1>6

(* Look.                                                                    *)
LEMMA LookKeeps ==
    ASSUME NEW m, Holds(m), NEW r \in Reader, Look(r)
    PROVE  Holds(m)'
<1> PICK x : x = call[r]
    OBVIOUS
<1>1. CallOk(log, m, round, x) /\ x.at = "look" /\ LogOk(log)
    BY DEF Look, Holds, CallsOk, LogPart
<1>2. IsCall(x) /\ x.ask \in Requests
    BY <1>1 DEF CallOk, IsCall
<1> PICK k : k = Ceiling(r)
    OBVIOUS
<1> PICK c : c = x.ask.cell
    OBVIOUS
<1>3. UNCHANGED <<log, mark, round>>
    BY DEF Look
<1>4. Top = TopOf(log) /\ TopOf(log) \in Nat
    BY <1>1, OfTheLog, TopIs
<1>5. k \in 0..TopOf(log)
    BY <1>1, <1>4 DEF CallOk, Ceiling
<1>6. CASE Absent(c, k) /\ Become(r, [x EXCEPT !.at = "none",
                     !.answer = [state |-> "absent", fresh |-> 0, holds |-> {}, calm |-> FALSE]])
  <2> PICK a : a = [state |-> "absent", fresh |-> 0, holds |-> {}, calm |-> FALSE]
      OBVIOUS
  <2> PICK y : y = [x EXCEPT !.at = "none", !.answer = a]
      OBVIOUS
  <2>1. y = [at |-> "none", ask |-> x.ask, ceiling |-> x.ceiling, record |-> x.record,
             todo |-> x.todo, claim |-> x.claim, holds |-> x.holds, calm |-> x.calm,
             answer |-> a]
        BY <1>2 DEF IsCall
  <2>a. IsCall(y) /\ y.at = "none" /\ y.answer = a
        BY <2>1 DEF IsCall
  <2>b. a.state = "absent"
        OBVIOUS
  <2>2. IsCall(y) /\ y.at = "none" /\ y.answer.state = "absent"
        BY <2>a, <2>b, Zenon
  <2>3. CallOk(log, m, round, y)
        BY <2>2 DEF CallOk, IsCall
  <2> QED BY <1>3, <1>6, <2>3, OneCall
<1>7. CASE ~Absent(c, k) /\ Become(r, [x EXCEPT !.at = "validate", !.ceiling = k,
                     !.record = Found(c, k),
                     !.holds = {i \in 0..k : Replay(i)[c] = Found(c, k).value}])
  <2> PICK record : record = Found(c, k)
      OBVIOUS
  <2> PICK holds : holds = {i \in 0..k : Replay(i)[c] = record.value}
      OBVIOUS
  <2> PICK y : y = [x EXCEPT !.at = "validate", !.ceiling = k, !.record = record, !.holds = holds]
      OBVIOUS
  <2>1. y = [at |-> "validate", ask |-> x.ask, ceiling |-> k, record |-> record,
             todo |-> x.todo, claim |-> x.claim, holds |-> holds, calm |-> x.calm,
             answer |-> x.answer]
        BY <1>2 DEF IsCall
  <2>2. IsCall(y) /\ y.at = "validate" /\ y.ask = x.ask /\ y.ceiling = k
        /\ y.answer = x.answer /\ y.record = record /\ y.holds = holds
        BY <2>1 DEF IsCall
  <2>3. Landing(log, c, k) # 0 /\ record = RecordOf(log, c, k)
        BY <1>7, OfTheLog
  <2>4. ASSUME ReplayOf(log, k)[c] = record.value PROVE k \in holds
    <3>1. Replay(k)[c] = record.value
          BY <2>4, OfTheLog
    <3>2. k \in 0..k
          BY <1>4, <1>5
    <3> QED BY <3>1, <3>2
  <2>5. ValidateOk(log, y)
        BY <1>5, <2>2, <2>3, <2>4 DEF ValidateOk
  <2>6. CallOk(log, m, round, y)
        BY <1>1, <1>2, <1>5, <2>2, <2>5 DEF CallOk, IsCall
  <2>7. Become(r, y)
        BY <1>7
  <2> QED BY <1>3, <2>6, <2>7, OneCall
<1>8. \/ Absent(c, k) /\ Become(r, [x EXCEPT !.at = "none",
                     !.answer = [state |-> "absent", fresh |-> 0, holds |-> {}, calm |-> FALSE]])
      \/ ~Absent(c, k) /\ Become(r, [x EXCEPT !.at = "validate", !.ceiling = k,
                     !.record = Found(c, k),
                     !.holds = {i \in 0..k : Replay(i)[c] = Found(c, k).value}])
  <2>1. Become(r, IF Absent(c, k)
            THEN [x EXCEPT !.at = "none",
                     !.answer = [state |-> "absent", fresh |-> 0, holds |-> {},
                                 calm |-> FALSE]]
            ELSE [x EXCEPT !.at = "validate", !.ceiling = k, !.record = Found(c, k),
                     !.holds = {i \in 0..k : Replay(i)[c] = Found(c, k).value}])
        BY Zenon DEF Look
  <2> QED BY <2>1, Zenon
<1> QED BY <1>6, <1>7, <1>8

(* An answer that says current names a layer whose replay gives the value   *)
(* (Validate).                                                              *)
LEMMA ValidateKeeps ==
    ASSUME NEW m, Holds(m), NEW r \in Reader, Validate(r)
    PROVE  Holds(m)'
<1> PICK x : x = call[r]
    OBVIOUS
<1>1. CallOk(log, m, round, x) /\ x.at = "validate" /\ LogOk(log) /\ EngineOk(log) /\ StampsOk(log)
    BY DEF Validate, Holds, CallsOk, LogPart
<1>2. IsCall(x) /\ x.ask \in Requests /\ ValidateOk(log, x)
    BY <1>1 DEF CallOk, IsCall
<1> PICK k : k = x.ceiling
    OBVIOUS
<1> PICK c : c = x.ask.cell
    OBVIOUS
<1>3. UNCHANGED <<log, mark, round>>
    BY DEF Validate
<1>4. c \in Derived /\ k \in Nat /\ Landing(log, c, k) # 0 /\ x.record = RecordOf(log, c, k)
  <2>1. TopOf(log) \in Nat
        BY <1>1, TopIs
  <2> QED BY <1>2, <2>1, ResolveAssumption DEF ValidateOk
<1>5. ASSUME Validated(x.record, k) >= k PROVE k \in x.holds
  <2>1. RecordOf(log, c, k).value = ReplayOf(log, k)[c]
        BY <1>1, <1>4, <1>5, ValidatedHolds
  <2> QED BY <1>2, <1>4, <2>1 DEF ValidateOk
<1>6. ~(x.record.fresh >= k)
  <2>1. RecordOf(log, c, k).fresh \in Nat /\ RecordOf(log, c, k).fresh < k
        BY <1>1, <1>4, StampIsFirm
  <2> QED BY <1>4, <2>1
<1>7. \A state, fresh : Judged(r, state, fresh)
         = Become(r, [x EXCEPT !.at = "judge", !.answer = [state |-> state, fresh |-> fresh,
                                                      holds |-> x.holds, calm |-> x.calm]])
    BY DEF Judged
<1>8. PICK state, fresh : /\ Judged(r, state, fresh)
                          /\ state = "current" => fresh \in x.holds
  <2>1. IF x.ask.want = "any"
        THEN IF x.record.fresh >= k THEN Judged(r, "current", k)
             ELSE Judged(r, "unvalidated", x.record.fresh)
        ELSE IF Validated(x.record, k) >= k THEN Judged(r, "current", k)
             ELSE Judged(r, "stale", Validated(x.record, k))
        BY Zenon DEF Validate
  <2>2. CASE Judged(r, "unvalidated", x.record.fresh)
        BY <2>2
  <2>3. CASE Validated(x.record, k) >= k /\ Judged(r, "current", k)
        BY <1>5, <2>3
  <2>4. CASE Judged(r, "stale", Validated(x.record, k))
        BY <2>4
  <2> QED BY <1>6, <2>1, <2>2, <2>3, <2>4, Zenon
<1> PICK a : a = [state |-> state, fresh |-> fresh, holds |-> x.holds, calm |-> x.calm]
    OBVIOUS
<1> PICK y : y = [x EXCEPT !.at = "judge", !.answer = a]
    OBVIOUS
<1>9. y = [at |-> "judge", ask |-> x.ask, ceiling |-> x.ceiling, record |-> x.record,
           todo |-> x.todo, claim |-> x.claim, holds |-> x.holds, calm |-> x.calm,
           answer |-> a]
    BY <1>2 DEF IsCall
<1>10. IsCall(y) /\ y.at = "judge" /\ y.ask = x.ask /\ y.ceiling = x.ceiling /\ y.answer = a
    BY <1>9 DEF IsCall
<1>11. a.state = "current" => a.fresh \in a.holds
    BY <1>8
<1>12. CallOk(log, m, round, y)
    BY <1>1, <1>2, <1>10, <1>11 DEF CallOk, IsCall
<1>13. Become(r, y)
    BY <1>7, <1>8
<1> QED BY <1>3, <1>12, <1>13, OneCall

(* Judge.                                                                   *)
LEMMA JudgeKeeps ==
    ASSUME NEW m, Holds(m), broken.now = {}, NEW r \in Reader, Judge(r)
    PROVE  Holds(m)'
<1> PICK x : x = call[r]
    OBVIOUS
<1>1. CallOk(log, m, round, x)
    BY DEF Holds, CallsOk
<1> PICK y : y = [NoCall EXCEPT !.ask = x.ask, !.answer = x.answer]
    OBVIOUS
<1>2. IsCall(y) /\ y.at = "none" /\ y.answer = x.answer
    BY DEF NoCall, IsCall
<1>3. Become(r, y)
  <2>1. Become(r, [NoCall EXCEPT !.ask = x.ask, !.answer =
                    IF x.ask.cell \in broken.now
                    THEN [x.answer EXCEPT !.state = "broken"] ELSE x.answer])
        BY Zenon DEF Judge
  <2>2. (IF x.ask.cell \in broken.now
         THEN [x.answer EXCEPT !.state = "broken"] ELSE x.answer) = x.answer
        OBVIOUS
  <2> QED BY <2>1, <2>2
<1>4. CallOk(log, m, round, y)
    BY <1>1, <1>2 DEF CallOk, IsCall
<1>5. UNCHANGED <<log, mark, round>>
    BY DEF Judge
<1> QED BY <1>3, <1>4, <1>5, OneCall

(* What the engine lands leaves a call as it is, when no client has a layer *)
(* open and what the call has to run can still be run.                      *)
LEMMA EngineKeepsCall ==
    ASSUME NEW L, NEW N, Later(L, N), EngineOk(L), StampsOk(L), OpenIn(L) = {},
           NEW m, NEW rd, NEW rd2, NEW x, CallOk(L, m, rd, x), NEW y, Alike(x, y),
           x.at \in {"compute", "run"} => TodoOk(N, rd2, x.todo),
           x.at = "run" => RunOk(N, m, rd2, x)
    PROVE  CallOk(N, m, rd2, y)
<1>0. LogOk(L) /\ LogOk(N) /\ TopOf(L) \in Nat /\ TopOf(N) \in Nat /\ TopOf(L) <= TopOf(N)
      /\ TopOf(L) <= Len(L) /\ Len(L) \in Nat
    BY TopIs, LandingGrows DEF Later, LogOk
<1>1. IsCall(y)
      /\ y.at = x.at /\ y.ask = x.ask /\ y.ceiling = x.ceiling /\ y.record = x.record
      /\ y.todo = x.todo /\ y.claim = x.claim /\ y.holds = x.holds /\ y.answer = x.answer
    BY DEF Alike, IsCall
<1>2. y.answer # None /\ y.answer.state = "current" => y.answer.fresh \in y.answer.holds
    BY <1>1 DEF CallOk
<1>3. y.at # "none" => y.ask \in Requests /\ (y.ask.pinned => y.ceiling \in 0..TopOf(N))
    BY <1>0, <1>1 DEF CallOk
<1>4. y.at = "run" => RunOk(N, m, rd2, y)
    BY <1>1 DEF RunOk
<1>5. ASSUME y.at = "validate" PROVE ValidateOk(N, y)
  <2>1. ValidateOk(L, x) /\ x.ask \in Requests
        BY <1>1, <1>5 DEF CallOk
  <2>2. x.ceiling \in Nat /\ x.ceiling <= Len(L) /\ Landing(L, x.ask.cell, x.ceiling) # 0
        BY <1>0, <2>1 DEF ValidateOk
  <2>3. Firm(L, x.ceiling)
        BY DEF Firm
  <2>4. /\ Landing(N, x.ask.cell, x.ceiling) = Landing(L, x.ask.cell, x.ceiling)
        /\ RecordOf(N, x.ask.cell, x.ceiling) = RecordOf(L, x.ask.cell, x.ceiling)
        BY <2>2, <2>3, FirmStays
  <2>5. ValidateOk(N, x)
        BY <2>1, <2>4, ValidateStays
  <2> QED BY <1>1, <2>5 DEF ValidateOk
<1> QED BY <1>1, <1>2, <1>3, <1>4, <1>5 DEF CallOk, IsCall

(* The cells a round runs, and those it runs that fall (schedule, cascade). *)
LEMMA DirtyIs ==
    ASSUME NEW m, Holds(m), broken.now = {}
    PROVE  /\ Dirty \subseteq Derived
           /\ \A c \in Derived \ Dirty :
                 /\ Landing(log, c, round.forkAt) # 0
                 /\ \A d \in ToSet(Reads[c]) : d \notin Dirty
                 /\ \A d \in ToSet(Reads[c]) : \A i \in Span :
                       i <= round.forkAt /\ Position(i) > m => d \notin DOMAIN log[i].cells
           /\ \A c \in Cell : c \in Fallen <=>
                 \/ c \in Source /\ \E i \in Done(log) : i > round.forkAt /\ c \in DOMAIN log[i].cells
                 \/ c \in Dirty /\ \E d \in ToSet(Reads[c]) : d \in Fallen
<1> DEFINE Touched(c) == \E d \in ToSet(Reads[c]), i \in Span :
                           i <= round.forkAt /\ Position(i) > mark[c] /\ d \in DOMAIN log[i].cells
           seed == {c \in Derived : Absent(c, round.forkAt) \/ Touched(c)}
<1>1. Dirty = Spreads(seed, Derived)
    BY DEF Dirty
<1>a. seed \subseteq Derived
    OBVIOUS
<1>b. \A c \in Derived : c \notin seed => ~Absent(c, round.forkAt) /\ ~Touched(c)
    OBVIOUS
<1> HIDE DEF seed
<1>2. \A c \in Cell : c \in Dirty <=>
         c \in seed \/ (c \in Derived /\ \E d \in ToSet(Reads[c]) : d \in Dirty)
    BY <1>1, SpreadsIs
<1>3. Dirty \subseteq Cell
    BY <1>1 DEF Spreads
<1>4. Dirty \subseteq Derived
    BY <1>2, <1>3, <1>a
<1>5. ASSUME NEW c \in Derived \ Dirty
      PROVE  /\ Landing(log, c, round.forkAt) # 0
             /\ \A d \in ToSet(Reads[c]) : d \notin Dirty
             /\ \A d \in ToSet(Reads[c]) : \A i \in Span :
                   i <= round.forkAt /\ Position(i) > m => d \notin DOMAIN log[i].cells
  <2>1. c \notin seed /\ \A d \in ToSet(Reads[c]) : d \notin Dirty
        BY <1>2 DEF Cell
  <2>2. ~Absent(c, round.forkAt) /\ ~Touched(c)
        BY <1>b, <2>1
  <2>3. Landing(log, c, round.forkAt) # 0
        BY <2>2, OfTheLog
  <2>4. mark[c] = m
        BY DEF Holds
  <2> QED BY <2>1, <2>2, <2>3, <2>4
<1> DEFINE late == {d \in Source : \E i \in Committed : i > round.forkAt /\ d \in DOMAIN log[i].cells}
<1>6. Fallen = Spreads(late, Dirty)
    BY DEF Fallen
<1>7. late = {d \in Source : \E i \in Done(log) : i > round.forkAt /\ d \in DOMAIN log[i].cells}
    BY OfTheLog
<1> HIDE DEF late
<1>8. \A c \in Cell : c \in Fallen <=>
         c \in late \/ (c \in Dirty /\ \E d \in ToSet(Reads[c]) : d \in Fallen)
    BY <1>4, <1>6, SpreadsIs
<1>9. \A c \in Cell : c \in Fallen <=>
         \/ c \in Source /\ \E i \in Done(log) : i > round.forkAt /\ c \in DOMAIN log[i].cells
         \/ c \in Dirty /\ \E d \in ToSet(Reads[c]) : d \in Fallen
    BY <1>7, <1>8
<1> QED BY <1>4, <1>5, <1>9

(* What a round does not run is what a replay at the fork point gives.      *)
LEMMA UntouchedHolds ==
    ASSUME NEW m, Holds(m), broken.now = {}, Forked(log, m, round)
    PROVE  \A c \in Derived \ Dirty :
              /\ ValueOf(log, c, round.forkAt) = ReplayOf(log, round.forkAt)[c]
              /\ ReplayOf(log, RecordOf(log, c, round.forkAt).fresh)[c] = ReplayOf(log, round.forkAt)[c]
<1> PICK L : L = log
    OBVIOUS
<1> PICK k : k = round.forkAt
    OBVIOUS
<1>0. LogOk(L) /\ EngineOk(L) /\ StampsOk(L) /\ m \in Nat
    BY DEF Holds, LogPart
<1>1. k \in Nat /\ m <= k /\ Firm(L, k)
      /\ \A c \in Derived : Landing(L, c, k) # 0 => KeptAt(L, m, k, c)
    BY <1>0 DEF Forked
<1>2. Span = {i \in Done(L) : i > m /\ Firm(L, i)}
    BY SpanIs
<1>3. \A c \in Derived \ Dirty :
         /\ Landing(L, c, k) # 0
         /\ \A d \in ToSet(Reads[c]) : d \notin Dirty
         /\ \A d \in ToSet(Reads[c]) : \A i \in Span :
               i <= k /\ Position(i) > m => d \notin DOMAIN L[i].cells
    BY DirtyIs
<1> DEFINE Good == {c \in Cell : c \in Derived \ Dirty => ReplayOf(L, m)[c] = ReplayOf(L, k)[c]}
<1>4. ASSUME NEW c \in Cell, c \in Derived => ToSet(Reads[c]) \subseteq Good
      PROVE  c \in Good
  <2> SUFFICES ASSUME c \in Derived \ Dirty PROVE ReplayOf(L, m)[c] = ReplayOf(L, k)[c]
      OBVIOUS
  <2>1. ASSUME NEW d \in ToSet(Reads[c]) PROVE ReplayOf(L, m)[d] = ReplayOf(L, k)[d]
    <3>0. d \in Cell
          BY <2>1, RankIs
    <3>1. CASE d \in Source
      <4>1. PICK i : i = Landing(L, d, k)
            OBVIOUS
      <4>2. i \in Nat /\ i <= k /\ (i # 0 => i \in LayersOf(L, d, k))
            BY <1>0, <1>1, <4>1, LandingIs
      <4>3. i <= m
        <5> SUFFICES ASSUME i > m PROVE FALSE
            BY <1>0, <4>2
        <5>1. i \in Done(L) /\ d \in DOMAIN L[i].cells /\ i \in 1..Len(L)
              BY <1>0, <4>2, TopIs DEF LayersOf
        <5>2. Firm(L, i)
          <6>1. \A j \in OpenIn(L) : j \in Nat
                BY <1>0 DEF OpenIn, LogOk
          <6> QED BY <1>1, <4>2, <6>1 DEF Firm
        <5>3. i \in Span
              BY <1>2, <5>1, <5>2
        <5>4. L[i].by = "client"
              BY <1>0, <3>1, <5>1, ResolveAssumption DEF LogOk, LayerOk
        <5>5. Position(i) = i
              BY <5>4 DEF Position
        <5> QED BY <1>3, <2>1, <4>2, <5>1, <5>3, <5>5
      <4>4. Landing(L, d, m) = Landing(L, d, k)
            BY <1>0, <1>1, <4>1, <4>3, LandingRises
      <4>5. ValueOf(L, d, m) = ValueOf(L, d, k)
            BY <1>0, <1>1, <3>1, <4>4, SourceSame
      <4> QED BY <3>1, <4>5, ReplayIs
    <3>2. CASE d \in Derived
          BY <1>3, <1>4, <2>1, <3>2
    <3> QED BY <3>0, <3>1, <3>2 DEF Cell
  <2>2. \A n \in DOMAIN Reads[c] : Reads[c][n] \in ToSet(Reads[c])
        BY DEF ToSet
  <2>3. [n \in DOMAIN Reads[c] |-> ReplayOf(L, m)[Reads[c][n]]]
          = [n \in DOMAIN Reads[c] |-> ReplayOf(L, k)[Reads[c][n]]]
        BY <2>1, <2>2
  <2>4. ReplayOf(L, m)[c] = [n \in DOMAIN Reads[c] |-> ReplayOf(L, m)[Reads[c][n]]]
        BY ReplayIs
  <2>5. ReplayOf(L, k)[c] = [n \in DOMAIN Reads[c] |-> ReplayOf(L, k)[Reads[c][n]]]
        BY ReplayIs
  <2> QED BY <2>3, <2>4, <2>5, Zenon
<1> HIDE DEF Good
<1>5. Cell \subseteq Good
    BY <1>4, EveryCell
<1>6. ASSUME NEW c \in Derived \ Dirty
      PROVE  /\ ValueOf(L, c, k) = ReplayOf(L, k)[c]
             /\ ReplayOf(L, RecordOf(L, c, k).fresh)[c] = ReplayOf(L, k)[c]
  <2>1. ReplayOf(L, m)[c] = ReplayOf(L, k)[c]
        BY <1>5 DEF Good, Cell
  <2>2. Landing(L, c, k) # 0 /\ KeptAt(L, m, k, c)
        BY <1>1, <1>3
  <2>3. PICK f : f = RecordOf(L, c, k).fresh
        OBVIOUS
  <2>4. f \in Nat /\ f < k /\ ValueOf(L, c, k) = ReplayOf(L, f)[c]
        BY <1>0, <1>1, <2>2, <2>3, StampIsFirm, RecordIs
  <2>5. CASE f >= m
    <3>1. m <= f /\ f <= k /\ c \in Cell
          BY <1>0, <1>1, <2>4, <2>5 DEF Cell
    <3>2. ReplayOf(L, f)[c] = ReplayOf(L, k)[c]
          BY <1>0, <1>1, <2>1, <2>4, <3>1, Between
    <3> QED BY <2>3, <2>4, <3>2
  <2>6. CASE ReplayOf(L, f)[c] = ReplayOf(L, m)[c]
        BY <2>1, <2>3, <2>4, <2>6
  <2> QED BY <2>1, <2>2, <2>3, <2>5, <2>6 DEF KeptAt
<1> QED BY <1>6

(* What a round computes is what a replay at its fork point gives.          *)
LEMMA RoundValueIs ==
    ASSUME NEW m, Holds(m), broken.now = {}, Forked(log, m, round)
    PROVE  \A c \in Cell : RoundValue[c] = ReplayOf(log, round.forkAt)[c]
<1> PICK k : k = round.forkAt
    OBVIOUS
<1> DEFINE W == [c \in Cell |-> Value(c, k)]
<1>1. RoundValue = Composed(W, Dirty)
    BY DEF RoundValue
<1>2. \A c \in Cell : W[c] = ValueOf(log, c, k)
    BY OfTheLog
<1> HIDE DEF W
<1>3. Dirty \subseteq Derived
    BY DirtyIs
<1>4. \A c \in Cell : RoundValue[c]
         = IF c \in Dirty THEN [n \in DOMAIN Reads[c] |-> RoundValue[Reads[c][n]]] ELSE W[c]
    BY <1>1, <1>3, ComposedIs
<1> DEFINE Good == {c \in Cell : RoundValue[c] = ReplayOf(log, k)[c]}
<1>5. ASSUME NEW c \in Cell, c \in Derived => ToSet(Reads[c]) \subseteq Good
      PROVE  c \in Good
  <2>1. CASE c \in Dirty
    <3>1. \A n \in DOMAIN Reads[c] : RoundValue[Reads[c][n]] = ReplayOf(log, k)[Reads[c][n]]
          BY <1>3, <1>5, <2>1 DEF ToSet
    <3>2. [n \in DOMAIN Reads[c] |-> RoundValue[Reads[c][n]]]
            = [n \in DOMAIN Reads[c] |-> ReplayOf(log, k)[Reads[c][n]]]
          BY <3>1
    <3>3. ReplayOf(log, k)[c] = [n \in DOMAIN Reads[c] |-> ReplayOf(log, k)[Reads[c][n]]]
          BY <1>3, <2>1, ReplayIs
    <3>4. RoundValue[c] = [n \in DOMAIN Reads[c] |-> RoundValue[Reads[c][n]]]
          BY <1>4, <2>1
    <3> QED BY <3>2, <3>3, <3>4
  <2>2. CASE c \in Source
    <3>1. c \notin Dirty
          BY <1>3, <2>2, ResolveAssumption
    <3>2. RoundValue[c] = W[c]
          BY <1>4, <3>1
    <3>3. ReplayOf(log, k)[c] = ValueOf(log, c, k)
          BY <2>2, ReplayIs
    <3> QED BY <1>2, <3>2, <3>3
  <2>3. CASE c \in Derived \ Dirty
    <3>1. ValueOf(log, c, k) = ReplayOf(log, k)[c]
          BY <2>3, UntouchedHolds
    <3> QED BY <1>2, <1>4, <2>3, <3>1
  <2> QED BY <2>1, <2>2, <2>3 DEF Cell
<1> HIDE DEF Good
<1>6. Cell \subseteq Good
    BY <1>5, EveryCell
<1> QED BY <1>6 DEF Good

(* A run that falls has read a cell a client wrote above the fork point, so *)
(* a replay at the head gives another value.                                *)
LEMMA FallenDiffers ==
    ASSUME NEW m, Holds(m), broken.now = {}, Forked(log, m, round)
    PROVE  \A c \in Fallen \cap Derived : ReplayOf(log, TopOf(log))[c] # ReplayOf(log, round.forkAt)[c]
<1> PICK L : L = log
    OBVIOUS
<1> PICK k : k = round.forkAt
    OBVIOUS
<1> PICK top : top = TopOf(L)
    OBVIOUS
<1>0. LogOk(L) /\ k \in Nat /\ top \in Nat /\ k <= top
    BY TopIs DEF Holds, LogPart, Forked
<1>1. /\ Dirty \subseteq Derived
      /\ \A c \in Cell : c \in Fallen <=>
            \/ c \in Source /\ \E i \in Done(L) : i > k /\ c \in DOMAIN L[i].cells
            \/ c \in Dirty /\ \E d \in ToSet(Reads[c]) : d \in Fallen
    BY DirtyIs
<1> DEFINE Good == {c \in Cell : c \in Fallen => ReplayOf(L, top)[c] # ReplayOf(L, k)[c]}
<1>2. ASSUME NEW c \in Cell, c \in Derived => ToSet(Reads[c]) \subseteq Good
      PROVE  c \in Good
  <2> SUFFICES ASSUME c \in Fallen PROVE ReplayOf(L, top)[c] # ReplayOf(L, k)[c]
      OBVIOUS
  <2>1. CASE c \in Source /\ \E i \in Done(L) : i > k /\ c \in DOMAIN L[i].cells
    <3>1. PICK i \in Done(L) : i > k /\ c \in DOMAIN L[i].cells
          BY <2>1
    <3>2. i <= top /\ i \in Nat
          BY <1>0, TopIs
    <3>3. i \in LayersOf(L, c, top)
          BY <3>1, <3>2 DEF LayersOf
    <3>4. i <= Landing(L, c, top) /\ Landing(L, c, top) \in Nat
          /\ Landing(L, c, k) <= k /\ Landing(L, c, k) \in Nat
          BY <1>0, <3>3, LandingIs
    <3>5. Landing(L, c, top) # Landing(L, c, k)
          BY <1>0, <3>1, <3>2, <3>4
    <3>6. ValueOf(L, c, top) # ValueOf(L, c, k)
          BY <1>0, <2>1, <3>5, SourceSame
    <3> QED BY <2>1, <3>6, ReplayIs
  <2>2. CASE c \in Dirty /\ \E d \in ToSet(Reads[c]) : d \in Fallen
    <3>1. PICK n \in DOMAIN Reads[c] : Reads[c][n] \in Fallen
          BY <2>2 DEF ToSet
    <3>2. Reads[c][n] \in Good
          BY <1>1, <1>2, <2>2 DEF ToSet
    <3>3. ReplayOf(L, top)[Reads[c][n]] # ReplayOf(L, k)[Reads[c][n]]
          BY <3>1, <3>2
    <3>4. c \in Derived
          BY <1>1, <2>2
    <3>5. ReplayOf(L, top)[c] = [j \in DOMAIN Reads[c] |-> ReplayOf(L, top)[Reads[c][j]]]
          BY <3>4, ReplayIs
    <3>6. ReplayOf(L, k)[c] = [j \in DOMAIN Reads[c] |-> ReplayOf(L, k)[Reads[c][j]]]
          BY <3>4, ReplayIs
    <3>7. ReplayOf(L, top)[c][n] = ReplayOf(L, top)[Reads[c][n]]
          BY <3>5
    <3>8. ReplayOf(L, k)[c][n] = ReplayOf(L, k)[Reads[c][n]]
          BY <3>6
    <3> QED BY <3>3, <3>7, <3>8, Zenon
  <2> QED BY <1>1, <2>1, <2>2
<1> HIDE DEF Good
<1>3. Cell \subseteq Good
    BY <1>2, EveryCell
<1> QED BY <1>3 DEF Good, Cell

\* Cells fit to land: made of cells that are there or land with them, at a layer whose
\* replay gives them.
FitToLand(L, cells) ==
    /\ DOMAIN cells \subseteq Derived
    /\ \A c \in DOMAIN cells :
          /\ cells[c].fresh \in Nat /\ cells[c].fresh <= Len(L) /\ cells[c].reads = Reads[c]
          /\ cells[c].value = ReplayOf(L, cells[c].fresh)[c]
          /\ \A d \in ToSet(Reads[c]) \cap Derived :
                d \in DOMAIN cells \/ Landing(L, d, TopOf(L)) # 0

(* What the engine lands is what its cells are read from, the others are    *)
(* read from where they were, and no replay gives another value.            *)
LEMMA LandedIs ==
    ASSUME NEW L, LogOk(L), EngineOk(L), StampsOk(L), NEW N, NEW reflects \in Nat, NEW cells,
           FitToLand(L, cells), Lands(L, N, reflects, cells)
    PROVE  /\ LogOk(N) /\ EngineOk(N) /\ StampsOk(N)
           /\ \A c \in DOMAIN cells : Landing(N, c, TopOf(N)) # 0 /\ RecordOf(N, c, TopOf(N)) = cells[c]
           /\ \A c : c \notin DOMAIN cells =>
                 /\ Landing(N, c, TopOf(N)) = Landing(L, c, TopOf(L))
                 /\ Landing(L, c, TopOf(L)) # 0 => RecordOf(N, c, TopOf(N)) = RecordOf(L, c, TopOf(L))
           /\ \A t \in Nat : t <= Len(L) => \A c \in Cell : ReplayOf(N, t)[c] = ReplayOf(L, t)[c]
           /\ \A c \in Cell : ReplayOf(N, TopOf(N))[c] = ReplayOf(L, TopOf(L))[c]
<1> PICK n : n = Len(L) + 1
    OBVIOUS
<1>1. /\ DOMAIN cells \subseteq Derived
      /\ \A c \in DOMAIN cells : /\ cells[c].fresh \in Nat /\ cells[c].fresh <= Len(L)
                                 /\ cells[c].reads = Reads[c]
    BY DEF FitToLand
<1>a. OneAbove(L, N, reflects, cells) /\ OpenIn(N) = {}
  <2>1. Sourced(L, cells)
        BY <1>1 DEF Sourced
  <2> QED BY <2>1, LandIsLater
<1>2. /\ Later(L, N) /\ Len(L) \in Nat /\ Len(N) = n /\ TopOf(N) = n /\ n = Len(L) + 1
      /\ OpenIn(N) = {} /\ Done(N) = Done(L) \cup {n}
      /\ N[n].by = "engine" /\ N[n].cells = cells
      /\ \A i \in 1..Len(L) : N[i] = L[i]
      /\ \A i \in 1..Len(N) : i \in 1..Len(L) \/ i = n
    BY <1>a DEF OneAbove
<1>3. LogOk(N) /\ TopOf(L) \in Nat /\ TopOf(L) <= Len(L) /\ \A i \in Done(L) : i \in 1..Len(L) /\ i <= TopOf(L)
    BY <1>2, TopIs DEF Later
<1>4. \A t : Firm(L, t) /\ Firm(N, t)
    BY <1>2 DEF Lands, Firm
<1>5. \A t \in Nat : t <= Len(L) => \A c \in Cell : ReplayOf(N, t)[c] = ReplayOf(L, t)[c]
    BY <1>2, <1>4, FirmStays
<1>6. ASSUME NEW c \in DOMAIN cells
      PROVE  Landing(N, c, n) # 0 /\ RecordOf(N, c, n) = cells[c]
  <2>1. n \in LayersOf(N, c, n)
        BY <1>2, <1>6 DEF LayersOf
  <2>2. n \in Nat
        BY <1>2
  <2>3. Landing(N, c, n) <= n /\ Landing(N, c, n) \in Nat /\ n <= Landing(N, c, n)
        BY <1>3, <2>1, <2>2, LandingIs
  <2>4. Landing(N, c, n) = n /\ n # 0
        BY <1>2, <2>2, <2>3
  <2> QED BY <1>2, <2>4 DEF RecordOf
<1>7. ASSUME NEW c, c \notin DOMAIN cells
      PROVE  /\ Landing(N, c, n) = Landing(L, c, TopOf(L))
             /\ Landing(L, c, TopOf(L)) # 0 => RecordOf(N, c, n) = RecordOf(L, c, TopOf(L))
  <2>1. \A i : i \in LayersOf(N, c, n) => i \in LayersOf(L, c, TopOf(L))
        BY <1>2, <1>3, <1>7 DEF LayersOf
  <2>2. \A i : i \in LayersOf(L, c, TopOf(L)) => i \in LayersOf(N, c, n)
        BY <1>2, <1>3 DEF LayersOf
  <2>3. LayersOf(N, c, n) = LayersOf(L, c, TopOf(L))
        BY <2>1, <2>2
  <2>4. Landing(N, c, n) = Landing(L, c, TopOf(L))
        BY <2>3 DEF Landing
  <2>5. Landing(L, c, TopOf(L)) # 0 => Landing(L, c, TopOf(L)) \in 1..Len(L)
        BY <1>3, LandingIs DEF LayersOf
  <2> QED BY <1>2, <2>4, <2>5 DEF RecordOf
<1>8. \A c \in Cell : ReplayOf(N, n)[c] = ReplayOf(L, TopOf(L))[c]
  <2>1. \A s \in Source : s \notin DOMAIN cells
        BY <1>1, ResolveAssumption
  <2>2. \A s \in Source : Landing(N, s, n) = Landing(L, s, TopOf(L))
        BY <1>7, <2>1
  <2>3. n \in Nat
        BY <1>2
  <2> QED BY <1>3, <2>2, <2>3, ReplaySame
<1>9. \A i \in 1..Len(L) : N[i].by = "engine" =>
         /\ Firm(N, i)
         /\ \A c \in DOMAIN N[i].cells :
               /\ \A d \in ToSet(Reads[c]) \cap Derived : Landing(N, d, i) # 0
               /\ N[i].cells[c].value = ReplayOf(N, N[i].cells[c].fresh)[c]
    BY <1>2, SoundStays
<1>10. ASSUME NEW c \in DOMAIN cells, NEW d \in ToSet(Reads[c]) \cap Derived
       PROVE  Landing(N, d, n) # 0
  <2>1. d \in DOMAIN cells \/ Landing(L, d, TopOf(L)) # 0
        BY <1>10 DEF FitToLand
  <2>2. CASE d \in DOMAIN cells
        BY <1>6, <2>2
  <2>3. CASE d \notin DOMAIN cells
        BY <1>7, <2>1, <2>3
  <2> QED BY <2>2, <2>3
<1>11. EngineOk(N)
    BY <1>2, <1>4, <1>9, <1>10 DEF EngineOk
<1>12. ASSUME NEW c \in DOMAIN cells PROVE cells[c].value = ReplayOf(N, cells[c].fresh)[c]
  <2>1. cells[c].value = ReplayOf(L, cells[c].fresh)[c] /\ c \in Cell
        BY <1>1, <1>12 DEF FitToLand, Cell
  <2> QED BY <1>1, <1>5, <2>1
<1>13. StampsOk(N)
    BY <1>2, <1>9, <1>12 DEF StampsOk
<1> QED BY <1>2, <1>3, <1>5, <1>6, <1>7, <1>8, <1>11, <1>13

(* What a round lands, and what it leaves, when it lands (merge_round).     *)
LEMMA RoundLands ==
    ASSUME NEW m, Holds(m), broken.now = {}, Forked(log, m, round),
           NEW cells, cells = [c \in Dirty \ Fallen |-> [value |-> RoundValue[c],
                                  fresh |-> round.reflects, reads |-> Reads[c]]]
    PROVE  /\ FitToLand(log, cells)
           /\ \A c \in Derived \ DOMAIN cells : Landing(log, c, TopOf(log)) # 0 =>
                 \/ ReplayOf(log, RecordOf(log, c, TopOf(log)).fresh)[c] = ReplayOf(log, round.reflects)[c]
                 \/ ReplayOf(log, TopOf(log))[c] # ReplayOf(log, round.reflects)[c]
<1> PICK L : L = log
    OBVIOUS
<1> PICK k : k = round.forkAt
    OBVIOUS
<1> PICK w : w = round.reflects
    OBVIOUS
<1> PICK top : top = TopOf(L)
    OBVIOUS
<1>0. /\ LogOk(L) /\ EngineOk(L) /\ StampsOk(L) /\ k \in Nat /\ top \in Nat /\ w \in Nat
      /\ w <= k /\ k <= top /\ top <= Len(L) /\ Len(L) \in Nat
      /\ \A i \in 1..Len(L) : L[i].by = "engine" => i <= k
      /\ \A i \in Done(L) : L[i].by = "client" => i <= w \/ k < i
    BY TopIs DEF Holds, LogPart, Forked, LogOk
<1>1. /\ Dirty \subseteq Derived
      /\ \A c \in Derived \ Dirty : Landing(L, c, k) # 0
      /\ \A c \in Cell : c \in Dirty /\ (\E d \in ToSet(Reads[c]) : d \in Fallen) => c \in Fallen
    BY DirtyIs
<1>2. DOMAIN cells = Dirty \ Fallen
      /\ \A c \in Dirty \ Fallen : cells[c].value = RoundValue[c] /\ cells[c].fresh = w
                                   /\ cells[c].reads = Reads[c]
    OBVIOUS
<1>3. \A c \in Cell : ReplayOf(L, w)[c] = ReplayOf(L, k)[c]
  <2>1. ASSUME NEW s \in Source PROVE Landing(L, s, w) = Landing(L, s, k)
    <3>1. PICK i : i = Landing(L, s, k)
          OBVIOUS
    <3>2. i \in Nat /\ i <= k /\ (i # 0 => i \in LayersOf(L, s, k))
          BY <1>0, <3>1, LandingIs
    <3>3. i <= w
      <4> SUFFICES ASSUME i # 0 PROVE i <= w
          BY <1>0, <3>2
      <4>1. i \in Done(L) /\ s \in DOMAIN L[i].cells /\ i \in 1..Len(L)
            BY <1>0, <3>2, TopIs DEF LayersOf
      <4>2. L[i].by = "client"
            BY <1>0, <4>1, ResolveAssumption DEF LogOk, LayerOk
      <4> QED BY <1>0, <3>2, <4>1, <4>2
    <3> QED BY <1>0, <3>1, <3>3, LandingRises
  <2> QED BY <1>0, <2>1, ReplaySame
<1>4. \A c \in Cell : RoundValue[c] = ReplayOf(L, k)[c]
    BY RoundValueIs
<1>5. ASSUME NEW c \in Derived, Landing(L, c, k) # 0
      PROVE  Landing(L, c, top) # 0
    BY <1>0, <1>5, LandingRises, LandingIs
<1>6. ASSUME NEW c \in DOMAIN cells, NEW d \in ToSet(Reads[c]) \cap Derived
      PROVE  d \in DOMAIN cells \/ Landing(L, d, top) # 0
  <2>1. c \in Cell /\ c \in Dirty /\ c \notin Fallen
        BY <1>1, <1>2 DEF Cell
  <2>2. d \notin Fallen
        BY <1>1, <2>1
  <2> QED BY <1>1, <1>2, <1>5, <2>2
<1>7. FitToLand(L, cells)
  <2>1. ASSUME NEW c \in DOMAIN cells
        PROVE  /\ cells[c].fresh \in Nat /\ cells[c].fresh <= Len(L) /\ cells[c].reads = Reads[c]
               /\ cells[c].value = ReplayOf(L, cells[c].fresh)[c]
    <3>1. c \in Cell /\ c \in Dirty \ Fallen
          BY <1>1, <1>2 DEF Cell
    <3>2. w <= Len(L)
          BY <1>0
    <3> QED BY <1>0, <1>2, <1>3, <1>4, <3>1, <3>2
  <2>2. DOMAIN cells \subseteq Derived
        BY <1>1, <1>2
  <2> QED BY <1>6, <2>1, <2>2 DEF FitToLand
<1>8. ASSUME NEW c \in Derived \ DOMAIN cells, Landing(L, c, top) # 0
      PROVE  \/ ReplayOf(L, RecordOf(L, c, top).fresh)[c] = ReplayOf(L, w)[c]
             \/ ReplayOf(L, top)[c] # ReplayOf(L, w)[c]
  <2>0. c \in Cell
        BY DEF Cell
  <2>1. CASE c \in Fallen
    <3>1. ReplayOf(L, top)[c] # ReplayOf(L, k)[c]
          BY <2>1, FallenDiffers
    <3> QED BY <1>3, <2>0, <3>1
  <2>2. CASE c \notin Fallen
    <3>1. c \in Derived \ Dirty
          BY <1>2, <2>2
    <3>2. ReplayOf(L, RecordOf(L, c, k).fresh)[c] = ReplayOf(L, k)[c]
          BY <3>1, UntouchedHolds
    <3>3. Landing(L, c, top) <= k
          BY <1>0, <1>8, RecordIs
    <3>4. Landing(L, c, k) = Landing(L, c, top)
          BY <1>0, <3>3, LandingRises
    <3>5. RecordOf(L, c, top) = RecordOf(L, c, k)
          BY <3>4 DEF RecordOf
    <3> QED BY <1>3, <2>0, <3>2, <3>5
  <2> QED BY <2>1, <2>2
<1> QED BY <1>7, <1>8

(* What is there stays there.                                               *)
LEMMA StillThere ==
    ASSUME NEW L, NEW N, Later(L, N), NEW c, Landing(L, c, TopOf(L)) # 0
    PROVE  Landing(N, c, TopOf(N)) # 0
<1>1. LogOk(L) /\ LogOk(N) /\ TopOf(L) \in Nat /\ TopOf(N) \in Nat
    BY TopIs DEF Later
<1>2. TopOf(L) <= TopOf(N)
    BY <1>1, LandingGrows
<1>3. Landing(L, c, TopOf(N)) = Landing(L, c, TopOf(L))
    BY <1>1, <1>2, AtTheTop
<1>4. Landing(L, c, TopOf(N)) <= Landing(N, c, TopOf(N))
    BY <1>1, LandingGrows
<1>5. Landing(L, c, TopOf(N)) \in Nat /\ Landing(N, c, TopOf(N)) \in Nat
    BY <1>1, LandingIs
<1> QED BY <1>3, <1>4, <1>5

(* A step in which the log does not change.                                 *)
LEMMA LaterSelf ==
    ASSUME NEW L, LogOk(L)
    PROVE  Later(L, L)
<1>1. Len(L) \in Nat
    BY DEF LogOk
<1> QED BY <1>1 DEF Later

\* What is left when a round has landed: the log, and what its new watermark promises.
Landed(L, N, m, w) ==
    /\ LogOk(N) /\ EngineOk(N) /\ StampsOk(N) /\ Later(L, N) /\ OpenIn(N) = {}
    /\ Kept(N, w)
    /\ \A i \in 1..Len(N) : N[i].by = "engine" => N[i].reflects <= m \/ N[i].reflects <= w

(* What a round lands keeps the promise of the watermark it is labelled with, *)
(* and so does a round that lands nothing (merge_round).                      *)
LEMMA LandsWell ==
    ASSUME NEW L, LogOk(L), EngineOk(L), StampsOk(L), OpenIn(L) = {}, NEW N, NEW m,
           NEW w \in Nat, w <= TopOf(L), NEW cells, FitToLand(L, cells),
           \A c \in DOMAIN cells : cells[c].fresh = w,
           \A c \in Derived \ DOMAIN cells : Landing(L, c, TopOf(L)) # 0 =>
                 \/ ReplayOf(L, RecordOf(L, c, TopOf(L)).fresh)[c] = ReplayOf(L, w)[c]
                 \/ ReplayOf(L, TopOf(L))[c] # ReplayOf(L, w)[c],
           \A i \in 1..Len(L) : L[i].by = "engine" => L[i].reflects <= m,
           Lands(L, N, w, cells) \/ (N = L /\ DOMAIN cells = {})
    PROVE  Landed(L, N, m, w)
<1>1. Len(L) \in Nat /\ TopOf(L) \in Nat /\ TopOf(L) <= Len(L)
    BY TopIs DEF LogOk
<1>2. \A c \in Derived : c \notin DOMAIN cells /\ Landing(L, c, TopOf(L)) # 0 =>
         \/ ReplayOf(L, RecordOf(L, c, TopOf(L)).fresh)[c] = ReplayOf(L, w)[c]
         \/ ReplayOf(L, TopOf(L))[c] # ReplayOf(L, w)[c]
    OBVIOUS
<1>3. CASE N = L /\ DOMAIN cells = {}
  <2>1. ASSUME NEW c \in Derived, Landing(L, c, TopOf(L)) # 0 PROVE KeptOne(L, w, c)
    <3>1. \/ ReplayOf(L, RecordOf(L, c, TopOf(L)).fresh)[c] = ReplayOf(L, w)[c]
          \/ ReplayOf(L, TopOf(L))[c] # ReplayOf(L, w)[c]
          BY <1>2, <1>3, <2>1
    <3>2. TopOf(L) \in w..TopOf(L) /\ Firm(L, TopOf(L))
          BY <1>1 DEF Firm
    <3> QED BY <3>1, <3>2 DEF KeptOne
  <2>2. Kept(L, w)
        BY <2>1 DEF Kept
  <2>3. Later(L, L)
        BY LaterSelf
  <2>4. \A i \in 1..Len(L) : L[i].by = "engine" => L[i].reflects <= m \/ L[i].reflects <= w
        OBVIOUS
  <2>5. Landed(L, L, m, w)
        BY <2>2, <2>3, <2>4, Zenon DEF Landed
  <2> QED BY <1>3, <2>5
<1>4. CASE Lands(L, N, w, cells)
  <2>1. /\ LogOk(N) /\ EngineOk(N) /\ StampsOk(N)
        /\ \A c \in DOMAIN cells : Landing(N, c, TopOf(N)) # 0 /\ RecordOf(N, c, TopOf(N)) = cells[c]
        /\ \A c : c \notin DOMAIN cells =>
              /\ Landing(N, c, TopOf(N)) = Landing(L, c, TopOf(L))
              /\ Landing(L, c, TopOf(L)) # 0 => RecordOf(N, c, TopOf(N)) = RecordOf(L, c, TopOf(L))
        /\ \A t \in Nat : t <= Len(L) => \A c \in Cell : ReplayOf(N, t)[c] = ReplayOf(L, t)[c]
        BY <1>4, LandedIs
  <2>2. /\ Later(L, N) /\ Len(N) = Len(L) + 1 /\ TopOf(N) = Len(L) + 1 /\ OpenIn(N) = {}
        /\ N[Len(L) + 1].reflects = w
        /\ \A i \in 1..Len(L) : N[i] = L[i]
        /\ \A i \in 1..Len(N) : i \in 1..Len(L) \/ i = Len(L) + 1
    <3>1. Sourced(L, cells)
          BY DEF FitToLand, Sourced
    <3>2. OneAbove(L, N, w, cells) /\ OpenIn(N) = {}
          BY <1>4, <3>1, LandIsLater
    <3> QED BY <3>2 DEF OneAbove
  <2>3. ASSUME NEW c \in Derived, Landing(N, c, TopOf(N)) # 0 PROVE KeptOne(N, w, c)
    <3>1. CASE c \in DOMAIN cells
      <4>1. RecordOf(N, c, TopOf(N)).fresh = w
            BY <2>1, <3>1
      <4> QED BY <4>1 DEF KeptOne
    <3>2. CASE c \notin DOMAIN cells
      <4>1. Landing(L, c, TopOf(L)) # 0 /\ RecordOf(N, c, TopOf(N)) = RecordOf(L, c, TopOf(L))
            BY <2>1, <2>3, <3>2
      <4>2. PICK f : f = RecordOf(L, c, TopOf(L)).fresh
            OBVIOUS
      <4>3. f \in Nat /\ f <= Len(L)
            BY <1>1, <4>1, <4>2, StampIsFirm
      <4>4. \/ ReplayOf(L, f)[c] = ReplayOf(L, w)[c]
            \/ ReplayOf(L, TopOf(L))[c] # ReplayOf(L, w)[c]
            BY <1>2, <3>2, <4>1, <4>2
      <4>5. /\ ReplayOf(N, f)[c] = ReplayOf(L, f)[c] /\ ReplayOf(N, w)[c] = ReplayOf(L, w)[c]
            /\ ReplayOf(N, TopOf(L))[c] = ReplayOf(L, TopOf(L))[c]
            BY <1>1, <2>1, <4>3 DEF Cell
      <4>6. TopOf(L) \in w..TopOf(N) /\ Firm(N, TopOf(L))
            BY <1>1, <2>2 DEF Firm
      <4>7. RecordOf(N, c, TopOf(N)).fresh = f
            BY <4>1, <4>2
      <4>8. \/ ReplayOf(N, RecordOf(N, c, TopOf(N)).fresh)[c] = ReplayOf(N, w)[c]
            \/ ReplayOf(N, TopOf(L))[c] # ReplayOf(N, w)[c]
            BY <4>4, <4>5, <4>7
      <4> QED BY <4>6, <4>8 DEF KeptOne
    <3> QED BY <3>1, <3>2
  <2>4. Kept(N, w)
        BY <2>3 DEF Kept
  <2>5. ASSUME NEW i \in 1..Len(N), N[i].by = "engine"
        PROVE  N[i].reflects <= m \/ N[i].reflects <= w
    <3>1. CASE i \in 1..Len(L)
          BY <2>2, <2>5, <3>1
    <3>2. CASE i = Len(L) + 1
          BY <1>1, <2>2, <3>2
    <3> QED BY <2>2, <3>1, <3>2
  <2> QED BY <2>1, <2>2, <2>4, <2>5 DEF Landed
<1> QED BY <1>3, <1>4

(* A landing leaves a reader that computes where it was: with a round in      *)
(* progress nothing is settled, and nobody is running (Land).                 *)
LEMMA LandingKeepsCall ==
    ASSUME NEW L, NEW N, Later(L, N), EngineOk(L), StampsOk(L), OpenIn(L) = {},
           NEW m, NEW rd, NEW rd2, rd # NoRound,
           NEW x, CallOk(L, m, rd, x), NEW y, Alike(x, y)
    PROVE  CallOk(N, m, rd2, y)
<1>1. x.at # "run"
    BY DEF CallOk, RunOk
<1>2. ASSUME x.at \in {"compute", "run"} PROVE TodoOk(N, rd2, x.todo)
  <2>1. TodoOk(L, rd, x.todo)
        BY <1>2 DEF CallOk
  <2>2. \A d : ~Settled(L, rd, d)
        BY DEF Settled
  <2>3. PICK s : s = x.todo
        OBVIOUS
  <2>4. \A k \in 1..Len(s) : Landing(N, s[k], TopOf(N)) # 0
        BY <2>1, <2>3, StillThere DEF TodoOk
  <2>5. s \in Seq(Derived)
        /\ \A k \in 1..Len(s) : \A d \in ToSet(Reads[s[k]]) \cap Derived : \E j \in 1..(k - 1) : s[j] = d
        BY <2>1, <2>2, <2>3 DEF TodoOk
  <2>6. TodoOk(N, rd2, s)
        BY <2>4, <2>5, Zenon DEF TodoOk
  <2> QED BY <2>3, <2>6
<1>3. x.at = "run" => RunOk(N, m, rd2, x)
    BY <1>1
<1> QED BY <1>2, <1>3, EngineKeepsCall

(* Land.                                                                    *)
LEMMA LandKeeps ==
    ASSUME NEW m, Holds(m), Overlap = FALSE, broken.now = {}, Land
    PROVE  Holds(m)'
<1> PICK L : L = log
    OBVIOUS
<1> PICK N : N = log'
    OBVIOUS
<1> PICK w : w = round.reflects
    OBVIOUS
<1> PICK cells : cells = [c \in Dirty \ Fallen |-> [value |-> RoundValue[c],
                             fresh |-> round.reflects, reads |-> Reads[c]]]
    OBVIOUS
<1>1. LogOk(L) /\ EngineOk(L) /\ StampsOk(L) /\ m \in Nat /\ MarkOk(L, m) /\ Len(L) \in Nat
      /\ TopOf(L) \in Nat /\ TopOf(L) <= Len(L)
    BY TopIs DEF Holds, LogPart, LogOk
<1>2. round.phase = "forked" /\ round # NoRound /\ OpenIn(L) = {}
    BY OfTheLog DEF Land, NoRound
<1>3. Forked(L, m, round)
    BY <1>2 DEF Holds, RoundOk
<1>4. w \in Nat /\ m <= w /\ w <= TopOf(L) /\ w <= Len(L)
    BY <1>1, <1>3 DEF Forked
<1>5. FitToLand(L, cells)
      /\ \A c \in Derived \ DOMAIN cells : Landing(L, c, TopOf(L)) # 0 =>
            \/ ReplayOf(L, RecordOf(L, c, TopOf(L)).fresh)[c] = ReplayOf(L, w)[c]
            \/ ReplayOf(L, TopOf(L))[c] # ReplayOf(L, w)[c]
    BY <1>3, RoundLands
<1>6. DOMAIN cells = Dirty \ Fallen /\ \A c \in DOMAIN cells : cells[c].fresh = w
    OBVIOUS
<1>7. \A i \in 1..Len(L) : L[i].by = "engine" => L[i].reflects <= m
    BY <1>2 DEF Holds, RoundOk
<1>8. Lands(L, N, w, cells) \/ (N = L /\ DOMAIN cells = {})
  <2>1. CASE Dirty \ Fallen = {}
        BY <1>6, <2>1 DEF Land
  <2>2. CASE Dirty \ Fallen # {}
    <3>1. N = Append(L, [by |-> "engine", state |-> "committed", reflects |-> w, cells |-> cells])
          BY <2>2, Zenon DEF Land
    <3> QED BY <1>2, <3>1 DEF Lands
  <2> QED BY <2>1, <2>2
<1>9. Landed(L, N, m, w)
    BY <1>1, <1>2, <1>4, <1>5, <1>6, <1>7, <1>8, LandsWell
<1>10. /\ LogOk(N) /\ EngineOk(N) /\ StampsOk(N) /\ Later(L, N) /\ OpenIn(N) = {} /\ Kept(N, w)
       /\ \A i \in 1..Len(N) : N[i].by = "engine" => N[i].reflects <= m \/ N[i].reflects <= w
    BY <1>9 DEF Landed
<1>11. TopOf(N) \in Nat /\ TopOf(L) <= TopOf(N)
    BY <1>10, <1>1, TopIs, LandingGrows
<1> PICK rd : rd = [phase |-> "landed", forkAt |-> round.forkAt, reflects |-> w]
    OBVIOUS
<1>12. round' = rd
  <2>1. round = [phase |-> round.phase, forkAt |-> round.forkAt, reflects |-> round.reflects]
        BY DEF Holds, RoundOk
  <2>2. round' = [round EXCEPT !.phase = "landed"]
        BY DEF Land
  <2> QED BY <2>1, <2>2
<1>13. /\ rd = [phase |-> rd.phase, forkAt |-> rd.forkAt, reflects |-> rd.reflects]
       /\ rd.phase = "landed" /\ rd.reflects = w
    OBVIOUS
<1>14. MarkOk(N, m)
    BY <1>1, <1>4, <1>10, <1>11 DEF MarkOk, Firm
<1>15. RoundOk(N, m, rd)
  <2>1. w \in m..TopOf(N) /\ Firm(N, w)
        BY <1>1, <1>4, <1>10, <1>11 DEF Firm
  <2> QED BY <1>10, <1>13, <2>1 DEF RoundOk
<1>16. ASSUME NEW r \in Reader PROVE CallOk(N, m, rd, Disturbed[r])
  <2>1. PICK x : x = call[r]
        OBVIOUS
  <2>2. PICK y : y = Disturbed[r]
        OBVIOUS
  <2>3. CallOk(L, m, round, x) /\ Alike(x, y)
        BY <2>1, <2>2, DisturbedIs DEF Holds, CallsOk
  <2>4. PICK ro : ro = round
        OBVIOUS
  <2>5. CallOk(N, m, rd, y)
        BY <1>1, <1>2, <1>10, <2>3, <2>4, LandingKeepsCall
  <2> QED BY <2>2, <2>5
<1>17. CallsOk(N, m, rd, Disturbed)
    BY <1>16, DisturbedIs DEF CallsOk
<1>18. mark' = mark /\ call' = Disturbed
    BY DEF Land
<1> QED BY <1>10, <1>12, <1>14, <1>15, <1>17, <1>18 DEF Holds, LogPart

\* What an inline run lands: the cell, made of what is read at the head.
RanCells(L, c, claim) ==
    [d \in {c} |-> [value |-> [n \in DOMAIN Reads[c] |-> ValueOf(L, Reads[c][n], TopOf(L))],
                    fresh |-> claim, reads |-> Reads[c]]]

\* The values at the head are what a replay gives.
TrueAt(L, d) == ValueOf(L, d, TopOf(L)) = ReplayOf(L, TopOf(L))[d]

(* A run over inputs that are settled makes what a replay at the head it     *)
(* claimed gives, whatever the engine landed since (run_now).                *)
LEMMA RanIsFit ==
    ASSUME NEW L, LogOk(L), EngineOk(L), StampsOk(L), NEW c \in Derived,
           Landing(L, c, TopOf(L)) # 0, NEW claim \in Nat, claim <= TopOf(L),
           \A i \in Done(L) : L[i].by = "client" => i <= claim,
           \A d \in ToSet(Reads[c]) \cap Derived : TrueAt(L, d)
    PROVE  /\ FitToLand(L, RanCells(L, c, claim))
           /\ RanCells(L, c, claim)[c].value = ReplayOf(L, TopOf(L))[c]
<1> PICK top : top = TopOf(L)
    OBVIOUS
<1> PICK v : v = [n \in DOMAIN Reads[c] |-> ValueOf(L, Reads[c][n], top)]
    OBVIOUS
<1> PICK cells : cells = RanCells(L, c, claim)
    OBVIOUS
<1>1. top \in Nat /\ top <= Len(L) /\ Len(L) \in Nat /\ \A i \in Done(L) : i \in 1..Len(L) /\ i <= top
    BY TopIs DEF LogOk
<1>2. DOMAIN cells = {c} /\ cells[c].value = v /\ cells[c].fresh = claim /\ cells[c].reads = Reads[c]
    BY DEF RanCells
<1>3. \A k \in Cell : ReplayOf(L, claim)[k] = ReplayOf(L, top)[k]
  <2>1. ASSUME NEW s \in Source PROVE Landing(L, s, claim) = Landing(L, s, top)
    <3>1. PICK i : i = Landing(L, s, top)
          OBVIOUS
    <3>2. i \in Nat /\ i <= top /\ (i # 0 => i \in LayersOf(L, s, top))
          BY <1>1, <3>1, LandingIs
    <3>3. i <= claim
      <4> SUFFICES ASSUME i # 0 PROVE i <= claim
          OBVIOUS
      <4>1. i \in Done(L) /\ s \in DOMAIN L[i].cells /\ i \in 1..Len(L)
            BY <1>1, <3>2 DEF LayersOf
      <4>2. L[i].by = "client"
            BY <4>1, ResolveAssumption DEF LogOk, LayerOk
      <4> QED BY <4>1, <4>2
    <3> QED BY <1>1, <3>1, <3>3, LandingRises
  <2> QED BY <1>1, <2>1, ReplaySame
<1>4. ASSUME NEW n \in DOMAIN Reads[c]
      PROVE  ValueOf(L, Reads[c][n], top) = ReplayOf(L, top)[Reads[c][n]]
  <2>1. Reads[c] \in Seq(Cell)
        BY ResolveAssumption
  <2>2. Reads[c][n] \in Cell /\ Reads[c][n] \in ToSet(Reads[c])
        BY <2>1 DEF ToSet
  <2>3. CASE Reads[c][n] \in Source
        BY <2>3, ReplayIs
  <2>4. CASE Reads[c][n] \in Derived
        BY <2>2, <2>4 DEF TrueAt
  <2> QED BY <2>2, <2>3, <2>4 DEF Cell
<1>5. ReplayOf(L, top)[c] = [n \in DOMAIN Reads[c] |-> ReplayOf(L, top)[Reads[c][n]]]
    BY ReplayIs
<1>6. v = ReplayOf(L, top)[c]
    BY <1>4, <1>5
<1>7. v = ReplayOf(L, claim)[c]
    BY <1>3, <1>6 DEF Cell
<1>8. \A d \in ToSet(Reads[c]) \cap Derived : Landing(L, d, top) # 0
    BY <1>1, InputsAreThere
<1>9. FitToLand(L, cells)
    BY <1>1, <1>2, <1>7, <1>8 DEF FitToLand
<1> QED BY <1>2, <1>6, <1>9

(* What the watermarks promise, and what is settled, an inline run keeps: it *)
(* adds a cell that is settled, with a stamp at or above the watermark, and  *)
(* its layer is labelled with the watermark (run_now).                       *)
LEMMA RanKeeps ==
    ASSUME NEW L, LogOk(L), EngineOk(L), StampsOk(L), NEW c \in Derived,
           Landing(L, c, TopOf(L)) # 0, NEW m \in Nat, NEW claim \in m..TopOf(L),
           \A i \in Done(L) : L[i].by = "client" => i <= claim,
           \A d \in ToSet(Reads[c]) \cap Derived : TrueAt(L, d),
           NEW N, Lands(L, N, m, RanCells(L, c, claim)), Kept(L, m),
           \A i \in 1..Len(L) : L[i].by = "engine" => L[i].reflects <= m
    PROVE  /\ LogOk(N) /\ EngineOk(N) /\ StampsOk(N) /\ Later(L, N) /\ OpenIn(N) = {}
           /\ Kept(N, m)
           /\ \A i \in 1..Len(N) : N[i].by = "engine" => N[i].reflects <= m
           /\ \A i \in Done(N) : N[i].by = "client" => i <= claim
           /\ Landing(N, c, TopOf(N)) # 0 /\ TrueAt(N, c)
           /\ \A d \in Derived : TrueAt(L, d) => TrueAt(N, d)
<1> PICK cells : cells = RanCells(L, c, claim)
    OBVIOUS
<1>1. Len(L) \in Nat /\ TopOf(L) \in Nat /\ TopOf(L) <= Len(L) /\ claim \in Nat /\ claim <= TopOf(L)
      /\ m <= claim
    BY TopIs DEF LogOk
<1>2. DOMAIN cells = {c} /\ cells[c].fresh = claim
    BY DEF RanCells
<1>3. FitToLand(L, cells) /\ cells[c].value = ReplayOf(L, TopOf(L))[c]
    BY <1>1, RanIsFit
<1>4. Lands(L, N, m, cells)
    OBVIOUS
<1>5. /\ LogOk(N) /\ EngineOk(N) /\ StampsOk(N)
      /\ \A d \in DOMAIN cells : Landing(N, d, TopOf(N)) # 0 /\ RecordOf(N, d, TopOf(N)) = cells[d]
      /\ \A d : d \notin DOMAIN cells =>
            /\ Landing(N, d, TopOf(N)) = Landing(L, d, TopOf(L))
            /\ Landing(L, d, TopOf(L)) # 0 => RecordOf(N, d, TopOf(N)) = RecordOf(L, d, TopOf(L))
      /\ \A t \in Nat : t <= Len(L) => \A d \in Cell : ReplayOf(N, t)[d] = ReplayOf(L, t)[d]
      /\ \A d \in Cell : ReplayOf(N, TopOf(N))[d] = ReplayOf(L, TopOf(L))[d]
    BY <1>3, <1>4, LandedIs
<1>6. /\ Later(L, N) /\ Len(N) = Len(L) + 1 /\ TopOf(N) = Len(L) + 1 /\ OpenIn(N) = {}
      /\ Done(N) = Done(L) \cup {Len(L) + 1}
      /\ N[Len(L) + 1].reflects = m /\ N[Len(L) + 1].by = "engine"
      /\ \A i \in 1..Len(L) : N[i] = L[i]
      /\ \A i \in 1..Len(N) : i \in 1..Len(L) \/ i = Len(L) + 1
  <2>1. Sourced(L, cells)
        BY <1>3 DEF FitToLand, Sourced
  <2>2. OneAbove(L, N, m, cells) /\ OpenIn(N) = {}
        BY <1>4, <2>1, LandIsLater
  <2> QED BY <2>2 DEF OneAbove
<1>7. ASSUME NEW d \in Derived, Landing(N, d, TopOf(N)) # 0 PROVE KeptOne(N, m, d)
  <2>1. CASE d = c
    <3>1. RecordOf(N, d, TopOf(N)).fresh = claim
          BY <1>2, <1>5, <2>1
    <3> QED BY <1>1, <3>1 DEF KeptOne
  <2>2. CASE d # c
    <3>1. Landing(L, d, TopOf(L)) # 0 /\ RecordOf(N, d, TopOf(N)) = RecordOf(L, d, TopOf(L))
          BY <1>2, <1>5, <1>7, <2>2
    <3>2. PICK f : f = RecordOf(L, d, TopOf(L)).fresh
          OBVIOUS
    <3>3. f \in Nat /\ f <= Len(L) /\ RecordOf(N, d, TopOf(N)).fresh = f
          BY <1>1, <3>1, <3>2, StampIsFirm
    <3>4. KeptOne(L, m, d)
          BY <3>1 DEF Kept
    <3>5. CASE f >= m
          BY <3>3, <3>5 DEF KeptOne
    <3>6. CASE ReplayOf(L, f)[d] = ReplayOf(L, m)[d]
      <4>1. ReplayOf(N, f)[d] = ReplayOf(L, f)[d] /\ ReplayOf(N, m)[d] = ReplayOf(L, m)[d]
            BY <1>1, <1>5, <3>3 DEF Cell
      <4>2. ReplayOf(N, f)[d] = ReplayOf(N, m)[d]
            BY <3>6, <4>1
      <4> QED BY <3>3, <4>2 DEF KeptOne
    <3>7. CASE \E t \in m..TopOf(L) : Firm(L, t) /\ ReplayOf(L, t)[d] # ReplayOf(L, m)[d]
      <4>1. PICK t \in m..TopOf(L) : ReplayOf(L, t)[d] # ReplayOf(L, m)[d]
            BY <3>7
      <4>2. ReplayOf(N, t)[d] = ReplayOf(L, t)[d] /\ ReplayOf(N, m)[d] = ReplayOf(L, m)[d]
            BY <1>1, <1>5 DEF Cell
      <4>3. t \in m..TopOf(N) /\ Firm(N, t)
            BY <1>1, <1>6 DEF Firm
      <4>4. ReplayOf(N, t)[d] # ReplayOf(N, m)[d]
            BY <4>1, <4>2
      <4> QED BY <4>3, <4>4 DEF KeptOne
    <3> QED BY <3>2, <3>4, <3>5, <3>6, <3>7 DEF KeptOne
  <2> QED BY <2>1, <2>2
<1>8. Kept(N, m)
    BY <1>7 DEF Kept
<1>9. \A i \in 1..Len(N) : N[i].by = "engine" => N[i].reflects <= m
  <2>1. ASSUME NEW i \in 1..Len(N), N[i].by = "engine" PROVE N[i].reflects <= m
    <3>1. CASE i \in 1..Len(L)
          BY <1>6, <2>1, <3>1
    <3>2. CASE i = Len(L) + 1
          BY <1>6, <3>2
    <3> QED BY <1>6, <3>1, <3>2
  <2> QED BY <2>1
<1>10. \A i \in Done(N) : N[i].by = "client" => i <= claim
  <2>1. ASSUME NEW i \in Done(N), N[i].by = "client" PROVE i <= claim
    <3>1. i # Len(L) + 1
          BY <1>6, <2>1
    <3>2. i \in Done(L) /\ i \in 1..Len(L)
          BY <1>6, <3>1, TopIs
    <3> QED BY <1>6, <2>1, <3>2
  <2> QED BY <2>1
<1>11. Landing(N, c, TopOf(N)) # 0 /\ TrueAt(N, c)
  <2>1. Landing(N, c, TopOf(N)) # 0 /\ RecordOf(N, c, TopOf(N)) = cells[c]
        BY <1>2, <1>5
  <2>2. ReplayOf(N, TopOf(N))[c] = ReplayOf(L, TopOf(L))[c]
        BY <1>5 DEF Cell
  <2> QED BY <1>3, <2>1, <2>2 DEF TrueAt, ValueOf
<1>12. ASSUME NEW d \in Derived, TrueAt(L, d) PROVE TrueAt(N, d)
  <2>1. CASE d = c
        BY <1>11, <2>1
  <2>2. CASE d # c
    <3>1. /\ Landing(N, d, TopOf(N)) = Landing(L, d, TopOf(L))
          /\ Landing(L, d, TopOf(L)) # 0 => RecordOf(N, d, TopOf(N)) = RecordOf(L, d, TopOf(L))
          BY <1>2, <1>5, <2>2
    <3>2. ValueOf(N, d, TopOf(N)) = ValueOf(L, d, TopOf(L))
          BY <3>1 DEF ValueOf
    <3>3. ReplayOf(N, TopOf(N))[d] = ReplayOf(L, TopOf(L))[d]
          BY <1>5 DEF Cell
    <3> QED BY <1>12, <3>2, <3>3 DEF TrueAt
  <2> QED BY <2>1, <2>2
<1> QED BY <1>5, <1>6, <1>8, <1>9, <1>10, <1>11, <1>12

(* What is left to run stays in order while others run, and when its first   *)
(* cell has been run: that one is settled then (run_now).                    *)
LEMMA TodoLater ==
    ASSUME NEW L, NEW N, Later(L, N), OpenIn(N) = {}, NEW rd,
           \A d \in Derived : TrueAt(L, d) => TrueAt(N, d), NEW s, TodoOk(L, rd, s)
    PROVE  TodoOk(N, rd, s)
<1>1. s \in Seq(Derived)
    BY DEF TodoOk
<1>2. \A k \in 1..Len(s) : Landing(N, s[k], TopOf(N)) # 0
    BY StillThere DEF TodoOk
<1>3. \A d \in Derived : Settled(L, rd, d) => Settled(N, rd, d)
    BY DEF Settled, TrueAt
<1>4. \A k \in 1..Len(s) : \A d \in ToSet(Reads[s[k]]) \cap Derived :
         (\E j \in 1..(k - 1) : s[j] = d) \/ Settled(N, rd, d)
    BY <1>3 DEF TodoOk
<1> QED BY <1>1, <1>2, <1>4, Zenon DEF TodoOk

LEMMA TodoTail ==
    ASSUME NEW N, NEW rd, NEW s, TodoOk(N, rd, s), s # <<>>, Settled(N, rd, s[1])
    PROVE  TodoOk(N, rd, Tail(s))
<1> PICK t : t = Tail(s)
    OBVIOUS
<1>1. s \in Seq(Derived)
    BY DEF TodoOk
<1>2. /\ Len(s) \in Nat /\ Len(s) >= 1 /\ t \in Seq(Derived) /\ Len(t) = Len(s) - 1
      /\ \A k \in 1..Len(t) : t[k] = s[k + 1]
    BY <1>1
<1>3. ASSUME NEW k \in 1..Len(t) PROVE Landing(N, t[k], TopOf(N)) # 0
  <2>1. k + 1 \in 1..Len(s) /\ t[k] = s[k + 1]
        BY <1>2
  <2> QED BY <2>1 DEF TodoOk
<1>4. ASSUME NEW k \in 1..Len(t), NEW d \in ToSet(Reads[t[k]]) \cap Derived
      PROVE  (\E j \in 1..(k - 1) : t[j] = d) \/ Settled(N, rd, d)
  <2>1. PICK n : n = k + 1
        OBVIOUS
  <2>2. n \in 1..Len(s) /\ t[k] = s[n] /\ k \in Nat /\ n = k + 1
        BY <1>2, <2>1
  <2>3. (\E j \in 1..(n - 1) : s[j] = d) \/ Settled(N, rd, d)
        BY <2>2 DEF TodoOk
  <2>4. ASSUME NEW j \in 1..(n - 1), s[j] = d
        PROVE  (\E i \in 1..(k - 1) : t[i] = d) \/ Settled(N, rd, d)
    <3>1. CASE j = 1
          BY <2>4, <3>1
    <3>2. CASE j # 1
      <4>1. j - 1 \in 1..(k - 1) /\ j - 1 \in 1..Len(t)
            BY <1>2, <2>2, <3>2
      <4>2. t[j - 1] = s[(j - 1) + 1]
            BY <1>2, <4>1
      <4>3. (j - 1) + 1 = j
            BY <2>2
      <4> QED BY <2>4, <4>1, <4>2, <4>3
    <3> QED BY <3>1, <3>2
  <2> QED BY <2>3, <2>4
<1>5. TodoOk(N, rd, t)
    BY <1>2, <1>3, <1>4, Zenon DEF TodoOk
<1> QED BY <1>5

(* Run.                                                                     *)
LEMMA RunKeeps ==
    ASSUME NEW m, Holds(m), NEW r \in Reader, Run(r)
    PROVE  Holds(m)'
<1> PICK L : L = log
    OBVIOUS
<1> PICK N : N = log'
    OBVIOUS
<1> PICK x : x = call[r]
    OBVIOUS
<1> PICK rd : rd = round
    OBVIOUS
<1> PICK c : c = Head(x.todo)
    OBVIOUS
<1>1. /\ LogOk(L) /\ EngineOk(L) /\ StampsOk(L) /\ m \in Nat /\ MarkOk(L, m) /\ RoundOk(L, m, rd)
      /\ CallsOk(L, m, rd, call) /\ CallOk(L, m, rd, x) /\ x.at = "run"
      /\ Len(L) \in Nat /\ TopOf(L) \in Nat
    BY TopIs DEF Run, Holds, LogPart, LogOk, CallsOk
<1>2. IsCall(x) /\ TodoOk(L, rd, x.todo) /\ RunOk(L, m, rd, x)
    BY <1>1 DEF CallOk, IsCall
<1>3. /\ x.todo # <<>> /\ OpenIn(L) = {} /\ rd = NoRound /\ x.claim \in m..TopOf(L)
      /\ \A i \in Done(L) : L[i].by = "client" => i <= x.claim
    BY <1>2 DEF RunOk
<1>4. c = x.todo[1] /\ 1 \in 1..Len(x.todo) /\ c \in Derived /\ x.todo \in Seq(Derived)
  <2>1. x.todo \in Seq(Derived)
        BY <1>2 DEF TodoOk
  <2> QED BY <1>3, <2>1
<1>5. Landing(L, c, TopOf(L)) # 0 /\ \A d \in ToSet(Reads[c]) \cap Derived : TrueAt(L, d)
  <2>1. Landing(L, c, TopOf(L)) # 0
        BY <1>2, <1>4 DEF TodoOk
  <2>2. \A d \in ToSet(Reads[c]) \cap Derived : (\E j \in 1..(1 - 1) : x.todo[j] = d) \/ Settled(L, rd, d)
        BY <1>2, <1>4 DEF TodoOk
  <2>3. \A j : j \notin 1..(1 - 1)
        OBVIOUS
  <2>4. \A d \in ToSet(Reads[c]) \cap Derived : Settled(L, rd, d)
        BY <2>2, <2>3
  <2> QED BY <2>1, <2>4 DEF Settled, TrueAt
<1>6. Kept(L, m) /\ \A i \in 1..Len(L) : L[i].by = "engine" => L[i].reflects <= m
    BY <1>1, <1>3 DEF RoundOk, NoRound
<1>7. Lands(L, N, m, RanCells(L, c, x.claim))
  <2>1. [d \in {c} |-> [value |-> [n \in DOMAIN Reads[c] |-> Value(Reads[c][n], Top)],
                        fresh |-> x.claim, reads |-> Reads[c]]] = RanCells(L, c, x.claim)
    <3>1. [n \in DOMAIN Reads[c] |-> Value(Reads[c][n], Top)]
             = [n \in DOMAIN Reads[c] |-> ValueOf(L, Reads[c][n], TopOf(L))]
          BY OfTheLog
    <3> QED BY <3>1 DEF RanCells
  <2>2. mark[c] = m
        BY <1>4 DEF Holds
  <2>3. log' = Append(log, [by |-> "engine", state |-> "committed", reflects |-> mark[c],
                cells |-> [d \in {c} |-> [value |-> [n \in DOMAIN Reads[c] |-> Value(Reads[c][n], Top)],
                                          fresh |-> x.claim, reads |-> Reads[c]]]])
        BY Zenon DEF Run
  <2>4. N = Append(L, [by |-> "engine", state |-> "committed", reflects |-> m,
                       cells |-> RanCells(L, c, x.claim)])
        BY <2>1, <2>2, <2>3, Zenon
  <2> QED BY <1>3, <2>4, Zenon DEF Lands
<1>8. /\ LogOk(N) /\ EngineOk(N) /\ StampsOk(N) /\ Later(L, N) /\ OpenIn(N) = {}
      /\ Kept(N, m)
      /\ \A i \in 1..Len(N) : N[i].by = "engine" => N[i].reflects <= m
      /\ \A i \in Done(N) : N[i].by = "client" => i <= x.claim
      /\ Landing(N, c, TopOf(N)) # 0 /\ TrueAt(N, c)
      /\ \A d \in Derived : TrueAt(L, d) => TrueAt(N, d)
    BY <1>1, <1>3, <1>4, <1>5, <1>6, <1>7, RanKeeps
<1>9. TopOf(N) \in Nat /\ TopOf(L) <= TopOf(N)
    BY <1>1, <1>8, TopIs, LandingGrows
<1>10. MarkOk(N, m)
    BY <1>1, <1>8, <1>9 DEF MarkOk, Firm
<1>11. RoundOk(N, m, rd)
    BY <1>1, <1>3, <1>8 DEF RoundOk, NoRound
<1>12. ASSUME NEW z, NEW w, CallOk(L, m, rd, z), Alike(z, w) PROVE CallOk(N, m, rd, w)
  <2>2. ASSUME z.at \in {"compute", "run"} PROVE TodoOk(N, rd, z.todo)
    <3>1. TodoOk(L, rd, z.todo)
          BY <1>12, <2>2 DEF CallOk
    <3> QED BY <1>8, <3>1, TodoLater
  <2>3. ASSUME z.at = "run" PROVE RunOk(N, m, rd, z)
    <3>1. RunOk(L, m, rd, z)
          BY <1>12, <2>3 DEF CallOk
    <3>2. z.claim \in m..TopOf(N)
          BY <1>1, <1>9, <3>1 DEF RunOk
    <3>3. \A i \in Done(N) : N[i].by = "client" => i <= z.claim
      <4> SUFFICES ASSUME NEW i \in Done(N), N[i].by = "client" PROVE i <= z.claim
          OBVIOUS
      <4>1. i \in Done(L) /\ L[i].by = "client"
        <5>1. N = Append(L, [by |-> "engine", state |-> "committed", reflects |-> m,
                             cells |-> RanCells(L, c, x.claim)])
              BY <1>7 DEF Lands
        <5>2. PICK e : e = [by |-> "engine", state |-> "committed", reflects |-> m,
                            cells |-> RanCells(L, c, x.claim)]
              OBVIOUS
        <5>3. Adds(L, N, e) /\ e.by = "engine"
              BY <1>1, <5>1, <5>2, AppendAdds, Zenon
        <5>4. i \in 1..Len(N)
              BY <5>3 DEF Done, Adds
        <5>5. i # Len(L) + 1
              BY <5>3 DEF Adds
        <5>6. i \in 1..Len(L) /\ N[i] = L[i]
              BY <5>3, <5>4, <5>5 DEF Adds
        <5> QED BY <5>3, <5>6 DEF Done, Adds
      <4> QED BY <3>1, <4>1 DEF RunOk
    <3> QED BY <1>8, <3>1, <3>2, <3>3 DEF RunOk
  <2> QED BY <1>1, <1>3, <1>8, <1>12, <2>2, <2>3, EngineKeepsCall
<1>13. PICK y : y = [x EXCEPT !.at = "compute", !.todo = Tail(x.todo)]
    OBVIOUS
<1>14. CallOk(N, m, rd, y)
  <2>0. Alike(x, x)
        BY <1>1 DEF CallOk, Alike
  <2>1. CallOk(N, m, rd, x)
        BY <1>1, <1>12, <2>0
  <2>2. y = [at |-> "compute", ask |-> x.ask, ceiling |-> x.ceiling, record |-> x.record,
             todo |-> Tail(x.todo), claim |-> x.claim, holds |-> x.holds, calm |-> x.calm,
             answer |-> x.answer]
        BY <1>2, <1>13 DEF IsCall
  <2>3. IsCall(y) /\ y.at = "compute" /\ y.ask = x.ask /\ y.ceiling = x.ceiling
        /\ y.answer = x.answer /\ y.todo = Tail(x.todo) /\ y.holds = x.holds
        BY <2>2 DEF IsCall
  <2>4. TodoOk(N, rd, x.todo)
        BY <1>1, <2>1 DEF CallOk
  <2>5. Settled(N, rd, x.todo[1])
        BY <1>3, <1>4, <1>8 DEF Settled, TrueAt
  <2>6. TodoOk(N, rd, Tail(x.todo))
        BY <1>3, <2>4, <2>5, TodoTail
  <2> QED BY <1>1, <2>1, <2>3, <2>6 DEF CallOk, IsCall
<1>15. /\ \A q \in Reader : CallOk(L, m, rd, call[q]) /\ Alike(call[q], Disturbed[q])
       /\ Disturbed = [q \in Reader |-> Disturbed[q]]
    BY <1>1, DisturbedIs DEF CallsOk
<1> PICK new : new = call'
    OBVIOUS
<1>16. new = [Disturbed EXCEPT ![r] = y]
    BY <1>13, Zenon DEF Run
<1>17. /\ new = [q \in Reader |-> new[q]]
       /\ \A q \in Reader : new[q] = IF q = r THEN y ELSE Disturbed[q]
    BY <1>15, <1>16
<1>18. CallsOk(N, m, rd, new)
  <2>1. \A q \in Reader : CallOk(N, m, rd, new[q])
        BY <1>12, <1>14, <1>15, <1>17
  <2> QED BY <1>17, <2>1 DEF CallsOk
<1>19. mark' = mark /\ round' = rd /\ log' = N
    BY DEF Run
<1> QED BY <1>1, <1>8, <1>10, <1>11, <1>18, <1>19 DEF Holds, LogPart

---------------------------------------------------------------------------
(* The branches the model starts from                                      *)

\* In which order a settled branch got its source cells.
Written == SetToSeq(Source)

(* Each source cell was written once.                                        *)
LEMMA WrittenIs ==
    /\ Cardinality(Source) \in Nat
    /\ Written \in [1..Cardinality(Source) -> Source]
    /\ \A i, j \in 1..Cardinality(Source) : Written[i] = Written[j] => i = j
    /\ \A s \in Source : \E i \in 1..Cardinality(Source) : Written[i] = s
<1> PICK n : n = Cardinality(Source)
    OBVIOUS
<1>1. n \in Nat /\ ExistsBijection(1..n, Source)
    BY ResolveAssumption, FS_CardinalityType
<1>2. PICK f \in [1..n -> Source] : IsInjective(f)
    BY <1>1 DEF ExistsBijection, Bijection, Injection
<1>3. Written \in [1..n -> Source] /\ IsInjective(Written)
    BY <1>2, Zenon DEF Written, SetToSeq
<1> HIDE DEF Written
<1>4. Written \in Injection(1..n, Source)
    BY <1>3, Zenon DEF Injection
<1>5. IsFiniteSet(1..n) /\ Cardinality(1..n) = n
  <2>1. 1 \in Int /\ n \in Int
        BY <1>1
  <2>2. IsFiniteSet(1..n) /\ Cardinality(1..n) = IF 1 > n THEN 0 ELSE n - 1 + 1
        BY <2>1, FS_Interval
  <2> QED BY <1>1, <2>2
<1>6. Written \in Surjection(1..n, Source)
    BY <1>4, <1>5, ResolveAssumption, FS_Injection
<1>7. \A s \in Source : \E i \in 1..n : Written[i] = s
    BY <1>6 DEF Surjection
<1>8. \A i, j \in 1..n : Written[i] = Written[j] => i = j
    BY <1>3 DEF IsInjective
<1> QED BY <1>1, <1>3, <1>7, <1>8

\* The values of a settled branch.
FirstValues ==
    Composed([c \in Source |-> <<CHOOSE i \in 1..Cardinality(Source) : Written[i] = c>>], Derived)

ClientLayer(i) ==
    [by |-> "client", state |-> "committed", reflects |-> 0,
     cells |-> [c \in {Written[i]} |-> [value |-> FirstValues[c], fresh |-> 0, reads |-> <<>>]]]

EngineLayer(n) ==
    [by |-> "engine", state |-> "committed", reflects |-> n,
     cells |-> [c \in Derived |-> [value |-> FirstValues[c], fresh |-> n, reads |-> Reads[c]]]]

(* Two sequences, one after the other.                                       *)
LEMMA Joined ==
    ASSUME NEW T, NEW s \in Seq(T), NEW t \in Seq(T)
    PROVE  /\ s \o t \in Seq(T) /\ Len(s \o t) = Len(s) + Len(t)
           /\ \A k \in 1..Len(s) : (s \o t)[k] = s[k]
           /\ \A k \in 1..Len(t) : (s \o t)[Len(s) + k] = t[k]
OBVIOUS

(* The settled branch, layer by layer.                                       *)
LEMMA SettledLogIs ==
    ASSUME NEW n, n = Cardinality(Source)
    PROVE  /\ n \in Nat /\ Len(SettledLog) = n + 1
           /\ SettledLog = [i \in 1..Len(SettledLog) |-> SettledLog[i]]
           /\ \A i \in 1..n : SettledLog[i] = ClientLayer(i)
           /\ SettledLog[n + 1] = EngineLayer(n)
<1> DEFINE F == [i \in 1..n |-> ClientLayer(i)]
           E == <<EngineLayer(n)>>
<1>1. SettledLog = F \o E
    BY Zenon DEF SettledLog, ClientLayer, EngineLayer, FirstValues, Written
<1>2. n \in Nat
    BY WrittenIs
<1> DEFINE S == {ClientLayer(i) : i \in 1..n} \cup {EngineLayer(n)}
<1>3. F \in Seq(S) /\ Len(F) = n
    BY <1>2
<1>4. E \in Seq(S) /\ Len(E) = 1 /\ E[1] = EngineLayer(n)
    OBVIOUS
<1>5. \A i \in 1..n : F[i] = ClientLayer(i)
    OBVIOUS
<1> HIDE DEF F, E, S
<1>6. /\ F \o E \in Seq(S) /\ Len(F \o E) = n + 1
      /\ \A i \in 1..n : (F \o E)[i] = F[i]
      /\ (F \o E)[n + 1] = E[1]
  <2>1. /\ F \o E \in Seq(S) /\ Len(F \o E) = Len(F) + Len(E)
        /\ \A k \in 1..Len(F) : (F \o E)[k] = F[k]
        /\ \A k \in 1..Len(E) : (F \o E)[Len(F) + k] = E[k]
    <3>1. F \in Seq(S) /\ E \in Seq(S)
          BY <1>3, <1>4
    <3> QED BY <3>1, Joined
  <2>2. 1 \in 1..Len(E)
        BY <1>4
  <2>3. (F \o E)[Len(F) + 1] = E[1]
        BY <2>1, <2>2
  <2> QED BY <1>3, <1>4, <2>1, <2>3
<1> DEFINE L == F \o E
<1>7. /\ L \in Seq(S) /\ Len(L) = n + 1 /\ \A i \in 1..n : L[i] = ClientLayer(i)
      /\ L[n + 1] = EngineLayer(n)
    BY <1>4, <1>5, <1>6
<1>8. SettledLog = L
    BY <1>1
<1> HIDE DEF L
<1>9. L = [i \in 1..Len(L) |-> L[i]]
    BY <1>7
<1> QED BY <1>2, <1>7, <1>8, <1>9

(* The values of the settled branch: a source cell's names its layer, a     *)
(* derived cell's is made of what its producer reads.                       *)
LEMMA FirstValuesAre ==
    /\ \A i \in 1..Cardinality(Source) : FirstValues[Written[i]] = <<i>>
    /\ \A L, k : (\A s \in Source : ValueOf(L, s, k) = FirstValues[s])
                    => \A c \in Cell : ReplayOf(L, k)[c] = FirstValues[c]
<1> PICK n : n = Cardinality(Source)
    OBVIOUS
<1> DEFINE W == [c \in Source |-> <<CHOOSE i \in 1..n : Written[i] = c>>]
<1>1. FirstValues = Composed(W, Derived)
    BY DEF FirstValues
<1>2. \A c \in Source : W[c] = <<CHOOSE i \in 1..n : Written[i] = c>>
    OBVIOUS
<1> HIDE DEF W
<1>3. \A c \in Source : FirstValues[c] = W[c]
    BY <1>1, ComposedIs, ResolveAssumption DEF Cell
<1>4. ASSUME NEW i \in 1..n PROVE FirstValues[Written[i]] = <<i>>
  <2>1. PICK s : s = Written[i]
        OBVIOUS
  <2>2. s \in Source
        BY <2>1, WrittenIs
  <2>3. PICK j : j = CHOOSE k \in 1..n : Written[k] = s
        OBVIOUS
  <2>4. j \in 1..n /\ Written[j] = s
        BY <2>1, <2>3, Zenon
  <2>5. j = i
        BY <2>1, <2>4, WrittenIs
  <2>6. W[s] = <<j>>
        BY <1>2, <2>2, <2>3
  <2> QED BY <1>3, <2>1, <2>2, <2>5, <2>6
<1>5. ASSUME NEW L, NEW k, \A s \in Source : ValueOf(L, s, k) = FirstValues[s]
      PROVE  \A c \in Cell : ReplayOf(L, k)[c] = FirstValues[c]
  <2> DEFINE V == [s \in Source |-> ValueOf(L, s, k)]
  <2>1. \A s \in Source : V[s] = W[s]
        BY <1>3, <1>5
  <2>2. ReplayOf(L, k) = Composed(V, Derived)
        BY DEF ReplayOf
  <2> HIDE DEF V
  <2>3. \A c \in Cell : Composed(V, Derived)[c] = Composed(W, Derived)[c]
        BY <2>1, SameReplay
  <2> QED BY <1>1, <2>2, <2>3
<1> QED BY <1>4, <1>5

(* The log of a settled branch is sound, and everything in it is made of    *)
(* everything that was written.                                             *)
LEMMA SettledIsSound ==
    ASSUME NEW n, n = Cardinality(Source)
    PROVE  /\ LogOk(SettledLog) /\ EngineOk(SettledLog) /\ StampsOk(SettledLog)
           /\ TopOf(SettledLog) = n + 1 /\ OpenIn(SettledLog) = {}
           /\ \A i \in 1..Len(SettledLog) : SettledLog[i].by = "engine" => SettledLog[i].reflects <= n
           /\ Kept(SettledLog, n)
<1> PICK L : L = SettledLog
    OBVIOUS
<1> PICK v : v = FirstValues
    OBVIOUS
<1>1. /\ n \in Nat /\ Len(L) = n + 1 /\ L = [i \in 1..Len(L) |-> L[i]] /\ DOMAIN L = 1..(n + 1)
      /\ \A i \in 1..n : L[i] = ClientLayer(i)
      /\ L[n + 1] = EngineLayer(n)
    BY SettledLogIs
<1>2. \A i \in 1..n : /\ L[i].by = "client" /\ L[i].state = "committed"
                      /\ L[i] = [by |-> L[i].by, state |-> L[i].state, reflects |-> L[i].reflects,
                                 cells |-> L[i].cells]
                      /\ DOMAIN L[i].cells = {Written[i]} /\ Written[i] \in Source
                      /\ L[i].cells[Written[i]].value = <<i>>
  <2> SUFFICES ASSUME NEW i \in 1..n
               PROVE  /\ L[i].by = "client" /\ L[i].state = "committed"
                      /\ L[i] = [by |-> L[i].by, state |-> L[i].state, reflects |-> L[i].reflects,
                                 cells |-> L[i].cells]
                      /\ DOMAIN L[i].cells = {Written[i]} /\ Written[i] \in Source
                      /\ L[i].cells[Written[i]].value = <<i>>
      OBVIOUS
  <2>1. L[i] = ClientLayer(i)
        BY <1>1
  <2>2. Written[i] \in Source
        BY WrittenIs
  <2>3. FirstValues[Written[i]] = <<i>>
        BY FirstValuesAre
  <2>4. PICK w : w = Written[i]
        OBVIOUS
  <2>5. PICK C : C = [c \in {w} |-> [value |-> FirstValues[c], fresh |-> 0, reads |-> <<>>]]
        OBVIOUS
  <2>6. DOMAIN C = {w} /\ C[w].value = FirstValues[w]
        BY <2>5
  <2>7. L[i] = [by |-> "client", state |-> "committed", reflects |-> 0, cells |-> C]
        BY <2>1, <2>4, <2>5 DEF ClientLayer
  <2>8. /\ L[i].by = "client" /\ L[i].state = "committed" /\ L[i].cells = C
        /\ L[i] = [by |-> L[i].by, state |-> L[i].state, reflects |-> L[i].reflects,
                   cells |-> L[i].cells]
        BY <2>7
  <2> QED BY <2>2, <2>3, <2>4, <2>6, <2>8
<1>3. /\ L[n + 1].by = "engine" /\ L[n + 1].state = "committed" /\ L[n + 1].reflects = n
      /\ L[n + 1] = [by |-> L[n + 1].by, state |-> L[n + 1].state, reflects |-> L[n + 1].reflects,
                     cells |-> L[n + 1].cells]
      /\ DOMAIN L[n + 1].cells = Derived
      /\ \A c \in Derived : /\ L[n + 1].cells[c].value = v[c] /\ L[n + 1].cells[c].fresh = n
                            /\ L[n + 1].cells[c].reads = Reads[c]
    BY <1>1 DEF EngineLayer
<1>4. \A i \in 1..(n + 1) : i \in 1..n \/ i = n + 1
    BY <1>1
<1>5. LogOk(L)
  <2>1. ASSUME NEW i \in 1..n PROVE LayerOk(L, i)
        BY <1>2 DEF LayerOk
  <2>2. LayerOk(L, n + 1)
        BY <1>1, <1>3 DEF LayerOk
  <2>3. \A i \in 1..(n + 1) : LayerOk(L, i)
        BY <1>4, <2>1, <2>2
  <2> QED BY <1>1, <2>3 DEF LogOk
<1>6. OpenIn(L) = {} /\ Done(L) = 1..(n + 1)
  <2>1. \A i \in 1..(n + 1) : L[i].state = "committed"
        BY <1>2, <1>3, <1>4
  <2> QED BY <1>1, <2>1 DEF OpenIn, Done
<1>7. TopOf(L) = n + 1
  <2>1. TopOf(L) \in Nat /\ TopOf(L) <= Len(L) /\ \A i \in Done(L) : i <= TopOf(L)
        BY <1>5, TopIs
  <2>2. n + 1 \in Done(L)
        BY <1>1, <1>6
  <2>3. n + 1 <= TopOf(L)
        BY <2>1, <2>2
  <2> QED BY <1>1, <2>1, <2>3
<1>8. ASSUME NEW d \in Derived PROVE Landing(L, d, n + 1) # 0 /\ RecordOf(L, d, n + 1).fresh = n
  <2>1. n + 1 \in LayersOf(L, d, n + 1) /\ n + 1 \in Nat
        BY <1>1, <1>3, <1>6 DEF LayersOf
  <2>2. PICK i : i = Landing(L, d, n + 1)
        OBVIOUS
  <2>3. i \in Nat /\ i <= n + 1 /\ n + 1 <= i
        BY <1>5, <2>1, <2>2, LandingIs
  <2>4. i = n + 1
        BY <1>1, <2>3
  <2> QED BY <1>1, <1>3, <2>2, <2>4 DEF RecordOf
<1>9. EngineOk(L)
  <2>1. ASSUME NEW i \in 1..Len(L), L[i].by = "engine"
        PROVE  /\ Firm(L, i)
               /\ \A c \in DOMAIN L[i].cells : \A d \in ToSet(Reads[c]) \cap Derived : Landing(L, d, i) # 0
    <3>1. i = n + 1
          BY <1>1, <1>2, <1>4, <2>1
    <3> QED BY <1>6, <1>8, <3>1 DEF Firm
  <2> QED BY <2>1 DEF EngineOk
<1>10. ASSUME NEW s \in Source PROVE ValueOf(L, s, n) = v[s]
  <2>1. PICK i \in 1..n : Written[i] = s
        BY WrittenIs
  <2>2. i \in LayersOf(L, s, n)
    <3>1. i \in 1..(n + 1) /\ i <= n
          BY <1>1
    <3>2. s \in DOMAIN L[i].cells
          BY <1>2, <2>1
    <3> QED BY <1>6, <3>1, <3>2 DEF LayersOf
  <2>3. \A j \in LayersOf(L, s, n) : j = i
    <3>1. \A j \in LayersOf(L, s, n) : j \in 1..n /\ s \in DOMAIN L[j].cells
      <4> SUFFICES ASSUME NEW j \in LayersOf(L, s, n) PROVE j \in 1..n /\ s \in DOMAIN L[j].cells
          OBVIOUS
      <4>1. j \in Done(L) /\ j <= n /\ s \in DOMAIN L[j].cells
            BY DEF LayersOf
      <4>2. j \in 1..n
            BY <1>1, <1>6, <4>1
      <4> QED BY <4>1, <4>2
    <3>2. \A j \in LayersOf(L, s, n) : s = Written[j]
          BY ZenonT(60), <1>2, <3>1
    <3> QED BY <2>1, <3>1, <3>2, WrittenIs
  <2>4. Landing(L, s, n) = i /\ i # 0
        BY <1>1, <1>5, <2>2, <2>3, LandingIs
  <2>5. ValueOf(L, s, n) = <<i>>
        BY <1>1, <1>5, <2>4, SourceValue
  <2>6. v[s] = <<i>>
        BY <2>1, FirstValuesAre
  <2> QED BY <2>5, <2>6
<1>11. \A c \in Cell : ReplayOf(L, n)[c] = v[c]
    BY <1>10, FirstValuesAre
<1>12. StampsOk(L)
  <2>1. ASSUME NEW i \in 1..Len(L), L[i].by = "engine", NEW c \in DOMAIN L[i].cells
        PROVE  L[i].cells[c].value = ReplayOf(L, L[i].cells[c].fresh)[c]
    <3>1. i = n + 1
          BY <1>1, <1>2, <1>4, <2>1
    <3>2. c \in Derived /\ c \in Cell
          BY <1>3, <2>1, <3>1 DEF Cell
    <3> QED BY <1>3, <1>11, <3>1, <3>2
  <2> QED BY <2>1 DEF StampsOk
<1>13. \A i \in 1..Len(L) : L[i].by = "engine" => L[i].reflects <= n
  <2>1. ASSUME NEW i \in 1..Len(L), L[i].by = "engine" PROVE L[i].reflects <= n
    <3>1. i = n + 1
          BY <1>1, <1>2, <1>4, <2>1
    <3> QED BY <1>1, <1>3, <3>1
  <2> QED BY <2>1
<1>14. Kept(L, n)
    BY <1>1, <1>7, <1>8 DEF Kept, KeptOne
<1> QED BY <1>5, <1>6, <1>7, <1>9, <1>12, <1>13, <1>14

(* Nobody reads yet, and nothing is being derived (Init).                    *)
LEMMA NobodyReads ==
    ASSUME NEW L, NEW m, \A i \in 1..Len(L) : L[i].by = "engine" => L[i].reflects <= m, Kept(L, m)
    PROVE  RoundOk(L, m, NoRound) /\ CallsOk(L, m, NoRound, [r \in Reader |-> NoCall])
<1>1. NoRound = [phase |-> NoRound.phase, forkAt |-> NoRound.forkAt, reflects |-> NoRound.reflects]
    BY DEF NoRound
<1>2. RoundOk(L, m, NoRound)
    BY <1>1 DEF RoundOk
<1>3. IsCall(NoCall) /\ NoCall.at = "none" /\ NoCall.answer = None
    BY DEF NoCall, IsCall
<1>4. CallOk(L, m, NoRound, NoCall)
    BY <1>3 DEF CallOk, IsCall
<1> DEFINE calls == [r \in Reader |-> NoCall]
<1>5. calls = [r \in Reader |-> calls[r]] /\ \A r \in Reader : calls[r] = NoCall
    OBVIOUS
<1> HIDE DEF calls
<1>6. CallsOk(L, m, NoRound, calls)
    BY <1>4, <1>5 DEF CallsOk
<1> QED BY <1>2, <1>6 DEF calls

(* An empty branch has nothing that could be wrong (Init).                   *)
LEMMA EmptyIsSound ==
    /\ LogOk(<<>>) /\ EngineOk(<<>>) /\ StampsOk(<<>>) /\ MarkOk(<<>>, 0) /\ Kept(<<>>, 0)
    /\ \A i \in 1..Len(<<>>) : <<>>[i].by = "engine" => <<>>[i].reflects <= 0
<1> PICK L : L = <<>>
    OBVIOUS
<1>1. Len(L) = 0 /\ DOMAIN L = {} /\ \A i : i \notin 1..Len(L)
    OBVIOUS
<1>2. L = [i \in 1..Len(L) |-> L[i]]
    BY <1>1
<1>3. LogOk(L)
    BY <1>1, <1>2 DEF LogOk
<1>4. EngineOk(L) /\ StampsOk(L) /\ \A i \in 1..Len(L) : L[i].by = "engine" => L[i].reflects <= 0
    BY <1>1 DEF EngineOk, StampsOk
<1>5. TopOf(L) \in Nat /\ OpenIn(L) = {}
    BY <1>1, <1>3, TopIs DEF OpenIn
<1>6. \A c : Landing(L, c, TopOf(L)) = 0
    BY <1>1, <1>3, <1>5, LandingIs
<1>7. MarkOk(L, 0)
    BY <1>5 DEF MarkOk, Firm
<1>8. Kept(L, 0)
    BY <1>6 DEF Kept
<1> QED BY <1>3, <1>4, <1>7, <1>8

(* Init.                                                                    *)
LEMMA InitHolds == Init => ResolveInv
<1> SUFFICES ASSUME Init PROVE ResolveInv
    OBVIOUS
<1>1. broken = [now |-> {}, ever |-> FALSE]
    BY DEF Init
<1>2. /\ round = NoRound /\ call = [r \in Reader |-> NoCall] /\ left \in Budgets
      /\ log = IF left.settled THEN SettledLog ELSE <<>>
      /\ mark = [p \in Derived |-> IF left.settled THEN Len(log) - 1 ELSE 0]
    BY DEF Init
<1>3. CASE left.settled
  <2>1. PICK n : n = Cardinality(Source)
        OBVIOUS
  <2>2. PICK L : L = SettledLog
        OBVIOUS
  <2>3. /\ LogOk(L) /\ EngineOk(L) /\ StampsOk(L) /\ TopOf(L) = n + 1 /\ OpenIn(L) = {}
        /\ \A i \in 1..Len(L) : L[i].by = "engine" => L[i].reflects <= n
        /\ Kept(L, n)
        BY <2>1, <2>2, SettledIsSound
  <2>4. n \in Nat /\ Len(L) - 1 = n
        BY <2>1, <2>2, SettledLogIs
  <2>5. MarkOk(L, n)
        BY <2>3, <2>4 DEF MarkOk, Firm
  <2>6. RoundOk(L, n, NoRound) /\ CallsOk(L, n, NoRound, [r \in Reader |-> NoCall])
        BY <2>3, NobodyReads
  <2>7. log = L /\ mark = [p \in Derived |-> n]
        BY <1>2, <1>3, <2>2, <2>4
  <2>8. Holds(n)
        BY <1>2, <2>3, <2>4, <2>5, <2>6, <2>7 DEF Holds, LogPart
  <2> QED BY <1>1, <2>8 DEF ResolveInv
<1>4. CASE ~left.settled
  <2>1. PICK L : L = <<>>
        OBVIOUS
  <2>2. /\ LogOk(L) /\ EngineOk(L) /\ StampsOk(L) /\ MarkOk(L, 0) /\ Kept(L, 0)
        /\ \A i \in 1..Len(L) : L[i].by = "engine" => L[i].reflects <= 0
        BY <2>1, EmptyIsSound
  <2>3. RoundOk(L, 0, NoRound) /\ CallsOk(L, 0, NoRound, [r \in Reader |-> NoCall])
        BY <2>2, NobodyReads
  <2>4. log = L /\ mark = [p \in Derived |-> 0]
        BY <1>2, <1>4, <2>1
  <2>5. Holds(0)
        BY <1>2, <2>2, <2>3, <2>4 DEF Holds, LogPart
  <2> QED BY <1>1, <2>5 DEF ResolveInv
<1> QED BY <1>3, <1>4

(* A step that leaves the log, the watermarks, the rounds and the readers   *)
(* alone.                                                                   *)
LEMMA OthersKeep ==
    ASSUME NEW m, Holds(m), UNCHANGED <<log, mark, round, call>>
    PROVE  Holds(m)'
BY DEF Holds, LogPart

(* Every step that breaks no producer.                                      *)
LEMMA StepKeeps ==
    ASSUME ResolveInv, Overlap = FALSE, [Next]_vars
    PROVE  ResolveInv'
<1>1. broken = [now |-> broken.now, ever |-> broken.ever] /\ broken.ever \in BOOLEAN
    BY DEF ResolveInv
<1>2. CASE \E p \in Derived : Break(p)
  <2>1. PICK p \in Derived : broken' = [now |-> broken.now \cup {p}, ever |-> TRUE]
        BY <1>2 DEF Break
  <2>2. PICK b : b = broken'
        OBVIOUS
  <2>3. b = [now |-> b.now, ever |-> b.ever] /\ b.ever = TRUE
        BY <2>1, <2>2
  <2>4. broken' = [now |-> broken'.now, ever |-> broken'.ever] /\ broken'.ever = TRUE
        BY <2>2, <2>3
  <2> QED BY <2>4 DEF ResolveInv
<1>3. CASE broken.ever /\ \E p \in Derived : Recover(p)
  <2>1. PICK p \in Derived : broken' = [broken EXCEPT !.now = broken.now \ {p}]
        BY <1>3 DEF Recover
  <2>2. broken' = [now |-> broken.now \ {p}, ever |-> broken.ever]
        BY <1>1, <2>1
  <2>3. PICK b : b = broken'
        OBVIOUS
  <2>4. b = [now |-> b.now, ever |-> b.ever] /\ b.ever = TRUE
        BY <1>1, <1>3, <2>2, <2>3
  <2>5. broken' = [now |-> broken'.now, ever |-> broken'.ever] /\ broken'.ever = TRUE
        BY <2>3, <2>4
  <2> QED BY <2>5 DEF ResolveInv
<1>4. CASE broken' = broken /\ broken.ever
    BY <1>1, <1>4 DEF ResolveInv
<1>5. ASSUME ~broken.ever, ~\E p \in Derived : Break(p)
      PROVE  broken' = broken /\ \E m : Holds(m)'
  <2>1. broken.now = {} /\ \E m : Holds(m)
        BY <1>5 DEF ResolveInv
  <2>2. PICK m : Holds(m)
        BY <2>1
  <2>3. CASE \E c \in Source : Write(c)
        BY <2>2, <2>3, WriteKeeps DEF Write
  <2>4. CASE \E i \in DOMAIN log : Commit(i, "committed") \/ Commit(i, "aborted")
    <3>1. PICK i \in DOMAIN log, state \in {"committed", "aborted"} : Commit(i, state)
          BY <2>4
    <3>2. Holds(m)'
          BY <2>2, <3>1, CommitKeeps
    <3> QED BY <3>1, <3>2 DEF Commit
  <2>5. CASE Fork
        BY <2>2, <2>5, ForkKeeps DEF Fork
  <2>6. CASE Land
        BY <2>1, <2>2, <2>6, LandKeeps DEF Land
  <2>7. CASE Advance
        BY <2>2, <2>7, AdvanceKeeps DEF Advance
  <2>8. ASSUME NEW p \in Derived, Recover(p) PROVE FALSE
        BY <2>1, <2>8 DEF Recover
  <2>9. ASSUME NEW r \in Reader, Reading(r)
        PROVE  broken' = broken /\ Holds(m)'
    <3>1. CASE Check(r)
          BY <2>2, <3>1, CheckKeeps DEF Check
    <3>2. CASE Claim(r)
          BY <2>1, <2>2, <3>2, ClaimKeeps DEF Claim
    <3>3. CASE Run(r)
          BY <2>2, <3>3, RunKeeps DEF Run
    <3>4. CASE Look(r)
          BY <2>2, <3>4, LookKeeps DEF Look
    <3>5. CASE Validate(r)
          BY <2>2, <3>5, ValidateKeeps DEF Validate
    <3>6. CASE Judge(r)
          BY <2>1, <2>2, <3>6, JudgeKeeps DEF Judge
    <3> QED BY <2>9, <3>1, <3>2, <3>3, <3>4, <3>5, <3>6 DEF Reading
  <2>10. ASSUME NEW r \in Reader, NEW q \in Requests, NEW pin \in 0..Top, Ask(r, q, pin)
         PROVE  broken' = broken /\ Holds(m)'
        BY <2>2, <2>10, AskKeeps DEF Ask
  <2>11. ASSUME NEW w \in Waiter, Waiting(w) \/ \E target \in DOMAIN log : Await(w, target)
         PROVE  broken' = broken /\ Holds(m)'
    <3>1. UNCHANGED <<log, mark, round, call, broken>>
          BY <2>11 DEF Waiting, Await, Arm, Compare, Sleep, Wake
    <3> QED BY <2>2, <3>1, OthersKeep
  <2>12. CASE UNCHANGED vars
    <3>1. UNCHANGED <<log, mark, round, call, broken>>
          BY <2>12 DEF vars
    <3> QED BY <2>2, <3>1, OthersKeep
  <2> QED BY <1>5, <2>3, <2>4, <2>5, <2>6, <2>7, <2>8, <2>9, <2>10, <2>11, <2>12, Zenon DEF Next
<1>6. CASE ~broken.ever /\ ~\E p \in Derived : Break(p)
    BY <1>1, <1>5, <1>6 DEF ResolveInv
<1>7. ASSUME broken.ever, ~\E p \in Derived : Break(p), ~\E p \in Derived : Recover(p)
      PROVE  broken' = broken
  <2>1. \A c \in Source : Write(c) => broken' = broken
        BY DEF Write
  <2>2. \A i, s : Commit(i, s) => broken' = broken
        BY DEF Commit
  <2>3. Fork \/ Land \/ Advance => broken' = broken
        BY DEF Fork, Land, Advance
  <2>4. \A r : Reading(r) => broken' = broken
        BY DEF Reading, Check, Claim, Run, Look, Validate, Judge
  <2>5. \A r, q, pin : Ask(r, q, pin) => broken' = broken
        BY DEF Ask
  <2>6. \A w : Waiting(w) => broken' = broken
        BY DEF Waiting, Arm, Compare, Sleep, Wake
  <2>7. \A w, t : Await(w, t) => broken' = broken
        BY DEF Await
  <2>8. UNCHANGED vars => broken' = broken
        BY DEF vars
  <2> QED BY <1>7, <2>1, <2>2, <2>3, <2>4, <2>5, <2>6, <2>7, <2>8, Zenon DEF Next
<1> QED BY <1>1, <1>2, <1>3, <1>4, <1>6, <1>7

---------------------------------------------------------------------------
(* The theorems                                                            *)

(* What the steps keep holds always.                                         *)
LEMMA AlwaysResolveInv == Overlap = FALSE => (Spec => []ResolveInv)
<1> SUFFICES ASSUME Overlap = FALSE PROVE Spec => []ResolveInv
    OBVIOUS
<1>1. ResolveInv /\ [Next]_vars => ResolveInv'
    BY StepKeeps
<1> QED BY <1>1, InitHolds, PTL DEF Spec

(* As long as no producer was ever broken, and derived layers land while no  *)
(* client's layer is open, the stamp on every stored value is true: replay   *)
(* the world at it and get the value (resolve.rs run_now, branch.rs          *)
(* merge_round).                                                             *)
THEOREM StampsAreTrue == Overlap = FALSE => (Spec => []StampIsTrue)
<1>1. ResolveInv => StampIsTrue
  <2> SUFFICES ASSUME ResolveInv, ~broken.ever, NEW i \in Committed, log[i].by = "engine",
                      NEW c \in DOMAIN log[i].cells
               PROVE  log[i].cells[c].value = Replay(log[i].cells[c].fresh)[c]
      BY DEF StampIsTrue
  <2>1. PICK m : Holds(m)
        BY DEF ResolveInv
  <2>2. LogOk(log) /\ StampsOk(log)
        BY <2>1 DEF Holds, LogPart
  <2>3. i \in 1..Len(log)
        BY <2>2 DEF Committed, LogOk
  <2>4. log[i].cells[c].value = ReplayOf(log, log[i].cells[c].fresh)[c]
        BY <2>2, <2>3 DEF StampsOk
  <2> QED BY <2>4, OfTheLog
<1> QED BY <1>1, AlwaysResolveInv, PTL

(* What holds of the answers as long as no producer was ever broken.         *)
LEMMA AnswersHold == ResolveInv /\ ~broken.ever => CurrentIsTrue
<1> SUFFICES ASSUME ResolveInv, ~broken.ever, NEW r \in Reader,
                    call[r].answer # None, call[r].answer.state = "current"
             PROVE  call[r].answer.fresh \in call[r].answer.holds
    BY DEF CurrentIsTrue
<1>1. PICK m : Holds(m)
    BY DEF ResolveInv
<1>2. CallOk(log, m, round, call[r])
    BY <1>1 DEF Holds, CallsOk
<1> QED BY <1>2 DEF CallOk

(* As long as no producer was ever broken, a read that says current is       *)
(* right: a replay of the world through the layer it names gives what it     *)
(* answered, whatever was written, committed, derived or computed for other  *)
(* readers while it was being answered (resolve.rs resolve, validate,        *)
(* settled_here, run_now).                                                   *)
THEOREM CurrentUntilBroken ==
    Overlap = FALSE => (Spec => [](~broken.ever => CurrentIsTrue))
<1>1. ResolveInv => (~broken.ever => CurrentIsTrue)
    BY AnswersHold
<1> QED BY <1>1, AlwaysResolveInv, PTL

\* Nothing has broken and nothing will.
Unbroken ==
    /\ left = [writes |-> left.writes, asks |-> left.asks, waits |-> left.waits,
               breaks |-> left.breaks, settled |-> left.settled]
    /\ left.breaks = 0 /\ ~broken.ever /\ broken.now = {}

(* Where no producer fails, nothing is ever broken.                          *)
LEMMA AlwaysUnbroken == (\A b \in Budgets : b.breaks = 0) => (Spec => []Unbroken)
<1>1. ASSUME \A b \in Budgets : b.breaks = 0, Init PROVE Unbroken
  <2>1. left \in Budgets /\ broken = [now |-> {}, ever |-> FALSE]
        BY <1>1 DEF Init
  <2>2. left \in [writes : Nat, asks : Nat, waits : Nat, breaks : Nat, settled : BOOLEAN]
        BY <2>1, ResolveAssumption
  <2> QED BY <1>1, <2>1, <2>2 DEF Unbroken
<1>2. ASSUME Unbroken, [Next]_vars PROVE Unbroken'
  <2> PICK b : b = left
      OBVIOUS
  <2> PICK a : a = left'
      OBVIOUS
  <2>1. /\ b = [writes |-> b.writes, asks |-> b.asks, waits |-> b.waits,
                breaks |-> b.breaks, settled |-> b.settled]
        /\ b.breaks = 0 /\ ~broken.ever /\ broken.now = {}
        BY <1>2 DEF Unbroken
  <2>2. ASSUME a = b \/ a = [b EXCEPT !.writes = b.writes - 1]
                 \/ a = [b EXCEPT !.asks = b.asks - 1] \/ a = [b EXCEPT !.waits = b.waits - 1],
               broken' = broken
        PROVE  Unbroken'
    <3>1. a = [writes |-> a.writes, asks |-> a.asks, waits |-> a.waits,
               breaks |-> a.breaks, settled |-> a.settled] /\ a.breaks = 0
      <4>1. CASE a = b
            BY <2>1, <4>1
      <4>2. CASE a = [b EXCEPT !.writes = b.writes - 1]
            BY <2>1, <4>2
      <4>3. CASE a = [b EXCEPT !.asks = b.asks - 1]
            BY <2>1, <4>3
      <4>4. CASE a = [b EXCEPT !.waits = b.waits - 1]
            BY <2>1, <4>4
      <4> QED BY <2>2, <4>1, <4>2, <4>3, <4>4
    <3> QED BY <2>1, <2>2, <3>1 DEF Unbroken
  <2>3. ASSUME NEW p, Break(p) \/ Recover(p) PROVE FALSE
    <3>1. ~(left.breaks > 0)
          BY <2>1
    <3> QED BY <2>1, <2>3, <3>1 DEF Break, Recover
  <2>4. ASSUME NEW c, Write(c) PROVE Unbroken'
        BY <2>2, <2>4 DEF Write
  <2>5. ASSUME NEW i, NEW s, Commit(i, s) PROVE Unbroken'
        BY <2>2, <2>5 DEF Commit
  <2>6. ASSUME Fork \/ Land \/ Advance PROVE Unbroken'
        BY <2>2, <2>6 DEF Fork, Land, Advance
  <2>7. ASSUME NEW r, Reading(r) PROVE Unbroken'
        BY <2>2, <2>7 DEF Reading, Check, Claim, Run, Look, Validate, Judge
  <2>8. ASSUME NEW r, NEW q, NEW pin, Ask(r, q, pin) PROVE Unbroken'
        BY <2>2, <2>8 DEF Ask
  <2>9. ASSUME NEW w, Waiting(w) PROVE Unbroken'
        BY <2>2, <2>9 DEF Waiting, Arm, Compare, Sleep, Wake
  <2>10. ASSUME NEW w, NEW t, Await(w, t) PROVE Unbroken'
        BY <2>2, <2>10 DEF Await
  <2>11. ASSUME UNCHANGED vars PROVE Unbroken'
        BY <2>2, <2>11 DEF vars
  <2> QED BY <1>2, <2>3, <2>4, <2>5, <2>6, <2>7, <2>8, <2>9, <2>10, <2>11, Zenon DEF Next
<1> SUFFICES ASSUME \A b \in Budgets : b.breaks = 0 PROVE Spec => []Unbroken
    OBVIOUS
<1>3. Init => Unbroken
    BY <1>1
<1>4. Unbroken /\ [Next]_vars => Unbroken'
    BY <1>2
<1> QED BY <1>3, <1>4, PTL DEF Spec

(* Where no producer fails, every read that says current is right.           *)
THEOREM CurrentIsRight ==
    Overlap = FALSE /\ (\A b \in Budgets : b.breaks = 0) => (Spec => []CurrentIsTrue)
<1>1. Unbroken => ~broken.ever
    BY DEF Unbroken
<1> SUFFICES ASSUME Overlap = FALSE, \A b \in Budgets : b.breaks = 0
             PROVE  Spec => []CurrentIsTrue
    OBVIOUS
<1>2. Spec => []Unbroken
    BY AlwaysUnbroken
<1>3. Spec => [](~broken.ever => CurrentIsTrue)
    BY CurrentUntilBroken
<1> QED BY <1>1, <1>2, <1>3, PTL

---------------------------------------------------------------------------
(* The types, and what a request for the current value gets                *)

\* What is left was in a budget.
LeftOk ==
    \E b \in Budgets :
        /\ left = [writes |-> left.writes, asks |-> left.asks, waits |-> left.waits,
                   breaks |-> left.breaks, settled |-> left.settled]
        /\ left.writes \in 0..b.writes /\ left.asks \in 0..b.asks
        /\ left.waits \in 0..b.waits /\ left.breaks \in 0..b.breaks

\* What is known to be broken has a name, and nothing is as long as nothing broke.
BrokenOk ==
    /\ broken = [now |-> broken.now, ever |-> broken.ever]
    /\ broken.now \subseteq Derived /\ broken.ever \in BOOLEAN
    /\ ~broken.ever => broken.now = {}

WaitStates == {"none", "arm", "check", "unmet", "asleep", "done"}

WaitOk(x) == x = [at |-> x.at, target |-> x.target, woken |-> x.woken] /\ x.at \in WaitStates

WaitsOk == wait = [w \in Waiter |-> wait[w]] /\ \A w \in Waiter : WaitOk(wait[w])

(* Nothing is spent that was not there (the budgets of the model).           *)
LEMMA LeftKeeps ==
    ASSUME LeftOk, [Next]_vars
    PROVE  LeftOk'
<1> PICK l : l = left
    OBVIOUS
<1> PICK a : a = left'
    OBVIOUS
<1>1. PICK b \in Budgets :
        /\ l = [writes |-> l.writes, asks |-> l.asks, waits |-> l.waits,
                breaks |-> l.breaks, settled |-> l.settled]
        /\ l.writes \in 0..b.writes /\ l.asks \in 0..b.asks
        /\ l.waits \in 0..b.waits /\ l.breaks \in 0..b.breaks
    BY DEF LeftOk
<1>2. b.writes \in Nat /\ b.asks \in Nat /\ b.waits \in Nat /\ b.breaks \in Nat
  <2>1. b \in [writes : Nat, asks : Nat, waits : Nat, breaks : Nat, settled : BOOLEAN]
        BY ResolveAssumption
  <2> QED BY <2>1
<1>3. ASSUME \/ a = l
             \/ l.writes > 0 /\ a = [l EXCEPT !.writes = l.writes - 1]
             \/ l.asks > 0 /\ a = [l EXCEPT !.asks = l.asks - 1]
             \/ l.waits > 0 /\ a = [l EXCEPT !.waits = l.waits - 1]
             \/ l.breaks > 0 /\ a = [l EXCEPT !.breaks = l.breaks - 1]
      PROVE  LeftOk'
  <2>1. /\ a = [writes |-> a.writes, asks |-> a.asks, waits |-> a.waits,
                breaks |-> a.breaks, settled |-> a.settled]
        /\ a.writes \in 0..b.writes /\ a.asks \in 0..b.asks
        /\ a.waits \in 0..b.waits /\ a.breaks \in 0..b.breaks
    <3>1. CASE a = l
          BY <1>1, <3>1
    <3>2. CASE l.writes > 0 /\ a = [l EXCEPT !.writes = l.writes - 1]
      <4>1. a = [writes |-> l.writes - 1, asks |-> l.asks, waits |-> l.waits,
                 breaks |-> l.breaks, settled |-> l.settled]
            BY <1>1, <3>2
      <4> QED BY <1>1, <1>2, <3>2, <4>1
    <3>3. CASE l.asks > 0 /\ a = [l EXCEPT !.asks = l.asks - 1]
      <4>1. a = [writes |-> l.writes, asks |-> l.asks - 1, waits |-> l.waits,
                 breaks |-> l.breaks, settled |-> l.settled]
            BY <1>1, <3>3
      <4> QED BY <1>1, <1>2, <3>3, <4>1
    <3>4. CASE l.waits > 0 /\ a = [l EXCEPT !.waits = l.waits - 1]
      <4>1. a = [writes |-> l.writes, asks |-> l.asks, waits |-> l.waits - 1,
                 breaks |-> l.breaks, settled |-> l.settled]
            BY <1>1, <3>4
      <4> QED BY <1>1, <1>2, <3>4, <4>1
    <3>5. CASE l.breaks > 0 /\ a = [l EXCEPT !.breaks = l.breaks - 1]
      <4>1. a = [writes |-> l.writes, asks |-> l.asks, waits |-> l.waits,
                 breaks |-> l.breaks - 1, settled |-> l.settled]
            BY <1>1, <3>5
      <4> QED BY <1>1, <1>2, <3>5, <4>1
    <3> QED BY <1>3, <3>1, <3>2, <3>3, <3>4, <3>5
  <2> QED BY <2>1 DEF LeftOk
<1>4. ASSUME NEW c, Write(c) PROVE LeftOk'
    BY <1>3, <1>4 DEF Write
<1>5. ASSUME NEW i, NEW s, Commit(i, s) PROVE LeftOk'
    BY <1>3, <1>5 DEF Commit
<1>6. ASSUME Fork \/ Land \/ Advance PROVE LeftOk'
    BY <1>3, <1>6 DEF Fork, Land, Advance
<1>7. ASSUME NEW p, Break(p) \/ Recover(p) PROVE LeftOk'
    BY <1>3, <1>7 DEF Break, Recover
<1>8. ASSUME NEW r, Reading(r) PROVE LeftOk'
    BY <1>3, <1>8 DEF Reading, Check, Claim, Run, Look, Validate, Judge
<1>9. ASSUME NEW r, NEW q, NEW pin, Ask(r, q, pin) PROVE LeftOk'
    BY <1>3, <1>9 DEF Ask
<1>10. ASSUME NEW w, Waiting(w) PROVE LeftOk'
    BY <1>3, <1>10 DEF Waiting, Arm, Compare, Sleep, Wake
<1>11. ASSUME NEW w, NEW t, Await(w, t) PROVE LeftOk'
    BY <1>3, <1>11 DEF Await
<1>12. ASSUME UNCHANGED vars PROVE LeftOk'
    BY <1>3, <1>12 DEF vars
<1> QED BY <1>4, <1>5, <1>6, <1>7, <1>8, <1>9, <1>10, <1>11, <1>12, Zenon DEF Next

(* Poisonings come and go, and that there ever was one stays known           *)
(* (record_poisoning, recover).                                              *)
LEMMA BrokenKeeps ==
    ASSUME BrokenOk, [Next]_vars
    PROVE  BrokenOk'
<1> PICK b : b = broken
    OBVIOUS
<1> PICK a : a = broken'
    OBVIOUS
<1>1. /\ b = [now |-> b.now, ever |-> b.ever]
      /\ b.now \subseteq Derived /\ b.ever \in BOOLEAN /\ (~b.ever => b.now = {})
    BY DEF BrokenOk
<1>2. ASSUME \/ a = b
             \/ \E p \in Derived : a = [now |-> b.now \cup {p}, ever |-> TRUE]
             \/ \E p \in Derived : a = [b EXCEPT !.now = b.now \ {p}]
      PROVE  BrokenOk'
  <2>1. /\ a = [now |-> a.now, ever |-> a.ever]
        /\ a.now \subseteq Derived /\ a.ever \in BOOLEAN /\ (~a.ever => a.now = {})
    <3>1. CASE a = b
          BY <1>1, <3>1
    <3>2. ASSUME NEW p \in Derived, a = [now |-> b.now \cup {p}, ever |-> TRUE]
          PROVE  /\ a = [now |-> a.now, ever |-> a.ever]
                 /\ a.now \subseteq Derived /\ a.ever \in BOOLEAN /\ (~a.ever => a.now = {})
          BY <1>1, <3>2
    <3>3. ASSUME NEW p \in Derived, a = [b EXCEPT !.now = b.now \ {p}]
          PROVE  /\ a = [now |-> a.now, ever |-> a.ever]
                 /\ a.now \subseteq Derived /\ a.ever \in BOOLEAN /\ (~a.ever => a.now = {})
      <4>1. a = [now |-> b.now \ {p}, ever |-> b.ever]
            BY <1>1, <3>3
      <4> QED BY <1>1, <4>1
    <3> QED BY <1>2, <3>1, <3>2, <3>3
  <2> QED BY <2>1 DEF BrokenOk
<1>3. ASSUME NEW c, Write(c) PROVE BrokenOk'
    BY <1>2, <1>3 DEF Write
<1>4. ASSUME NEW i, NEW s, Commit(i, s) PROVE BrokenOk'
    BY <1>2, <1>4 DEF Commit
<1>5. ASSUME Fork \/ Land \/ Advance PROVE BrokenOk'
    BY <1>2, <1>5 DEF Fork, Land, Advance
<1>6. ASSUME NEW p \in Derived, Break(p) \/ Recover(p) PROVE BrokenOk'
    BY <1>2, <1>6 DEF Break, Recover
<1>7. ASSUME NEW r, Reading(r) PROVE BrokenOk'
    BY <1>2, <1>7 DEF Reading, Check, Claim, Run, Look, Validate, Judge
<1>8. ASSUME NEW r, NEW q, NEW pin, Ask(r, q, pin) PROVE BrokenOk'
    BY <1>2, <1>8 DEF Ask
<1>9. ASSUME NEW w, Waiting(w) PROVE BrokenOk'
    BY <1>2, <1>9 DEF Waiting, Arm, Compare, Sleep, Wake
<1>10. ASSUME NEW w, NEW t, Await(w, t) PROVE BrokenOk'
    BY <1>2, <1>10 DEF Await
<1>11. ASSUME UNCHANGED vars PROVE BrokenOk'
    BY <1>2, <1>11 DEF vars
<1> QED BY <1>3, <1>4, <1>5, <1>6, <1>7, <1>8, <1>9, <1>10, <1>11, Zenon DEF Next

(* A waiter is in one of the places of the loop of reaches.                  *)
LEMMA WaitKeeps ==
    ASSUME WaitsOk, [Next]_vars
    PROVE  WaitsOk'
<1> PICK x : x = wait
    OBVIOUS
<1> PICK y : y = wait'
    OBVIOUS
<1>1. x = [w \in Waiter |-> x[w]] /\ \A w \in Waiter : WaitOk(x[w])
    BY DEF WaitsOk
<1>2. ASSUME y = [w \in Waiter |-> y[w]], \A w \in Waiter : WaitOk(y[w]) PROVE WaitsOk'
    BY <1>2 DEF WaitsOk
<1>3. ASSUME y = x PROVE WaitsOk'
    BY <1>1, <1>2, <1>3
<1>4. ASSUME NEW w \in Waiter, NEW z, WaitOk(z), y = [x EXCEPT ![w] = z] PROVE WaitsOk'
  <2>1. y = [v \in Waiter |-> IF v = w THEN z ELSE x[v]]
        BY <1>1, <1>4
  <2>2. \A v \in Waiter : y[v] = IF v = w THEN z ELSE x[v]
        BY <2>1
  <2>3. y = [v \in Waiter |-> y[v]]
        BY <2>1
  <2>4. \A v \in Waiter : WaitOk(y[v])
        BY <1>1, <1>4, <2>2
  <2> QED BY <1>2, <2>3, <2>4
<1>5. ASSUME NEW w \in Waiter, NEW at \in WaitStates, NEW woken,
             y = [x EXCEPT ![w].at = at] \/ y = [x EXCEPT ![w].at = at, ![w].woken = woken]
      PROVE  WaitsOk'
  <2>1. PICK v : v = x[w]
        OBVIOUS
  <2>2. WaitOk(v)
        BY <1>1, <2>1
  <2>3. CASE y = [x EXCEPT ![w].at = at]
    <3>1. PICK z : z = [v EXCEPT !.at = at]
          OBVIOUS
    <3>2. z = [at |-> at, target |-> v.target, woken |-> v.woken]
          BY <2>2, <3>1 DEF WaitOk
    <3>3. WaitOk(z)
          BY <3>2 DEF WaitOk
    <3>4. y = [x EXCEPT ![w] = z]
          BY <2>1, <2>3, <3>1
    <3> QED BY <1>4, <3>3, <3>4
  <2>4. CASE y = [x EXCEPT ![w].at = at, ![w].woken = woken]
    <3>1. PICK z : z = [at |-> at, target |-> v.target, woken |-> woken]
          OBVIOUS
    <3>2. WaitOk(z)
          BY <3>1 DEF WaitOk
    <3>3. z = [v EXCEPT !.at = at, !.woken = woken]
      <4>1. PICK u : u = [v EXCEPT !.at = at, !.woken = woken]
            OBVIOUS
      <4>2. v = [at |-> v.at, target |-> v.target, woken |-> v.woken]
            BY <2>2 DEF WaitOk
      <4>3. u = [at |-> at, target |-> v.target, woken |-> woken]
            BY <4>1, <4>2
      <4> QED BY <3>1, <4>1, <4>3
    <3>4. y = [x EXCEPT ![w] = z]
      <4>1. y = [u \in Waiter |-> IF u = w THEN [x[w] EXCEPT !.at = at, !.woken = woken] ELSE x[u]]
            BY <1>1, <2>4
      <4>2. y = [u \in Waiter |-> IF u = w THEN z ELSE x[u]]
            BY <2>1, <3>3, <4>1
      <4>3. [x EXCEPT ![w] = z] = [u \in Waiter |-> IF u = w THEN z ELSE x[u]]
            BY <1>1
      <4> QED BY <4>2, <4>3
    <3> QED BY <1>4, <3>2, <3>4
  <2> QED BY <1>5, <2>3, <2>4
<1>6. ASSUME Advance PROVE WaitsOk'
  <2>1. CASE y = x
        BY <1>3, <2>1
  <2>2. CASE y = [w \in Waiter |-> Woken(x[w])]
    <3>1. ASSUME NEW w \in Waiter PROVE WaitOk(y[w])
      <4>1. PICK v : v = x[w]
            OBVIOUS
      <4>2. WaitOk(v)
            BY <1>1, <4>1
      <4>3. y[w] = Woken(v)
            BY <2>2, <4>1
      <4>4. WaitOk(Woken(v))
        <5>1. PICK u : u = [v EXCEPT !.woken = TRUE]
              OBVIOUS
        <5>2. u = [at |-> v.at, target |-> v.target, woken |-> TRUE]
              BY <4>2, <5>1 DEF WaitOk
        <5>3. WaitOk(u)
              BY <4>2, <5>2 DEF WaitOk
        <5>4. Woken(v) = u \/ Woken(v) = v
              BY <5>1, Zenon DEF Woken
        <5> QED BY <4>2, <5>3, <5>4
      <4> QED BY <4>3, <4>4
    <3>2. y = [w \in Waiter |-> y[w]]
          BY <2>2
    <3> QED BY <1>2, <3>1, <3>2
  <2> QED BY <1>6, <2>1, <2>2 DEF Advance
<1>7. ASSUME NEW w \in Waiter, Waiting(w) PROVE WaitsOk'
  <2>1. CASE Arm(w)
        BY <1>5, <2>1 DEF Arm, WaitStates
  <2>2. CASE Compare(w)
    <3>1. y = [x EXCEPT ![w].at = IF SpanFrom >= x[w].target THEN "done" ELSE "unmet"]
          BY <2>2 DEF Compare
    <3>2. PICK at : at = IF SpanFrom >= x[w].target THEN "done" ELSE "unmet"
          OBVIOUS
    <3>3. at \in WaitStates
          BY <3>2 DEF WaitStates
    <3> QED BY <1>5, <3>1, <3>2, <3>3
  <2>3. CASE Sleep(w)
        BY <1>5, <2>3 DEF Sleep, WaitStates
  <2>4. CASE Wake(w)
        BY <1>5, <2>4 DEF Wake, WaitStates
  <2> QED BY <1>7, <2>1, <2>2, <2>3, <2>4 DEF Waiting
<1>8. ASSUME NEW w \in Waiter, NEW t, Await(w, t) PROVE WaitsOk'
  <2>1. PICK z : z = [at |-> "arm", target |-> t, woken |-> FALSE]
        OBVIOUS
  <2>2. WaitOk(z)
        BY <2>1 DEF WaitOk, WaitStates
  <2>3. y = [x EXCEPT ![w] = z]
        BY <1>8, <2>1 DEF Await
  <2> QED BY <1>4, <2>2, <2>3
<1>9. ASSUME NEW c, Write(c) PROVE WaitsOk'
    BY <1>3, <1>9 DEF Write
<1>10. ASSUME NEW i, NEW s, Commit(i, s) PROVE WaitsOk'
    BY <1>3, <1>10 DEF Commit
<1>11. ASSUME Fork \/ Land PROVE WaitsOk'
    BY <1>3, <1>11 DEF Fork, Land
<1>12. ASSUME NEW p, Break(p) \/ Recover(p) PROVE WaitsOk'
    BY <1>3, <1>12 DEF Break, Recover
<1>13. ASSUME NEW r, Reading(r) PROVE WaitsOk'
    BY <1>3, <1>13 DEF Reading, Check, Claim, Run, Look, Validate, Judge
<1>14. ASSUME NEW r, NEW q, NEW pin, Ask(r, q, pin) PROVE WaitsOk'
    BY <1>3, <1>14 DEF Ask
<1>15. ASSUME UNCHANGED vars PROVE WaitsOk'
    BY <1>3, <1>15 DEF vars
<1> QED BY <1>6, <1>7, <1>8, <1>9, <1>10, <1>11, <1>12, <1>13, <1>14, <1>15, Zenon DEF Next

\* The log, with labels that name no layer above their own.
LogTyped(L) == LogOk(L) /\ \A i \in 1..Len(L) : L[i].reflects \in 0..i

\* A watermark names a layer that has happened, and so does what a round reflects.
MarkTyped(L, w) == w \in [Derived -> Nat] /\ \A p \in Derived : w[p] <= TopOf(L)

RoundTyped(L, rd) ==
    /\ rd = [phase |-> rd.phase, forkAt |-> rd.forkAt, reflects |-> rd.reflects]
    /\ rd.phase \in {"idle", "forked", "landed"}
    /\ rd.reflects \in Nat /\ rd.reflects <= TopOf(L)

CallStates == {"none", "ask", "check", "compute", "run", "look", "validate", "judge"}

\* A reader's call has its fields, and what it has to run are cells it claims a layer for.
CallTyped(L, x) ==
    /\ IsCall(x) /\ x.at \in CallStates
    /\ x.at # "none" => x.ask \in Requests
    /\ x.at \in {"compute", "run"} => x.todo \in Seq(Derived)
    /\ x.at = "run" => x.todo # <<>> /\ x.claim \in 0..TopOf(L)

\* Nothing that cells were made of has moved since, as far as a layer: they are of one
\* make, from what clients wrote to the last of them.
Unmoved(L, V, k) ==
    /\ V \subseteq Derived
    /\ \A d \in V :
          /\ Landing(L, d, k) # 0
          /\ \A e \in ToSet(Reads[d]) : Landing(L, e, k) # 0 =>
                IF e \in Source THEN Landing(L, e, k) <= RecordOf(L, d, k).fresh
                ELSE e \in V /\ RecordOf(L, e, k).fresh <= RecordOf(L, d, k).fresh

\* What is left to run for a cell, when some are up to date already: each once, and
\* each behind what it reads.
Planned(L, V, s, c) ==
    /\ s \in Seq(Derived) /\ Distinct(s)
    /\ \A k \in 1..Len(s) :
          /\ Landing(L, s[k], TopOf(L)) # 0 /\ s[k] \notin V
          /\ \A e \in ToSet(Reads[s[k]]) \cap Derived : Landing(L, e, TopOf(L)) # 0 =>
                e \in V \/ \E j \in 1..(k - 1) : s[j] = e
    /\ Landing(L, c, TopOf(L)) = 0 \/ c \in V \/ c \in ToSet(s)

UpToDate(L, c) == \E V : Unmoved(L, V, TopOf(L)) /\ c \in V

Wants(x) == x.ask.want = "current" /\ ~x.ask.pinned

\* A reader that asked for the current value and was left alone: what it runs brings the
\* cell up to date, and that is what it looks up.
PaysOk(L, x) ==
    /\ x.at \notin {"judge", "none"} => x.answer = None
    /\ x.answer # None /\ x.answer.calm /\ Wants(x) => x.answer.state = "current"
    /\ x.calm /\ Wants(x) =>
          /\ x.at \in {"compute", "run"} =>
                \E V : Unmoved(L, V, TopOf(L)) /\ Planned(L, V, x.todo, x.ask.cell)
          /\ x.at = "run" => x.claim = TopOf(L)
          /\ x.at = "look" => Landing(L, x.ask.cell, TopOf(L)) = 0 \/ UpToDate(L, x.ask.cell)
          /\ x.at = "validate" =>
                /\ x.ceiling = TopOf(L) /\ UpToDate(L, x.ask.cell)
                /\ x.record = RecordOf(L, x.ask.cell, TopOf(L))

ReadOk(L, ever, x) == CallTyped(L, x) /\ (~ever => PaysOk(L, x))

ReadersOk(L, ever, x) == x = [r \in Reader |-> x[r]] /\ \A r \in Reader : ReadOk(L, ever, x[r])

\* The inductive invariant, whatever lands while clients write and whatever breaks.
ReadsOk ==
    /\ LogTyped(log) /\ MarkTyped(log, mark) /\ RoundTyped(log, round)
    /\ LeftOk /\ BrokenOk /\ WaitsOk
    /\ ReadersOk(log, broken.ever, call)

(* A cell of which nothing has moved is validated as far as the layer       *)
(* (validate).                                                              *)
LEMMA UnmovedValidates ==
    ASSUME LogOk(log), NEW k \in Nat, NEW V, Unmoved(log, V, k), NEW c \in V
    PROVE  Landing(log, c, k) # 0 /\ Validated(RecordOf(log, c, k), k) >= k
<1>1. V \subseteq Derived /\ \A d \in V : Landing(log, d, k) # 0
    BY DEF Unmoved
<1>2. \A d \in Derived : Landing(log, d, k) # 0 =>
         Found(d, k) = RecordOf(log, d, k) /\ Found(d, k).fresh \in Nat /\ Found(d, k).reads = Reads[d]
    BY RecordIs, OfTheLog
<1>3. ReadsKept(k) /\ \A d \in Derived : ~Absent(d, k) => Found(d, k).fresh \in Nat
    BY <1>2, OfTheLog DEF ReadsKept
<1>4. PICK f \in [Cell -> Nat] :
        /\ \A d \in Derived : ~Absent(d, k) => Validated(Found(d, k), k) = f[d]
        /\ \A d \in Cell : d \in Source \/ Absent(d, k) => f[d] = k
        /\ \A d \in Derived : /\ ~Absent(d, k) /\ ~Moved(Found(d, k), k)
                              /\ \A e \in There(Found(d, k), k) : f[e] >= k
              => f[d] >= k
    BY <1>3, ValidatedIs
<1> DEFINE S == {d \in Cell : d \in V => f[d] >= k}
<1>5. ASSUME NEW d \in Cell, d \in Derived => ToSet(Reads[d]) \subseteq S PROVE d \in S
  <2> SUFFICES ASSUME d \in V PROVE f[d] >= k
      OBVIOUS
  <2>1. d \in Derived /\ ~Absent(d, k) /\ Found(d, k).reads = Reads[d] /\ Found(d, k) = RecordOf(log, d, k)
        BY <1>1, <1>2, OfTheLog
  <2>2. ASSUME NEW e \in There(Found(d, k), k)
        PROVE  f[e] >= k /\ ~(Reflects(e, k) > Found(d, k).fresh)
    <3>1. e \in ToSet(Reads[d]) /\ Landing(log, e, k) # 0 /\ e \in Cell
          BY <2>1, <2>2, RankIs, OfTheLog DEF There
    <3>2. e \in S
          BY <1>5, <2>1, <3>1
    <3>3. CASE e \in Source
      <4>1. f[e] = k
            BY <1>4, <3>1, <3>3
      <4>2. Reflects(e, k) = Landing(log, e, k)
            BY <3>3, OfTheLog DEF Reflects
      <4>3. Landing(log, e, k) <= Found(d, k).fresh
            BY <2>1, <3>1, <3>3 DEF Unmoved
      <4>4. Landing(log, e, k) \in Nat /\ Found(d, k).fresh \in Nat
            BY <1>2, <2>1, OfTheLog, LandingIs
      <4> QED BY <4>1, <4>2, <4>3, <4>4
    <3>4. CASE e \notin Source
      <4>1. e \in V /\ RecordOf(log, e, k).fresh <= Found(d, k).fresh
            BY <2>1, <3>1, <3>4 DEF Unmoved
      <4>2. f[e] >= k
            BY <3>2, <4>1
      <4>3. Reflects(e, k) = RecordOf(log, e, k).fresh
            BY <3>4, OfTheLog DEF Reflects
      <4>4. RecordOf(log, e, k).fresh \in Nat /\ Found(d, k).fresh \in Nat
            BY <1>1, <1>2, <2>1, <4>1, OfTheLog
      <4> QED BY <4>1, <4>2, <4>3, <4>4
    <3> QED BY <3>3, <3>4
  <2>3. ~Moved(Found(d, k), k)
        BY <2>2 DEF Moved
  <2> QED BY <1>4, <2>1, <2>2, <2>3
<1>6. Cell \subseteq S
    BY <1>5, EveryCell
<1>7. f[c] >= k /\ c \in Derived
    BY <1>1, <1>6 DEF Cell
<1> QED BY <1>1, <1>2, <1>4, <1>7, OfTheLog

(* What a read finds settled has not moved, nor has what it was made of     *)
(* (settled_here).                                                          *)
LEMMA SettledUnmoves ==
    ASSUME LogOk(log), NEW k \in Nat, NEW c \in Derived, Landing(log, c, k) # 0,
           Validated(RecordOf(log, c, k), k) >= k
    PROVE  \E V : Unmoved(log, V, k) /\ c \in V
<1>2. \A d \in Derived : Landing(log, d, k) # 0 =>
         /\ Found(d, k) = RecordOf(log, d, k) /\ Found(d, k).fresh \in Nat
         /\ Found(d, k).fresh < k /\ Found(d, k).reads = Reads[d]
  <2> SUFFICES ASSUME NEW d \in Derived, Landing(log, d, k) # 0
               PROVE /\ Found(d, k) = RecordOf(log, d, k) /\ Found(d, k).fresh \in Nat
                     /\ Found(d, k).fresh < k /\ Found(d, k).reads = Reads[d]
      OBVIOUS
  <2>1. /\ Found(d, k) = RecordOf(log, d, k) /\ Found(d, k).fresh \in Nat
        /\ Found(d, k).fresh < Landing(log, d, k) /\ Found(d, k).reads = Reads[d]
        /\ Landing(log, d, k) <= k /\ Landing(log, d, k) \in Nat
        BY RecordIs, OfTheLog, LandingIs
  <2> QED BY <2>1
<1>3. ReadsKept(k) /\ \A d \in Derived : ~Absent(d, k) => Found(d, k).fresh \in Nat
    BY <1>2, OfTheLog DEF ReadsKept
<1>4. PICK f \in [Cell -> Nat] :
        /\ \A d \in Derived : ~Absent(d, k) /\ f[d] >= k =>
              \/ Found(d, k).fresh >= k
              \/ /\ ~Moved(Found(d, k), k)
                 /\ \A e \in There(Found(d, k), k) : f[e] >= k
        /\ \A d \in Derived : ~Absent(d, k) => Validated(Found(d, k), k) = f[d]
    BY <1>3, ValidatedIs
<1> PICK V : V = {d \in Derived : Landing(log, d, k) # 0 /\ f[d] >= k}
    OBVIOUS
<1>5. c \in V
    BY <1>2, <1>4, OfTheLog
<1>6. ASSUME NEW d \in V, NEW e \in ToSet(Reads[d]), Landing(log, e, k) # 0
      PROVE  IF e \in Source THEN Landing(log, e, k) <= RecordOf(log, d, k).fresh
             ELSE e \in V /\ RecordOf(log, e, k).fresh <= RecordOf(log, d, k).fresh
  <2>1. d \in Derived /\ ~Absent(d, k) /\ Found(d, k).reads = Reads[d] /\ Found(d, k) = RecordOf(log, d, k)
        /\ Found(d, k).fresh \in Nat /\ Found(d, k).fresh < k /\ f[d] >= k
        BY <1>2, OfTheLog
  <2>2. ~Moved(Found(d, k), k) /\ \A x \in There(Found(d, k), k) : f[x] >= k
    <3>1. ~(Found(d, k).fresh >= k)
          BY <2>1
    <3> QED BY <1>4, <2>1, <3>1
  <2>3. e \in There(Found(d, k), k) /\ e \in Cell
        BY <1>6, <2>1, OfTheLog, RankIs DEF There
  <2>4. f[e] >= k /\ ~(Reflects(e, k) > Found(d, k).fresh)
        BY <2>2, <2>3 DEF Moved
  <2>5. CASE e \in Source
    <3>1. Reflects(e, k) = Landing(log, e, k) /\ Landing(log, e, k) \in Nat
          BY <2>5, OfTheLog, LandingIs DEF Reflects
    <3> QED BY <2>1, <2>4, <2>5, <3>1
  <2>6. CASE e \notin Source
    <3>1. e \in Derived
          BY <2>3, <2>6 DEF Cell
    <3>2. Reflects(e, k) = RecordOf(log, e, k).fresh /\ RecordOf(log, e, k).fresh \in Nat
          BY <1>2, <1>6, <2>6, <3>1, OfTheLog DEF Reflects
    <3> QED BY <1>6, <2>1, <2>4, <2>6, <3>1, <3>2
  <2> QED BY <2>5, <2>6
<1>7. Unmoved(log, V, k)
    BY <1>6 DEF Unmoved
<1> QED BY <1>5, <1>7

\* Every read at every layer is what it was.
Quiet(L, N) ==
    /\ TopOf(N) = TopOf(L)
    /\ \A c, k : /\ Landing(N, c, k) = Landing(L, c, k)
                 /\ Landing(L, c, k) # 0 => RecordOf(N, c, k) = RecordOf(L, c, k)

(* What a client opens changes no read: it is not committed (Layer::open).  *)
LEMMA OpeningIsQuiet ==
    ASSUME NEW L, LogTyped(L), NEW s \in Source, NEW N,
           N = Append(L, [by |-> "client", state |-> "open", reflects |-> 0,
                 cells |-> [d \in {s} |-> [value |-> <<Len(L) + 1>>, fresh |-> 0, reads |-> <<>>]]])
    PROVE  Later(L, N) /\ LogTyped(N) /\ Quiet(L, N)
<1> PICK x : x = [by |-> "client", state |-> "open", reflects |-> 0,
                  cells |-> [d \in {s} |-> [value |-> <<Len(L) + 1>>, fresh |-> 0, reads |-> <<>>]]]
    OBVIOUS
<1>0. LogOk(L) /\ \A i \in 1..Len(L) : L[i].reflects \in 0..i
    BY DEF LogTyped
<1>a. Later(L, N)
    BY <1>0, WriteIsLater
<1>1. Later(L, N) /\ LogOk(N)
    BY <1>a DEF Later
<1>2. Adds(L, N, x) /\ x.state = "open" /\ x.reflects = 0
  <2>1. N = Append(L, x)
        OBVIOUS
  <2> QED BY <1>0, <2>1, AppendAdds
<1>3. Done(N) = Done(L)
  <2>1. ASSUME NEW i \in Done(N) PROVE i \in Done(L)
        BY <1>2, <2>1 DEF Adds, Done
  <2>2. ASSUME NEW i \in Done(L) PROVE i \in Done(N)
        BY <1>2, <2>2 DEF Adds, Done
  <2> QED BY <2>1, <2>2
<1>4. \A i \in Done(L) : N[i] = L[i]
    BY <1>2 DEF Adds, Done
<1>5. TopOf(N) = TopOf(L)
    BY <1>3 DEF TopOf
<1>6. ASSUME NEW c, NEW k
      PROVE  /\ Landing(N, c, k) = Landing(L, c, k)
             /\ Landing(L, c, k) # 0 => RecordOf(N, c, k) = RecordOf(L, c, k)
  <2>1. LayersOf(N, c, k) = LayersOf(L, c, k)
        BY <1>3, <1>4 DEF LayersOf
  <2>2. Landing(N, c, k) = Landing(L, c, k)
        BY <2>1 DEF Landing
  <2>3. ASSUME Landing(L, c, k) # 0 PROVE Landing(L, c, k) \in Done(L)
    <3>1. LayersOf(L, c, k) \subseteq 0..Len(L) /\ Len(L) \in Nat
          BY <1>2 DEF LayersOf, Done, Adds
    <3>2. Landing(L, c, k) \in {0} \cup LayersOf(L, c, k)
      <4>1. {0} \cup LayersOf(L, c, k) \subseteq 0..Len(L)
            BY <3>1
      <4> QED BY <3>1, <4>1, HighestIs DEF Landing
    <3> QED BY <2>3, <3>2 DEF LayersOf
  <2> QED BY <1>4, <2>2, <2>3 DEF RecordOf
<1>7. \A i \in 1..Len(N) : N[i].reflects \in 0..i
  <2> SUFFICES ASSUME NEW i \in 1..Len(N) PROVE N[i].reflects \in 0..i
      OBVIOUS
  <2>1. CASE i \in 1..Len(L)
        BY <1>0, <1>2, <2>1 DEF Adds
  <2>2. CASE i = Len(L) + 1
        BY <1>2, <2>2 DEF Adds
  <2> QED BY <1>2, <2>1, <2>2 DEF Adds
<1>8. Quiet(L, N)
    BY <1>5, <1>6 DEF Quiet
<1> QED BY <1>1, <1>7, <1>8 DEF LogTyped

(* A client's layer is committed or aborted as it is (LayerManager::commit).*)
LEMMA CommitTyped ==
    ASSUME NEW L, LogTyped(L), NEW i \in OpenIn(L), NEW state \in {"committed", "aborted"},
           NEW N, N = [L EXCEPT ![i].state = state]
    PROVE  Later(L, N) /\ LogTyped(N)
<1>0. LogOk(L)
    BY DEF LogTyped
<1>a. i \in OpenIn(L) /\ N = [L EXCEPT ![i].state = state]
    OBVIOUS
<1>b. Later(L, N)
    BY <1>0, <1>a, CommitIsLater
<1>1. Later(L, N) /\ Len(N) = Len(L)
  <2>1. Len(N) = Len(L)
        BY <1>0, <1>a, CommitIsLater
  <2> QED BY <1>b, <2>1
<1>2. \A j \in 1..Len(N) : N[j].reflects \in 0..j
    BY <1>1 DEF LogTyped, Later
<1> QED BY <1>1, <1>2 DEF LogTyped, Later

\* Cells the engine may land: derived, and stamped with no layer above the head.
Stamped(L, cells) ==
    /\ DOMAIN cells \subseteq Derived
    /\ \A c \in DOMAIN cells : /\ cells[c].fresh \in Nat /\ cells[c].fresh <= TopOf(L)
                               /\ cells[c].reads = Reads[c]

\* A log with one more layer, of those cells, on top.
Topped(L, N, cells) ==
    /\ Later(L, N) /\ LogTyped(N) /\ TopOf(N) = Len(L) + 1 /\ Len(L) \in Nat
    /\ Done(N) = Done(L) \cup {Len(L) + 1} /\ N[Len(L) + 1].cells = cells
    /\ \A i \in 1..Len(L) : N[i] = L[i]

(* What the engine lands is labelled with a layer below it (merge_round,    *)
(* run_now).                                                                *)
LEMMA EngineTyped ==
    ASSUME NEW L, LogTyped(L), NEW N, NEW reflects \in Nat, reflects <= TopOf(L),
           NEW cells, Stamped(L, cells), Appends(L, N, reflects, cells)
    PROVE  Topped(L, N, cells)
<1>0. LogOk(L) /\ TopOf(L) \in Nat /\ TopOf(L) <= Len(L) /\ Len(L) \in Nat
    BY TopIs DEF LogTyped, LogOk
<1>1. Sourced(L, cells)
    BY <1>0 DEF Stamped, Sourced
<1>a. OneAbove(L, N, reflects, cells)
    BY <1>0, <1>1, EngineIsLater
<1>2. /\ Later(L, N) /\ Len(L) \in Nat /\ Len(N) = Len(L) + 1 /\ TopOf(N) = Len(L) + 1
      /\ OpenIn(N) = OpenIn(L) /\ Done(N) = Done(L) \cup {Len(L) + 1}
      /\ N[Len(L) + 1].by = "engine" /\ N[Len(L) + 1].cells = cells
      /\ N[Len(L) + 1].reflects = reflects
      /\ \A i \in 1..Len(L) : N[i] = L[i]
      /\ \A i \in 1..Len(N) : i \in 1..Len(L) \/ i = Len(L) + 1
    BY <1>a DEF OneAbove
<1>3. \A i \in 1..Len(N) : N[i].reflects \in 0..i
  <2> SUFFICES ASSUME NEW i \in 1..Len(N) PROVE N[i].reflects \in 0..i
      OBVIOUS
  <2>1. CASE i \in 1..Len(L)
        BY <1>2, <2>1 DEF LogTyped
  <2>2. CASE i = Len(L) + 1
        BY <1>0, <1>2, <2>2
  <2> QED BY <1>2, <2>1, <2>2
<1>4. LogTyped(N)
    BY <1>2, <1>3 DEF LogTyped, Later
<1> QED BY <1>0, <1>2, <1>4 DEF Topped

(* A call keeps its type while the log grows, disturbed or not.             *)
LEMMA CallTypedLater ==
    ASSUME NEW L, NEW N, Later(L, N), NEW x, CallTyped(L, x), NEW y, Alike(x, y)
    PROVE  CallTyped(N, y)
<1>1. /\ IsCall(y) /\ y.at = x.at /\ y.ask = x.ask /\ y.todo = x.todo /\ y.claim = x.claim
    BY DEF Alike, IsCall
<1>2. TopOf(L) \in Nat /\ TopOf(N) \in Nat /\ TopOf(L) <= TopOf(N)
  <2>1. LogOk(L) /\ LogOk(N)
        BY DEF Later
  <2>2. \A k \in Nat : TopOf(L) <= TopOf(N)
        BY LandingGrows
  <2> QED BY <2>1, <2>2, TopIs
<1>3. x.claim \in 0..TopOf(L) => x.claim \in 0..TopOf(N)
    BY <1>2
<1> QED BY <1>1, <1>3 DEF CallTyped

(* Who is disturbed goes on with what it was doing.                         *)
LEMMA DisturbedAre ==
    ASSUME \A r \in Reader : IsCall(call[r])
    PROVE  /\ Disturbed = [r \in Reader |-> Disturbed[r]]
           /\ \A r \in Reader : Alike(call[r], Disturbed[r]) /\ Disturbed[r].calm = FALSE
<1>1. \A r \in Reader : Disturbed[r] = [call[r] EXCEPT !.calm = FALSE]
    BY DEF Disturbed
<1>2. Disturbed = [r \in Reader |-> Disturbed[r]]
    BY DEF Disturbed
<1>3. ASSUME NEW r \in Reader PROVE Alike(call[r], Disturbed[r]) /\ Disturbed[r].calm = FALSE
  <2>1. PICK x : x = call[r]
        OBVIOUS
  <2>2. PICK y : y = [x EXCEPT !.calm = FALSE]
        OBVIOUS
  <2>3. y = [at |-> x.at, ask |-> x.ask, ceiling |-> x.ceiling, record |-> x.record,
             todo |-> x.todo, claim |-> x.claim, holds |-> x.holds, calm |-> FALSE,
             answer |-> x.answer]
    <3>1. IsCall(x)
          BY <2>1
    <3> QED BY <2>2, <3>1 DEF IsCall
  <2>4. Alike(x, y) /\ y.calm = FALSE
        BY <2>3 DEF Alike
  <2> QED BY <1>1, <2>1, <2>2, <2>4
<1> QED BY <1>2, <1>3

(* Who was disturbed is promised nothing any more but the answer it has.    *)
LEMMA DisturbedPays ==
    ASSUME NEW L, NEW N, NEW x, PaysOk(L, x), NEW y, Alike(x, y), y.calm = FALSE
    PROVE  PaysOk(N, y)
<1>1. y.at = x.at /\ y.ask = x.ask /\ y.answer = x.answer
    BY DEF Alike
<1> QED BY <1>1 DEF PaysOk, Wants

(* Nothing a reader has found out changes while reads are what they were.   *)
LEMMA QuietPays ==
    ASSUME NEW L, NEW N, NEW x, PaysOk(L, x), Quiet(L, N)
    PROVE  PaysOk(N, x)
<1> PICK t : t = TopOf(L)
    OBVIOUS
<1>a. TopOf(N) = t
    BY DEF Quiet
<1>b. \A c, k : /\ Landing(N, c, k) = Landing(L, c, k)
                /\ Landing(L, c, k) # 0 => RecordOf(N, c, k) = RecordOf(L, c, k)
    BY DEF Quiet
<1>1. ASSUME NEW V, Unmoved(L, V, t) PROVE Unmoved(N, V, t)
  <2>1. V \subseteq Derived
        BY <1>1 DEF Unmoved
  <2>2. ASSUME NEW d \in V PROVE Landing(N, d, t) # 0 /\ RecordOf(N, d, t) = RecordOf(L, d, t)
        BY <1>1, <1>b, <2>2 DEF Unmoved
  <2>3. ASSUME NEW d \in V, NEW e \in ToSet(Reads[d]), Landing(N, e, t) # 0
        PROVE  IF e \in Source THEN Landing(N, e, t) <= RecordOf(N, d, t).fresh
               ELSE e \in V /\ RecordOf(N, e, t).fresh <= RecordOf(N, d, t).fresh
    <3>1. Landing(N, e, t) = Landing(L, e, t) /\ Landing(L, e, t) # 0 /\ RecordOf(N, e, t) = RecordOf(L, e, t)
          BY <1>b, <2>3
    <3>2. IF e \in Source THEN Landing(L, e, t) <= RecordOf(L, d, t).fresh
          ELSE e \in V /\ RecordOf(L, e, t).fresh <= RecordOf(L, d, t).fresh
          BY <1>1, <3>1 DEF Unmoved
    <3> QED BY <2>2, <3>1, <3>2
  <2> QED BY <2>1, <2>2, <2>3 DEF Unmoved
<1>2. \A V, s, c : Planned(L, V, s, c) => Planned(N, V, s, c)
  <2> SUFFICES ASSUME NEW V, NEW s, NEW c, Planned(L, V, s, c) PROVE Planned(N, V, s, c)
      OBVIOUS
  <2>1. \A d : Landing(N, d, TopOf(N)) = Landing(L, d, TopOf(L))
        BY <1>a, <1>b
  <2> QED BY <2>1 DEF Planned
<1>3. \A c : UpToDate(L, c) => UpToDate(N, c)
    BY <1>1, <1>a DEF UpToDate
<1>4. UpToDate(L, x.ask.cell) => RecordOf(N, x.ask.cell, t) = RecordOf(L, x.ask.cell, t)
    BY <1>b DEF UpToDate, Unmoved
<1> PICK c : c = x.ask.cell
    OBVIOUS
<1>5. Landing(N, c, t) = Landing(L, c, t)
    BY <1>b
<1>6. ASSUME x.calm /\ Wants(x)
      PROVE  /\ x.at \in {"compute", "run"} => \E V : Unmoved(N, V, t) /\ Planned(N, V, x.todo, c)
             /\ x.at = "run" => x.claim = t
             /\ x.at = "look" => Landing(N, c, t) = 0 \/ UpToDate(N, c)
             /\ x.at = "validate" => /\ x.ceiling = t /\ UpToDate(N, c)
                                     /\ x.record = RecordOf(N, c, t)
    BY <1>1, <1>2, <1>3, <1>4, <1>5, <1>6 DEF PaysOk
<1> QED BY <1>6, <1>a DEF PaysOk

\* An inline run of a cell landed on top of a log.
Ran(L, N, c) ==
    /\ LogOk(L) /\ LogOk(N) /\ Len(L) \in Nat /\ TopOf(N) = Len(L) + 1
    /\ Done(N) = Done(L) \cup {Len(L) + 1} /\ \A i \in 1..Len(L) : N[i] = L[i]
    /\ DOMAIN N[Len(L) + 1].cells = {c} /\ N[Len(L) + 1].cells[c].fresh = TopOf(L)

(* An inline run changes what is read of its own cell, and of no other.     *)
LEMMA RanIs ==
    ASSUME NEW L, NEW N, NEW c, Ran(L, N, c)
    PROVE  /\ Landing(N, c, TopOf(N)) = Len(L) + 1 /\ RecordOf(N, c, TopOf(N)).fresh = TopOf(L)
           /\ \A d : d # c =>
                 /\ Landing(N, d, TopOf(N)) = Landing(L, d, TopOf(L))
                 /\ Landing(L, d, TopOf(L)) # 0 => RecordOf(N, d, TopOf(N)) = RecordOf(L, d, TopOf(L))
<1> PICK n : n = Len(L) + 1
    OBVIOUS
<1>1. /\ LogOk(L) /\ LogOk(N) /\ Len(L) \in Nat /\ TopOf(N) = n /\ n \in Nat
      /\ Done(N) = Done(L) \cup {n} /\ \A i \in 1..Len(L) : N[i] = L[i]
      /\ DOMAIN N[n].cells = {c} /\ N[n].cells[c].fresh = TopOf(L)
    BY DEF Ran
<1>2. /\ TopOf(L) \in Nat /\ TopOf(L) <= Len(L)
      /\ \A i \in Done(L) : i \in 1..Len(L) /\ i <= TopOf(L)
    BY <1>1, TopIs
<1>3. Landing(N, c, n) = n
  <2>1. n \in LayersOf(N, c, n)
        BY <1>1 DEF LayersOf
  <2>2. n <= Landing(N, c, n) /\ Landing(N, c, n) <= n /\ Landing(N, c, n) \in Nat
        BY <1>1, <2>1, LandingIs
  <2> QED BY <1>1, <2>2
<1>4. RecordOf(N, c, n).fresh = TopOf(L)
    BY <1>1, <1>3 DEF RecordOf
<1>5. ASSUME NEW d, d # c
      PROVE  /\ Landing(N, d, n) = Landing(L, d, TopOf(L))
             /\ Landing(L, d, TopOf(L)) # 0 => RecordOf(N, d, n) = RecordOf(L, d, TopOf(L))
  <2>1. LayersOf(N, d, n) = LayersOf(L, d, TopOf(L))
    <3>1. ASSUME NEW i \in LayersOf(N, d, n) PROVE i \in LayersOf(L, d, TopOf(L))
      <4>1. i \in Done(N) /\ d \in DOMAIN N[i].cells
            BY <3>1 DEF LayersOf
      <4>2. i # n
            BY <1>1, <1>5, <4>1
      <4>3. i \in Done(L) /\ i <= TopOf(L) /\ N[i] = L[i]
            BY <1>1, <1>2, <4>1, <4>2
      <4> QED BY <4>1, <4>3 DEF LayersOf
    <3>2. ASSUME NEW i \in LayersOf(L, d, TopOf(L)) PROVE i \in LayersOf(N, d, n)
      <4>1. i \in Done(L) /\ d \in DOMAIN L[i].cells
            BY <3>2 DEF LayersOf
      <4>2. i \in Done(N) /\ N[i] = L[i] /\ i <= n
            BY <1>1, <1>2, <4>1
      <4> QED BY <4>1, <4>2 DEF LayersOf
    <3> QED BY <3>1, <3>2
  <2>2. Landing(N, d, n) = Landing(L, d, TopOf(L))
        BY <2>1 DEF Landing
  <2>3. ASSUME Landing(L, d, TopOf(L)) # 0 PROVE Landing(L, d, TopOf(L)) \in 1..Len(L)
    <3>1. Landing(L, d, TopOf(L)) \in LayersOf(L, d, TopOf(L))
          BY <1>1, <1>2, <2>3, LandingIs
    <3> QED BY <1>2, <3>1 DEF LayersOf
  <2> QED BY <1>1, <2>2, <2>3 DEF RecordOf
<1> QED BY <1>1, <1>3, <1>4, <1>5

(* An inline run brings its cell up to date with what it read, and what is  *)
(* left of the plan is a plan (refresh, run_now).                           *)
LEMMA RunBringsUp ==
    ASSUME NEW L, NEW V, Unmoved(L, V, TopOf(L)), NEW s, NEW asked, Planned(L, V, s, asked),
           s # <<>>, NEW c, c = s[1], NEW N, Ran(L, N, c)
    PROVE  Unmoved(N, V \cup {c}, TopOf(N)) /\ Planned(N, V \cup {c}, Tail(s), asked)
<1> PICK W : W = V \cup {c}
    OBVIOUS
<1> PICK j : j = TopOf(L)
    OBVIOUS
<1> PICK k : k = TopOf(N)
    OBVIOUS
<1>1. /\ LogOk(L) /\ LogOk(N) /\ Len(L) \in Nat /\ j \in Nat /\ k = Len(L) + 1
    BY TopIs DEF Ran
<1>2. /\ Landing(N, c, k) = Len(L) + 1 /\ RecordOf(N, c, k).fresh = j
      /\ \A d : d # c => /\ Landing(N, d, k) = Landing(L, d, j)
                         /\ Landing(L, d, j) # 0 => RecordOf(N, d, k) = RecordOf(L, d, j)
    BY RanIs
<1>3. s \in Seq(Derived) /\ Distinct(s) /\ Len(s) \in Nat /\ Len(s) >= 1 /\ 1 \in 1..Len(s)
    BY DEF Planned
<1>4. /\ c \in Derived /\ Landing(L, c, j) # 0 /\ c \notin V
      /\ \A e \in ToSet(Reads[c]) \cap Derived : Landing(L, e, j) # 0 => e \in V
  <2>1. s[1] \in Derived
        BY <1>3
  <2>2. \A e \in ToSet(Reads[s[1]]) \cap Derived : Landing(L, e, j) # 0 =>
           e \in V \/ \E i \in 1..(1 - 1) : s[i] = e
        BY <1>3 DEF Planned
  <2>3. \A i : i \notin 1..(1 - 1)
        OBVIOUS
  <2>4. Landing(L, s[1], j) # 0 /\ s[1] \notin V
        BY <1>3 DEF Planned
  <2> QED BY <2>1, <2>2, <2>3, <2>4
<1>5. V \subseteq Derived /\ \A d \in V : Landing(L, d, j) # 0
    BY DEF Unmoved
<1>6. \A d \in Derived : Landing(L, d, j) # 0 => RecordOf(L, d, j).fresh \in Nat /\ RecordOf(L, d, j).fresh <= j
  <2> SUFFICES ASSUME NEW d \in Derived, Landing(L, d, j) # 0
               PROVE  RecordOf(L, d, j).fresh \in Nat /\ RecordOf(L, d, j).fresh <= j
      OBVIOUS
  <2>1. /\ RecordOf(L, d, j).fresh \in Nat /\ RecordOf(L, d, j).fresh < Landing(L, d, j)
        /\ Landing(L, d, j) <= j /\ Landing(L, d, j) \in Nat
        BY <1>1, RecordIs, LandingIs
  <2> QED BY <1>1, <2>1
<1>7. Unmoved(N, W, k)
  <2>1. W \subseteq Derived
        BY <1>4, <1>5
  <2>2. ASSUME NEW d \in W PROVE Landing(N, d, k) # 0
        BY <1>1, <1>2, <1>5, <2>2
  <2>3. ASSUME NEW d \in W, NEW e \in ToSet(Reads[d]), Landing(N, e, k) # 0
        PROVE  IF e \in Source THEN Landing(N, e, k) <= RecordOf(N, d, k).fresh
               ELSE e \in W /\ RecordOf(N, e, k).fresh <= RecordOf(N, d, k).fresh
    <3>0. d \in Derived /\ e \in Cell /\ e # d
      <4>1. d \in Derived
            BY <2>1
      <4>2. e \in Cell /\ Rank[e] < Rank[d] /\ Rank[e] \in Int /\ Rank[d] \in Int
            BY <4>1, RankIs DEF Cell
      <4> QED BY <4>1, <4>2
    <3>1. CASE d = c
      <4>1. e # c /\ Landing(L, e, j) # 0 /\ Landing(N, e, k) = Landing(L, e, j)
            BY <1>2, <2>3, <3>0, <3>1
      <4>2. CASE e \in Source
        <5>1. Landing(L, e, j) <= j
              BY <1>1, LandingIs
        <5> QED BY <1>2, <3>1, <4>1, <4>2, <5>1
      <4>3. CASE e \notin Source
        <5>1. e \in Derived
              BY <3>0, <4>3 DEF Cell
        <5>2. e \in V
              BY <1>4, <2>3, <3>1, <4>1, <5>1
        <5>3. RecordOf(N, e, k).fresh <= j
              BY <1>2, <1>6, <4>1, <5>1
        <5> QED BY <1>2, <3>1, <4>3, <5>2, <5>3
      <4> QED BY <4>2, <4>3
    <3>2. CASE d # c
      <4>1. d \in V /\ RecordOf(N, d, k) = RecordOf(L, d, j)
            BY <1>2, <1>5, <3>2
      <4>2. e # c
        <5>1. ASSUME e = c PROVE FALSE
          <6>1. Landing(L, e, j) # 0 /\ e \notin Source
                BY <1>4, <5>1, ResolveAssumption
          <6>2. e \in V
                BY <2>3, <4>1, <6>1 DEF Unmoved
          <6> QED BY <1>4, <5>1, <6>2
        <5> QED BY <5>1
      <4>3. Landing(L, e, j) # 0 /\ Landing(N, e, k) = Landing(L, e, j) /\ RecordOf(N, e, k) = RecordOf(L, e, j)
            BY <1>2, <2>3, <4>2
      <4>4. IF e \in Source THEN Landing(L, e, j) <= RecordOf(L, d, j).fresh
            ELSE e \in V /\ RecordOf(L, e, j).fresh <= RecordOf(L, d, j).fresh
            BY <2>3, <4>1, <4>3 DEF Unmoved
      <4> QED BY <4>1, <4>3, <4>4
    <3> QED BY <3>1, <3>2
  <2> QED BY <2>1, <2>2, <2>3 DEF Unmoved
<1> PICK t : t = Tail(s)
    OBVIOUS
<1>8. /\ t \in Seq(Derived) /\ Len(t) = Len(s) - 1 /\ Len(t) \in Nat
      /\ \A i \in 1..Len(t) : t[i] = s[i + 1] /\ i + 1 \in 1..Len(s)
    BY <1>3
<1>9. Distinct(t)
  <2> SUFFICES ASSUME NEW a \in 1..Len(t), NEW b \in 1..Len(t), t[a] = t[b] PROVE a = b
      BY DEF Distinct
  <2>1. s[a + 1] = s[b + 1] /\ a + 1 \in 1..Len(s) /\ b + 1 \in 1..Len(s)
        BY <1>8
  <2>2. a + 1 = b + 1
        BY <1>3, <2>1 DEF Distinct
  <2> QED BY <1>8, <2>2
<1>10. ASSUME NEW i \in 1..Len(t)
       PROVE  /\ Landing(N, t[i], k) # 0 /\ t[i] \notin W
              /\ \A e \in ToSet(Reads[t[i]]) \cap Derived : Landing(N, e, k) # 0 =>
                    e \in W \/ \E a \in 1..(i - 1) : t[a] = e
  <2>1. t[i] = s[i + 1] /\ i + 1 \in 1..Len(s) /\ i \in Nat
        BY <1>8
  <2>2. Landing(L, t[i], j) # 0 /\ t[i] \notin V
        BY <2>1 DEF Planned
  <2>3. t[i] # c
    <3>1. ASSUME s[i + 1] = s[1] PROVE FALSE
      <4>1. i + 1 = 1
            BY <1>3, <2>1, <3>1 DEF Distinct
      <4> QED BY <1>8, <4>1
    <3> QED BY <2>1, <3>1
  <2>4. ASSUME NEW e \in ToSet(Reads[t[i]]) \cap Derived, Landing(N, e, k) # 0, e \notin W
        PROVE  \E a \in 1..(i - 1) : t[a] = e
    <3>1. e # c /\ e \notin V /\ Landing(L, e, j) # 0
          BY <1>2, <2>4
    <3>2. PICK b \in 1..((i + 1) - 1) : s[b] = e
          BY <2>1, <2>4, <3>1 DEF Planned
    <3>3. b # 1
          BY <3>1, <3>2
    <3>4. b - 1 \in 1..(i - 1) /\ b - 1 \in 1..Len(t) /\ (b - 1) + 1 = b
          BY <1>8, <2>1, <3>2, <3>3
    <3>5. t[b - 1] = e
          BY <1>8, <3>2, <3>4
    <3> QED BY <3>4, <3>5
  <2> QED BY <1>2, <2>2, <2>3, <2>4
<1>11. Landing(N, asked, k) = 0 \/ asked \in W \/ asked \in ToSet(t)
  <2>1. CASE Landing(L, asked, j) = 0
        BY <1>2, <1>4, <2>1
  <2>2. CASE asked \in V
        BY <2>2
  <2>3. CASE asked \in ToSet(s)
    <3>1. PICK i \in 1..Len(s) : s[i] = asked
          BY <1>3, <2>3 DEF ToSet
    <3>2. CASE i = 1
          BY <3>1, <3>2
    <3>3. CASE i # 1
      <4>1. i - 1 \in 1..Len(t) /\ (i - 1) + 1 = i
            BY <1>3, <1>8, <3>3
      <4>2. t[i - 1] = asked
            BY <1>8, <3>1, <4>1
      <4>3. DOMAIN t = 1..Len(t)
            BY <1>8
      <4> QED BY <4>1, <4>2, <4>3 DEF ToSet
    <3> QED BY <3>2, <3>3
  <2> QED BY <2>1, <2>2, <2>3 DEF Planned
<1>12. Planned(N, W, t, asked)
    BY <1>8, <1>9, <1>10, <1>11 DEF Planned
<1> QED BY <1>7, <1>12

(* The watermarks and the round stay within the log as it grows.            *)
LEMMA WithinTheLog ==
    ASSUME NEW L, NEW N, Later(L, N)
    PROVE  /\ TopOf(L) \in Nat /\ TopOf(N) \in Nat /\ TopOf(L) <= TopOf(N)
           /\ \A w : MarkTyped(L, w) => MarkTyped(N, w)
           /\ \A rd : RoundTyped(L, rd) => RoundTyped(N, rd)
<1>1. TopOf(L) \in Nat /\ TopOf(N) \in Nat /\ TopOf(L) <= TopOf(N)
  <2>1. LogOk(L) /\ LogOk(N)
        BY DEF Later
  <2>2. \A k \in Nat : TopOf(L) <= TopOf(N)
        BY LandingGrows
  <2> QED BY <2>1, <2>2, TopIs
<1>2. \A w : MarkTyped(L, w) => MarkTyped(N, w)
  <2> SUFFICES ASSUME NEW w, MarkTyped(L, w) PROVE MarkTyped(N, w)
      OBVIOUS
  <2>1. \A p \in Derived : w[p] \in Nat /\ w[p] <= TopOf(L)
        BY DEF MarkTyped
  <2>2. \A p \in Derived : w[p] <= TopOf(N)
        BY <1>1, <2>1
  <2> QED BY <2>2 DEF MarkTyped
<1>3. \A rd : RoundTyped(L, rd) => RoundTyped(N, rd)
  <2> SUFFICES ASSUME NEW rd, RoundTyped(L, rd) PROVE RoundTyped(N, rd)
      OBVIOUS
  <2>1. rd.reflects \in Nat /\ rd.reflects <= TopOf(L)
        BY DEF RoundTyped
  <2>2. rd.reflects <= TopOf(N)
        BY <1>1, <2>1
  <2> QED BY <2>2 DEF RoundTyped
<1> QED BY <1>1, <1>2, <1>3

\* What there is of a round when it lands: the cells it made that did not fall.
RoundCells ==
    [c \in Dirty \ Fallen |-> [value |-> RoundValue[c], fresh |-> round.reflects, reads |-> Reads[c]]]

(* A round lands derived cells only (merge_round).                          *)
LEMMA LandGrows ==
    ASSUME ReadsOk, Land
    PROVE  Later(log, log') /\ LogTyped(log')
<1> PICK L : L = log
    OBVIOUS
<1> PICK N : N = log'
    OBVIOUS
<1> PICK w : w = round.reflects
    OBVIOUS
<1> PICK cells : cells = RoundCells
    OBVIOUS
<1>1. LogTyped(L) /\ w \in Nat /\ w <= TopOf(L)
    BY DEF ReadsOk, RoundTyped
<1>2. Dirty \subseteq Derived
  <2> DEFINE running == Derived \ broken.now
             seed == {c \in running :
                        \/ Absent(c, round.forkAt)
                        \/ \E d \in ToSet(Reads[c]), i \in Span :
                              i <= round.forkAt /\ Position(i) > mark[c] /\ d \in DOMAIN log[i].cells}
  <2>1. Dirty = Spreads(seed, running)
        BY DEF Dirty
  <2>2. seed \subseteq Derived /\ running \subseteq Derived
        OBVIOUS
  <2> HIDE DEF seed, running
  <2>3. \A c \in Cell : c \in Dirty => c \in seed \/ c \in running
        BY <2>1, <2>2, SpreadsIs
  <2>4. Dirty \subseteq Cell
        BY <2>1 DEF Spreads
  <2> QED BY <2>2, <2>3, <2>4
<1>3. /\ DOMAIN cells = Dirty \ Fallen
      /\ \A c \in DOMAIN cells : cells[c].fresh = w /\ cells[c].reads = Reads[c]
    BY DEF RoundCells
<1>4. CASE Dirty \ Fallen = {}
  <2>1. N = L
        BY <1>4 DEF Land
  <2> QED BY <1>1, <2>1, LaterSelf DEF LogTyped
<1>5. CASE Dirty \ Fallen # {}
  <2>1. N = Append(L, [by |-> "engine", state |-> "committed", reflects |-> w, cells |-> cells])
        BY <1>5, Zenon DEF Land, RoundCells
  <2>2. Appends(L, N, w, cells)
        BY <2>1, Zenon DEF Appends
  <2>3. Stamped(L, cells)
        BY <1>1, <1>2, <1>3 DEF Stamped
  <2>4. Topped(L, N, cells)
        BY <1>1, <2>2, <2>3, EngineTyped
  <2> QED BY <2>4 DEF Topped
<1> QED BY <1>4, <1>5

(* An inline run lands its cell, stamped with its claim (run_now).          *)
LEMMA RunGrows ==
    ASSUME ReadsOk, NEW r \in Reader, Run(r), NEW x, x = call[r]
    PROVE  /\ Later(log, log') /\ LogTyped(log') /\ x.todo \in Seq(Derived) /\ x.todo # <<>>
           /\ x.claim = TopOf(log) => Ran(log, log', x.todo[1])
<1> PICK L : L = log
    OBVIOUS
<1> PICK N : N = log'
    OBVIOUS
<1> PICK c : c = Head(x.todo)
    OBVIOUS
<1> PICK m : m = mark[c]
    OBVIOUS
<1>1. LogTyped(L) /\ CallTyped(L, x) /\ x.at = "run" /\ MarkTyped(L, mark) /\ LogOk(L)
    BY DEF ReadsOk, ReadersOk, ReadOk, Run, LogTyped
<1>2. x.todo \in Seq(Derived) /\ x.todo # <<>> /\ x.claim \in 0..TopOf(L) /\ TopOf(L) \in Nat
    BY <1>1, TopIs DEF CallTyped
<1>3. c = x.todo[1] /\ c \in Derived
    BY <1>2
<1>4. m \in Nat /\ m <= TopOf(L)
    BY <1>1, <1>3 DEF MarkTyped
<1> PICK cells : cells = RanCells(L, c, x.claim)
    OBVIOUS
<1>5. DOMAIN cells = {c} /\ cells[c].fresh = x.claim /\ cells[c].reads = Reads[c]
    BY DEF RanCells
<1>6. Appends(L, N, m, cells)
  <2>1. log' = Append(log, [by |-> "engine", state |-> "committed", reflects |-> mark[c],
                cells |-> [d \in {c} |-> [value |-> [n \in DOMAIN Reads[c] |-> Value(Reads[c][n], Top)],
                                          fresh |-> x.claim, reads |-> Reads[c]]]])
        BY Zenon DEF Run
  <2>2. [n \in DOMAIN Reads[c] |-> Value(Reads[c][n], Top)]
           = [n \in DOMAIN Reads[c] |-> ValueOf(L, Reads[c][n], TopOf(L))]
        BY OfTheLog
  <2>3. cells = [d \in {c} |-> [value |-> [n \in DOMAIN Reads[c] |-> Value(Reads[c][n], Top)],
                               fresh |-> x.claim, reads |-> Reads[c]]]
        BY <2>2 DEF RanCells
  <2>4. N = Append(L, [by |-> "engine", state |-> "committed", reflects |-> m, cells |-> cells])
        BY <2>1, <2>3, Zenon
  <2> QED BY <2>4, Zenon DEF Appends
<1>7. Stamped(L, cells)
  <2>1. \A d \in DOMAIN cells : d = c
        BY <1>5
  <2>2. x.claim \in Nat /\ x.claim <= TopOf(L)
        BY <1>2
  <2> QED BY <1>3, <1>5, <2>1, <2>2 DEF Stamped
<1>8. /\ Later(L, N) /\ LogTyped(N) /\ TopOf(N) = Len(L) + 1 /\ Len(L) \in Nat
      /\ Done(N) = Done(L) \cup {Len(L) + 1} /\ N[Len(L) + 1].cells = cells
      /\ \A i \in 1..Len(L) : N[i] = L[i]
  <2>1. LogTyped(L)
        BY <1>1
  <2>2. Topped(L, N, cells)
        BY <1>4, <1>6, <1>7, <2>1, EngineTyped
  <2> QED BY <2>2 DEF Topped
<1>9. LogOk(N)
    BY <1>8 DEF LogTyped
<1>10. x.claim = TopOf(L) => Ran(L, N, c)
    BY <1>1, <1>5, <1>8, <1>9 DEF Ran
<1> QED BY <1>2, <1>3, <1>8, <1>10

(* Whatever happens, the log grows as logs do.                              *)
LEMMA LogGrows ==
    ASSUME ReadsOk, [Next]_vars
    PROVE  Later(log, log') /\ LogTyped(log')
<1>1. LogTyped(log) /\ LogOk(log) /\ Later(log, log)
    BY LaterSelf DEF ReadsOk, LogTyped
<1>2. ASSUME log' = log PROVE Later(log, log') /\ LogTyped(log')
    BY <1>1, <1>2
<1>3. ASSUME NEW c \in Source, Write(c) PROVE Later(log, log') /\ LogTyped(log')
  <2> PICK L : L = log
      OBVIOUS
  <2> PICK N : N = log'
      OBVIOUS
  <2>1. N = Append(L, [by |-> "client", state |-> "open", reflects |-> 0,
          cells |-> [d \in {c} |-> [value |-> <<Len(L) + 1>>, fresh |-> 0, reads |-> <<>>]]])
        BY <1>3 DEF Write
  <2>2. LogTyped(L)
        BY <1>1
  <2>3. Later(L, N) /\ LogTyped(N)
        BY <2>1, <2>2, OpeningIsQuiet
  <2> QED BY <2>3
<1>4. ASSUME NEW i \in DOMAIN log, NEW s \in {"committed", "aborted"}, Commit(i, s)
      PROVE  Later(log, log') /\ LogTyped(log')
  <2> PICK L : L = log
      OBVIOUS
  <2> PICK N : N = log'
      OBVIOUS
  <2>1. i \in OpenIn(L) /\ N = [L EXCEPT ![i].state = s] /\ LogTyped(L)
        BY <1>1, <1>4 DEF Commit, OpenIn
  <2>2. Later(L, N) /\ LogTyped(N)
        BY <2>1, CommitTyped
  <2> QED BY <2>2
<1>5. ASSUME Land PROVE Later(log, log') /\ LogTyped(log')
    BY <1>5, LandGrows
<1>6. ASSUME Fork \/ Advance PROVE Later(log, log') /\ LogTyped(log')
    BY <1>2, <1>6 DEF Fork, Advance
<1>7. ASSUME NEW p \in Derived, Break(p) \/ Recover(p) PROVE Later(log, log') /\ LogTyped(log')
    BY <1>2, <1>7 DEF Break, Recover
<1>8. ASSUME NEW r \in Reader, Reading(r) PROVE Later(log, log') /\ LogTyped(log')
  <2>1. CASE Run(r)
    <3>1. PICK x : x = call[r]
          OBVIOUS
    <3> QED BY <2>1, <3>1, RunGrows
  <2>2. CASE Check(r) \/ Claim(r) \/ Look(r) \/ Validate(r) \/ Judge(r)
        BY <1>2, <2>2 DEF Check, Claim, Look, Validate, Judge
  <2> QED BY <1>8, <2>1, <2>2 DEF Reading
<1>9. ASSUME NEW r \in Reader, NEW q \in Requests, NEW pin \in 0..Top, Ask(r, q, pin)
      PROVE  Later(log, log') /\ LogTyped(log')
    BY <1>2, <1>9 DEF Ask
<1>10. ASSUME NEW w \in Waiter, Waiting(w) PROVE Later(log, log') /\ LogTyped(log')
    BY <1>2, <1>10 DEF Waiting, Arm, Compare, Sleep, Wake
<1>11. ASSUME NEW w \in Waiter, NEW t, Await(w, t) PROVE Later(log, log') /\ LogTyped(log')
    BY <1>2, <1>11 DEF Await
<1>12. ASSUME UNCHANGED vars PROVE Later(log, log') /\ LogTyped(log')
    BY <1>2, <1>12 DEF vars
<1> QED BY <1>3, <1>4, <1>5, <1>6, <1>7, <1>8, <1>9, <1>10, <1>11, <1>12, Zenon DEF Next

(* A watermark and a round name layers that have happened, before and after *)
(* every step (FrontierTracker::advance, rewind).                           *)
LEMMA BoundsKeep ==
    ASSUME ReadsOk, [Next]_vars, Later(log, log')
    PROVE  MarkTyped(log', mark') /\ RoundTyped(log', round')
<1> PICK N : N = log'
    OBVIOUS
<1>1. /\ MarkTyped(N, mark) /\ RoundTyped(N, round) /\ TopOf(N) \in Nat
      /\ LogOk(log) /\ TopOf(log) \in Nat /\ TopOf(log) <= TopOf(N)
    BY WithinTheLog DEF ReadsOk, LogTyped
<1>2. ASSUME mark' = mark, round' = round PROVE MarkTyped(N, mark') /\ RoundTyped(N, round')
    BY <1>1, <1>2
<1>3. ASSUME Fork PROVE MarkTyped(N, mark') /\ RoundTyped(N, round')
  <2> PICK k : k = Highest({0} \cup {i \in Committed : i <= Highest(Span) /\ log[i].by = "client"})
      OBVIOUS
  <2> PICK f : f = Highest(Span)
      OBVIOUS
  <2> PICK rd : rd = [phase |-> "forked", forkAt |-> f, reflects |-> k]
      OBVIOUS
  <2>1. round' = rd /\ mark' = mark
        BY <1>3 DEF Fork
  <2>2. k \in Nat /\ k <= TopOf(log)
    <3>1. Committed = Done(log) /\ \A i \in Done(log) : i \in 1..Len(log) /\ i <= TopOf(log)
          BY <1>1, OfTheLog, TopIs
    <3>2. PICK S : S = {0} \cup {i \in Committed : i <= Highest(Span) /\ log[i].by = "client"}
          OBVIOUS
    <3>3. S \subseteq 0..TopOf(log) /\ S # {}
          BY <1>1, <3>1, <3>2
    <3>4. k \in S
          BY <1>1, <3>2, <3>3, HighestIs
    <3> QED BY <1>1, <3>3, <3>4
  <2>3. k <= TopOf(N)
        BY <1>1, <2>2
  <2>4. RoundTyped(N, rd)
        BY <2>2, <2>3 DEF RoundTyped
  <2> QED BY <1>1, <2>1, <2>4
<1>4. ASSUME Land PROVE MarkTyped(N, mark') /\ RoundTyped(N, round')
  <2> PICK ro : ro = round
      OBVIOUS
  <2> PICK rd : rd = [ro EXCEPT !.phase = "landed"]
      OBVIOUS
  <2>1. round' = rd /\ mark' = mark
        BY <1>4 DEF Land
  <2>2. rd = [phase |-> "landed", forkAt |-> ro.forkAt, reflects |-> ro.reflects]
        BY <1>1 DEF RoundTyped
  <2>3. RoundTyped(N, rd)
        BY <1>1, <2>2 DEF RoundTyped
  <2> QED BY <1>1, <2>1, <2>3
<1>5. ASSUME Advance PROVE MarkTyped(N, mark') /\ RoundTyped(N, round')
  <2> PICK w : w = mark'
      OBVIOUS
  <2>1. round' = NoRound /\ w = [p \in Derived |-> Highest({mark[p], round.reflects})]
        BY <1>5 DEF Advance
  <2>2. ASSUME NEW p \in Derived PROVE w[p] \in Nat /\ w[p] <= TopOf(N)
    <3>1. PICK S : S = {mark[p], round.reflects}
          OBVIOUS
    <3>2. mark[p] \in 0..TopOf(N) /\ round.reflects \in 0..TopOf(N)
          BY <1>1 DEF MarkTyped, RoundTyped
    <3>3. S \subseteq 0..TopOf(N) /\ S # {}
          BY <3>1, <3>2
    <3>4. Highest(S) \in S /\ w[p] = Highest(S)
          BY <1>1, <2>1, <3>1, <3>3, HighestIs
    <3>5. Highest(S) \in 0..TopOf(N)
          BY <3>3, <3>4
    <3> QED BY <1>1, <3>4, <3>5
  <2>3. w = [p \in Derived |-> w[p]]
        BY <2>1
  <2>4. w \in [Derived -> Nat]
        BY <2>2, <2>3
  <2>5. MarkTyped(N, w)
        BY <2>2, <2>4 DEF MarkTyped
  <2>6. RoundTyped(N, NoRound)
        BY <1>1 DEF RoundTyped, NoRound
  <2> QED BY <2>1, <2>5, <2>6
<1>6. ASSUME NEW p \in Derived, Recover(p) PROVE MarkTyped(N, mark') /\ RoundTyped(N, round')
  <2> PICK w : w = mark'
      OBVIOUS
  <2>1. w = [mark EXCEPT ![p] = 0] /\ round' = round
        BY <1>6 DEF Recover
  <2>2. MarkTyped(N, w)
        BY <1>1, <2>1 DEF MarkTyped
  <2> QED BY <1>1, <2>1, <2>2
<1>7. ASSUME NEW c \in Source, Write(c) PROVE MarkTyped(N, mark') /\ RoundTyped(N, round')
    BY <1>2, <1>7 DEF Write
<1>8. ASSUME NEW i, NEW s, Commit(i, s) PROVE MarkTyped(N, mark') /\ RoundTyped(N, round')
    BY <1>2, <1>8 DEF Commit
<1>9. ASSUME NEW p \in Derived, Break(p) PROVE MarkTyped(N, mark') /\ RoundTyped(N, round')
    BY <1>2, <1>9 DEF Break
<1>10. ASSUME NEW r \in Reader, Reading(r) PROVE MarkTyped(N, mark') /\ RoundTyped(N, round')
    BY <1>2, <1>10 DEF Reading, Check, Claim, Run, Look, Validate, Judge
<1>11. ASSUME NEW r, NEW q, NEW pin, Ask(r, q, pin) PROVE MarkTyped(N, mark') /\ RoundTyped(N, round')
    BY <1>2, <1>11 DEF Ask
<1>12. ASSUME NEW w \in Waiter, Waiting(w) PROVE MarkTyped(N, mark') /\ RoundTyped(N, round')
    BY <1>2, <1>12 DEF Waiting, Arm, Compare, Sleep, Wake
<1>13. ASSUME NEW w, NEW t, Await(w, t) PROVE MarkTyped(N, mark') /\ RoundTyped(N, round')
    BY <1>2, <1>13 DEF Await
<1>14. ASSUME UNCHANGED vars PROVE MarkTyped(N, mark') /\ RoundTyped(N, round')
    BY <1>2, <1>14 DEF vars
<1>15. MarkTyped(N, mark') /\ RoundTyped(N, round')
    BY <1>3, <1>4, <1>5, <1>6, <1>7, <1>8, <1>9, <1>10, <1>11, <1>12, <1>13, <1>14, Zenon DEF Next
<1> QED BY <1>15

(* A step of one reader leaves the others as they are.                      *)
LEMMA OneRead ==
    ASSUME NEW L, NEW ever, ReadersOk(L, ever, call), NEW r \in Reader, NEW y, ReadOk(L, ever, y),
           Become(r, y), log' = L, broken'.ever = ever
    PROVE  ReadersOk(log', broken'.ever, call')
<1> PICK new : new = call'
    OBVIOUS
<1>1. call = [q \in Reader |-> call[q]] /\ \A q \in Reader : ReadOk(L, ever, call[q])
    BY DEF ReadersOk
<1>2. new = [q \in Reader |-> IF q = r THEN y ELSE call[q]]
    BY <1>1 DEF Become
<1>3. /\ new = [q \in Reader |-> new[q]]
      /\ \A q \in Reader : new[q] = IF q = r THEN y ELSE call[q]
    BY <1>2
<1>4. \A q \in Reader : ReadOk(L, ever, new[q])
    BY <1>1, <1>3
<1>5. ReadersOk(L, ever, new)
    BY <1>3, <1>4 DEF ReadersOk
<1> QED BY <1>5

(* What happens around readers without being seen leaves them as they are.  *)
LEMMA Unseen ==
    ASSUME ReadsOk, call' = call, log' = log, broken'.ever = broken.ever \/ broken'.ever = TRUE
    PROVE  ReadersOk(log', broken'.ever, call')
<1> PICK x : x = call
    OBVIOUS
<1>1. ReadersOk(log, broken.ever, x)
    BY DEF ReadsOk
<1>2. ReadersOk(log, TRUE, x)
    BY <1>1 DEF ReadersOk, ReadOk
<1> QED BY <1>1, <1>2

(* Opening a layer disturbs nobody (Write).                                 *)
LEMMA WriteReads ==
    ASSUME ReadsOk, NEW c \in Source, Write(c)
    PROVE  ReadersOk(log', broken'.ever, call')
<1> PICK L : L = log
    OBVIOUS
<1> PICK N : N = log'
    OBVIOUS
<1> PICK e : e = broken.ever
    OBVIOUS
<1>1. LogTyped(L) /\ ReadersOk(L, e, call)
    BY DEF ReadsOk
<1>2. N = Append(L, [by |-> "client", state |-> "open", reflects |-> 0,
          cells |-> [d \in {c} |-> [value |-> <<Len(L) + 1>>, fresh |-> 0, reads |-> <<>>]]])
    BY DEF Write
<1>3. Later(L, N)
    BY <1>1, <1>2, OpeningIsQuiet
<1>4. Quiet(L, N)
    BY <1>1, <1>2, OpeningIsQuiet
<1>5. ASSUME NEW r \in Reader PROVE ReadOk(N, e, call[r])
  <2>1. PICK x : x = call[r]
        OBVIOUS
  <2>2. ReadOk(L, e, x)
        BY <1>1, <2>1 DEF ReadersOk
  <2>3. CallTyped(L, x) /\ Alike(x, x)
        BY <2>2 DEF ReadOk, CallTyped, IsCall, Alike
  <2>4. CallTyped(N, x)
        BY <1>3, <2>3, CallTypedLater
  <2>5. PaysOk(L, x) => PaysOk(N, x)
        BY <1>4, QuietPays
  <2>6. ReadOk(N, e, x)
        BY <2>2, <2>4, <2>5 DEF ReadOk
  <2> QED BY <2>1, <2>6
<1>6. ReadersOk(N, e, call)
    BY <1>1, <1>5 DEF ReadersOk
<1>7. call' = call /\ broken' = broken
    BY DEF Write
<1> QED BY <1>6, <1>7

(* A layer that lands, a client's or a round's, disturbs everybody.         *)
LEMMA LandingDisturbs ==
    ASSUME ReadsOk, Later(log, log'), call' = Disturbed, broken' = broken
    PROVE  ReadersOk(log', broken'.ever, call')
<1> PICK L : L = log
    OBVIOUS
<1> PICK N : N = log'
    OBVIOUS
<1> PICK e : e = broken.ever
    OBVIOUS
<1>1. ReadersOk(L, e, call) /\ Later(L, N)
    BY DEF ReadsOk
<1>2. \A r \in Reader : CallTyped(L, call[r]) /\ IsCall(call[r]) /\ (~e => PaysOk(L, call[r]))
    BY <1>1 DEF ReadersOk, ReadOk, CallTyped
<1>3. /\ Disturbed = [r \in Reader |-> Disturbed[r]]
      /\ \A r \in Reader : Alike(call[r], Disturbed[r]) /\ Disturbed[r].calm = FALSE
    BY <1>2, DisturbedAre
<1>4. ASSUME NEW r \in Reader PROVE ReadOk(N, e, Disturbed[r])
  <2>1. PICK x : x = call[r]
        OBVIOUS
  <2>2. PICK y : y = Disturbed[r]
        OBVIOUS
  <2>3. CallTyped(L, x) /\ (~e => PaysOk(L, x)) /\ Alike(x, y) /\ y.calm = FALSE
        BY <1>2, <1>3, <2>1, <2>2
  <2>4. CallTyped(N, y)
        BY <1>1, <2>3, CallTypedLater
  <2>5. ~e => PaysOk(N, y)
        BY <2>3, DisturbedPays
  <2> QED BY <2>2, <2>4, <2>5 DEF ReadOk
<1>5. ReadersOk(N, e, Disturbed)
    BY <1>3, <1>4 DEF ReadersOk
<1> QED BY <1>5

(* Ask.                                                                     *)
LEMMA AskReads ==
    ASSUME ReadsOk, NEW r \in Reader, NEW q \in Requests, NEW pin, Ask(r, q, pin)
    PROVE  ReadersOk(log', broken'.ever, call')
<1> PICK y : y = [NoCall EXCEPT !.at = IF q.want = "current" THEN "check" ELSE "look",
                  !.ask = q, !.ceiling = pin, !.calm = TRUE]
    OBVIOUS
<1>1. /\ IsCall(y) /\ y.ask = q /\ y.answer = None
      /\ y.at = IF q.want = "current" THEN "check" ELSE "look"
    BY DEF NoCall, IsCall
<1>2. CallTyped(log, y)
    BY <1>1 DEF CallTyped, CallStates
<1>3. PaysOk(log, y)
    BY <1>1 DEF PaysOk, Wants
<1>4. ReadersOk(log, broken.ever, call) /\ ReadOk(log, broken.ever, y)
    BY <1>2, <1>3 DEF ReadsOk, ReadOk
<1>5. Become(r, y) /\ log' = log /\ broken' = broken
    BY DEF Ask
<1> QED BY <1>4, <1>5, OneRead

(* The plan of a refresh brings its cell up to date from nothing (refresh). *)
LEMMA PlanIsPlanned ==
    ASSUME LogOk(log), NEW c \in Derived
    PROVE  \E V : Unmoved(log, V, TopOf(log)) /\ Planned(log, V, Plan(c), c)
<1> PICK s : s = Plan(c)
    OBVIOUS
<1> PICK k : k = TopOf(log)
    OBVIOUS
<1>1. Unmoved(log, {}, k)
    BY DEF Unmoved
<1>2. InOrder(s, Present) /\ Distinct(s) /\ (c \in Present => c \in ToSet(s))
    BY PlanIs DEF Cell
<1>3. Present = {d \in Derived : Landing(log, d, k) # 0}
    BY OfTheLog DEF Present
<1>4. s \in Seq(Present) /\ s \in Seq(Derived) /\ \A i \in 1..Len(s) : s[i] \in Present
    BY <1>2, <1>3 DEF InOrder
<1>5. ASSUME NEW i \in 1..Len(s), NEW e \in ToSet(Reads[s[i]]) \cap Derived, Landing(log, e, k) # 0
      PROVE  \E j \in 1..(i - 1) : s[j] = e
  <2>1. e \in ToSet(Reads[s[i]]) \cap Present
        BY <1>3, <1>5
  <2> QED BY <1>2, <2>1 DEF InOrder
<1>6. Planned(log, {}, s, c)
    BY <1>2, <1>3, <1>4, <1>5 DEF Planned
<1> QED BY <1>1, <1>6

(* What is not computed again for a reader that wants the current value is  *)
(* up to date already (settled_here).                                       *)
LEMMA CheckReads ==
    ASSUME ReadsOk, NEW r \in Reader, Check(r)
    PROVE  ReadersOk(log', broken'.ever, call')
<1> PICK x : x = call[r]
    OBVIOUS
<1> PICK ever : ever = broken.ever
    OBVIOUS
<1> PICK L : L = log
    OBVIOUS
<1>1. /\ ReadersOk(L, ever, call) /\ CallTyped(L, x) /\ (~ever => PaysOk(L, x))
      /\ x.at = "check" /\ LogOk(L) /\ TopOf(L) \in Nat
    BY TopIs DEF Check, ReadsOk, ReadersOk, ReadOk, LogTyped
<1>2. IsCall(x) /\ x.ask \in Requests /\ x.ask.cell \in Derived
    BY <1>1, ResolveAssumption DEF CallTyped
<1> PICK c : c = x.ask.cell
    OBVIOUS
<1>3. log' = L /\ broken'.ever = ever
    BY DEF Check
<1>4. CASE Become(r, [x EXCEPT !.at = "compute", !.todo = Plan(c)])
  <2> PICK s : s = Plan(c)
      OBVIOUS
  <2> PICK y : y = [x EXCEPT !.at = "compute", !.todo = s]
      OBVIOUS
  <2>1. y = [at |-> "compute", ask |-> x.ask, ceiling |-> x.ceiling, record |-> x.record,
             todo |-> s, claim |-> x.claim, holds |-> x.holds, calm |-> x.calm,
             answer |-> x.answer]
        BY <1>2 DEF IsCall
  <2>2. /\ IsCall(y) /\ y.at = "compute" /\ y.ask = x.ask /\ y.answer = x.answer /\ y.todo = s
        /\ y.calm = x.calm
        BY <2>1 DEF IsCall
  <2>3. PICK V : Unmoved(log, V, TopOf(log)) /\ Planned(log, V, s, c)
        BY <1>1, <1>2, PlanIsPlanned
  <2>4. s \in Seq(Derived)
        BY <2>3 DEF Planned
  <2>5. CallTyped(L, y)
        BY <1>2, <2>2, <2>4 DEF CallTyped, CallStates
  <2>6. PaysOk(L, x) => PaysOk(L, y)
    <3> SUFFICES ASSUME PaysOk(L, x) PROVE PaysOk(L, y)
        OBVIOUS
    <3>1. y.answer = None
          BY <1>1, <2>2 DEF PaysOk
    <3>2. \E W : Unmoved(L, W, TopOf(L)) /\ Planned(L, W, y.todo, y.ask.cell)
          BY <2>2, <2>3
    <3> QED BY <2>2, <3>1, <3>2 DEF PaysOk
  <2>7. ReadOk(L, ever, y)
        BY <1>1, <2>5, <2>6 DEF ReadOk
  <2>8. Become(r, y)
        BY <1>4
  <2> QED BY <1>1, <1>3, <2>7, <2>8, OneRead
<1>5. CASE /\ Become(r, [x EXCEPT !.at = "look"])
           /\ Ceiling(r) >= Top => ~Absent(c, Ceiling(r)) /\ Validated(Found(c, Ceiling(r)), Ceiling(r)) >= Ceiling(r)
  <2> PICK y : y = [x EXCEPT !.at = "look"]
      OBVIOUS
  <2>1. y = [at |-> "look", ask |-> x.ask, ceiling |-> x.ceiling, record |-> x.record,
             todo |-> x.todo, claim |-> x.claim, holds |-> x.holds, calm |-> x.calm,
             answer |-> x.answer]
        BY <1>2 DEF IsCall
  <2>2. IsCall(y) /\ y.at = "look" /\ y.ask = x.ask /\ y.answer = x.answer /\ y.calm = x.calm
        BY <2>1 DEF IsCall
  <2>3. CallTyped(L, y)
        BY <1>2, <2>2 DEF CallTyped, CallStates
  <2>4. Wants(x) => UpToDate(L, c)
    <3> SUFFICES ASSUME Wants(x) PROVE UpToDate(L, c)
        OBVIOUS
    <3>1. Ceiling(r) = TopOf(L)
          BY OfTheLog DEF Wants, Ceiling
    <3>2. Ceiling(r) >= Top
          BY <1>1, <3>1, OfTheLog
    <3>3. Landing(log, c, TopOf(L)) # 0 /\ Validated(RecordOf(log, c, TopOf(L)), TopOf(L)) >= TopOf(L)
          BY <1>5, <3>1, <3>2, OfTheLog
    <3>4. \E V : Unmoved(log, V, TopOf(L)) /\ c \in V
          BY <1>1, <1>2, <3>3, SettledUnmoves
    <3> QED BY <3>4 DEF UpToDate
  <2>5. PaysOk(L, x) => PaysOk(L, y)
    <3> SUFFICES ASSUME PaysOk(L, x) PROVE PaysOk(L, y)
        OBVIOUS
    <3>1. y.answer = None
          BY <1>1, <2>2 DEF PaysOk
    <3>2. Wants(y) => UpToDate(L, y.ask.cell)
          BY <2>2, <2>4 DEF Wants
    <3> QED BY <2>2, <3>1, <3>2 DEF PaysOk
  <2>6. ReadOk(L, ever, y)
        BY <1>1, <2>3, <2>5 DEF ReadOk
  <2>7. Become(r, y)
        BY <1>5
  <2> QED BY <1>1, <1>3, <2>6, <2>7, OneRead
<1>6. \/ Become(r, [x EXCEPT !.at = "compute", !.todo = Plan(c)])
      \/ /\ Become(r, [x EXCEPT !.at = "look"])
         /\ Ceiling(r) >= Top => ~Absent(c, Ceiling(r)) /\ Validated(Found(c, Ceiling(r)), Ceiling(r)) >= Ceiling(r)
  <2> DEFINE k == Ceiling(r)
             settled == ~Absent(c, k) /\ Validated(Found(c, k), k) >= k
  <2>1. Become(r, IF k >= Top /\ ~settled THEN [x EXCEPT !.at = "compute", !.todo = Plan(c)]
                  ELSE [x EXCEPT !.at = "look"])
        BY Zenon DEF Check
  <2>2. CASE k >= Top /\ ~settled
        BY <2>1, <2>2, Zenon
  <2>3. CASE ~(k >= Top /\ ~settled)
        BY <2>1, <2>3, Zenon
  <2> QED BY <2>2, <2>3
<1> QED BY <1>4, <1>5, <1>6

(* A claim is for the head its reader sees; nothing broken, nothing is left *)
(* out (run_now).                                                           *)
LEMMA ClaimReads ==
    ASSUME ReadsOk, NEW r \in Reader, Claim(r)
    PROVE  ReadersOk(log', broken'.ever, call')
<1> PICK x : x = call[r]
    OBVIOUS
<1> PICK ever : ever = broken.ever
    OBVIOUS
<1> PICK L : L = log
    OBVIOUS
<1>1. /\ ReadersOk(L, ever, call) /\ CallTyped(L, x) /\ (~ever => PaysOk(L, x))
      /\ x.at = "compute" /\ LogOk(L) /\ TopOf(L) \in Nat
    BY TopIs DEF Claim, ReadsOk, ReadersOk, ReadOk, LogTyped
<1>2. IsCall(x) /\ x.ask \in Requests /\ x.todo \in Seq(Derived)
    BY <1>1 DEF CallTyped
<1>3. log' = L /\ broken'.ever = ever
    BY DEF Claim
<1>4. ~ever => broken.now = {}
    BY DEF ReadsOk, BrokenOk
<1>5. CASE x.todo = <<>> /\ Become(r, [x EXCEPT !.at = "look"])
  <2> PICK y : y = [x EXCEPT !.at = "look"]
      OBVIOUS
  <2>1. y = [at |-> "look", ask |-> x.ask, ceiling |-> x.ceiling, record |-> x.record,
             todo |-> x.todo, claim |-> x.claim, holds |-> x.holds, calm |-> x.calm,
             answer |-> x.answer]
        BY <1>2 DEF IsCall
  <2>2. IsCall(y) /\ y.at = "look" /\ y.ask = x.ask /\ y.answer = x.answer /\ y.calm = x.calm
        BY <2>1 DEF IsCall
  <2>3. CallTyped(L, y)
        BY <1>2, <2>2 DEF CallTyped, CallStates
  <2>4. PaysOk(L, x) => PaysOk(L, y)
    <3> SUFFICES ASSUME PaysOk(L, x) PROVE PaysOk(L, y)
        OBVIOUS
    <3>1. y.answer = None
          BY <1>1, <2>2 DEF PaysOk
    <3>2. x.calm /\ Wants(x) => Landing(L, x.ask.cell, TopOf(L)) = 0 \/ UpToDate(L, x.ask.cell)
      <4> SUFFICES ASSUME x.calm /\ Wants(x)
                   PROVE  Landing(L, x.ask.cell, TopOf(L)) = 0 \/ UpToDate(L, x.ask.cell)
          OBVIOUS
      <4>1. PICK V : Unmoved(L, V, TopOf(L)) /\ Planned(L, V, x.todo, x.ask.cell)
            BY <1>1 DEF PaysOk
      <4>2. ToSet(x.todo) = {}
            BY <1>5 DEF ToSet
      <4> QED BY <4>1, <4>2 DEF Planned, UpToDate
    <3> QED BY <2>2, <3>1, <3>2 DEF PaysOk, Wants
  <2>5. ReadOk(L, ever, y)
        BY <1>1, <2>3, <2>4 DEF ReadOk
  <2>6. Become(r, y)
        BY <1>5
  <2> QED BY <1>1, <1>3, <2>5, <2>6, OneRead
<1>6. CASE x.todo # <<>> /\ Become(r, [x EXCEPT !.at = "run", !.claim = Top])
  <2> PICK top : top = Top
      OBVIOUS
  <2> PICK y : y = [x EXCEPT !.at = "run", !.claim = top]
      OBVIOUS
  <2>1. y = [at |-> "run", ask |-> x.ask, ceiling |-> x.ceiling, record |-> x.record,
             todo |-> x.todo, claim |-> top, holds |-> x.holds, calm |-> x.calm,
             answer |-> x.answer]
        BY <1>2 DEF IsCall
  <2>2. /\ IsCall(y) /\ y.at = "run" /\ y.ask = x.ask /\ y.answer = x.answer /\ y.todo = x.todo
        /\ y.claim = top /\ y.calm = x.calm
        BY <2>1 DEF IsCall
  <2>3. top = TopOf(L) /\ top \in 0..TopOf(L)
        BY <1>1, OfTheLog
  <2>4. CallTyped(L, y)
        BY <1>2, <1>6, <2>2, <2>3 DEF CallTyped, CallStates
  <2>5. PaysOk(L, x) => PaysOk(L, y)
        BY <1>1, <2>2, <2>3 DEF PaysOk, Wants
  <2>6. ReadOk(L, ever, y)
        BY <1>1, <2>4, <2>5 DEF ReadOk
  <2>7. Become(r, y)
        BY <1>6
  <2> QED BY <1>1, <1>3, <2>6, <2>7, OneRead
<1>7. CASE ever /\ x.todo # <<>> /\ Become(r, [x EXCEPT !.todo = Tail(x.todo)])
  <2> PICK t : t = Tail(x.todo)
      OBVIOUS
  <2> PICK y : y = [x EXCEPT !.todo = t]
      OBVIOUS
  <2>1. y = [at |-> x.at, ask |-> x.ask, ceiling |-> x.ceiling, record |-> x.record,
             todo |-> t, claim |-> x.claim, holds |-> x.holds, calm |-> x.calm,
             answer |-> x.answer]
        BY <1>2 DEF IsCall
  <2>2. IsCall(y) /\ y.at = "compute" /\ y.ask = x.ask /\ y.todo = t
        BY <1>1, <2>1 DEF IsCall
  <2>3. t \in Seq(Derived)
        BY <1>2, <1>7
  <2>4. CallTyped(L, y)
        BY <1>2, <2>2, <2>3 DEF CallTyped, CallStates
  <2>5. ReadOk(L, ever, y)
        BY <1>7, <2>4 DEF ReadOk
  <2>6. Become(r, y)
        BY <1>7
  <2> QED BY <1>1, <1>3, <2>5, <2>6, OneRead
<1>8. \/ x.todo = <<>> /\ Become(r, [x EXCEPT !.at = "look"])
      \/ x.todo # <<>> /\ Become(r, [x EXCEPT !.at = "run", !.claim = Top])
      \/ ever /\ x.todo # <<>> /\ Become(r, [x EXCEPT !.todo = Tail(x.todo)])
  <2>1. Become(r, IF x.todo = <<>> THEN [x EXCEPT !.at = "look"]
                  ELSE IF Head(x.todo) \in broken.now
                       THEN [x EXCEPT !.todo = Tail(x.todo)]
                       ELSE [x EXCEPT !.at = "run", !.claim = Top])
        BY Zenon DEF Claim
  <2>2. CASE x.todo = <<>>
        BY <2>1, <2>2, Zenon
  <2>3. CASE x.todo # <<>> /\ Head(x.todo) \in broken.now
    <3>1. ever
          BY <1>4, <2>3 DEF ReadsOk, BrokenOk
    <3>2. Become(r, [x EXCEPT !.todo = Tail(x.todo)])
          BY <2>1, <2>3, Zenon
    <3> QED BY <2>3, <3>1, <3>2
  <2>4. CASE x.todo # <<>> /\ Head(x.todo) \notin broken.now
        BY <2>1, <2>4, Zenon
  <2> QED BY <2>2, <2>3, <2>4
<1> QED BY <1>5, <1>6, <1>7, <1>8

(* What is looked up for a reader that wants the current value is up to     *)
(* date, or there is no value at all (resolve).                             *)
LEMMA LookReads ==
    ASSUME ReadsOk, NEW r \in Reader, Look(r)
    PROVE  ReadersOk(log', broken'.ever, call')
<1> PICK x : x = call[r]
    OBVIOUS
<1> PICK ever : ever = broken.ever
    OBVIOUS
<1> PICK L : L = log
    OBVIOUS
<1>1. /\ ReadersOk(L, ever, call) /\ CallTyped(L, x) /\ (~ever => PaysOk(L, x))
      /\ x.at = "look" /\ LogOk(L) /\ TopOf(L) \in Nat
    BY TopIs DEF Look, ReadsOk, ReadersOk, ReadOk, LogTyped
<1>2. IsCall(x) /\ x.ask \in Requests
    BY <1>1 DEF CallTyped
<1> PICK k : k = Ceiling(r)
    OBVIOUS
<1> PICK c : c = x.ask.cell
    OBVIOUS
<1>3. log' = L /\ broken'.ever = ever
    BY DEF Look
<1>4. CASE Absent(c, k) /\ Become(r, [x EXCEPT !.at = "none",
                     !.answer = [state |-> "absent", fresh |-> 0, holds |-> {}, calm |-> FALSE]])
  <2> PICK a : a = [state |-> "absent", fresh |-> 0, holds |-> {}, calm |-> FALSE]
      OBVIOUS
  <2> PICK y : y = [x EXCEPT !.at = "none", !.answer = a]
      OBVIOUS
  <2>1. y = [at |-> "none", ask |-> x.ask, ceiling |-> x.ceiling, record |-> x.record,
             todo |-> x.todo, claim |-> x.claim, holds |-> x.holds, calm |-> x.calm,
             answer |-> a]
        BY <1>2 DEF IsCall
  <2>2. IsCall(y) /\ y.at = "none" /\ y.answer = a
        BY <2>1 DEF IsCall
  <2>3. a.calm = FALSE
        OBVIOUS
  <2>4. IsCall(y) /\ y.at = "none" /\ y.answer.calm = FALSE
        BY <2>2, <2>3, Zenon
  <2>5. CallTyped(L, y)
        BY <2>4 DEF CallTyped, CallStates
  <2>6. PaysOk(L, y)
        BY <2>4 DEF PaysOk
  <2>7. ReadOk(L, ever, y)
        BY <2>5, <2>6 DEF ReadOk
  <2>8. Become(r, y)
        BY <1>4
  <2> QED BY <1>1, <1>3, <2>7, <2>8, OneRead
<1>5. CASE ~Absent(c, k) /\ Become(r, [x EXCEPT !.at = "validate", !.ceiling = k,
                     !.record = Found(c, k),
                     !.holds = {i \in 0..k : Replay(i)[c] = Found(c, k).value}])
  <2> PICK record : record = Found(c, k)
      OBVIOUS
  <2> PICK holds : holds = {i \in 0..k : Replay(i)[c] = record.value}
      OBVIOUS
  <2> PICK y : y = [x EXCEPT !.at = "validate", !.ceiling = k, !.record = record, !.holds = holds]
      OBVIOUS
  <2>1. y = [at |-> "validate", ask |-> x.ask, ceiling |-> k, record |-> record,
             todo |-> x.todo, claim |-> x.claim, holds |-> holds, calm |-> x.calm,
             answer |-> x.answer]
        BY <1>2 DEF IsCall
  <2>2. /\ IsCall(y) /\ y.at = "validate" /\ y.ask = x.ask /\ y.ceiling = k
        /\ y.answer = x.answer /\ y.record = record /\ y.calm = x.calm
        BY <2>1 DEF IsCall
  <2>3. Landing(log, c, k) # 0 /\ record = RecordOf(log, c, k)
        BY <1>5, OfTheLog
  <2>4. CallTyped(L, y)
        BY <1>2, <2>2 DEF CallTyped, CallStates
  <2>5. PaysOk(L, x) => PaysOk(L, y)
    <3> SUFFICES ASSUME PaysOk(L, x) PROVE PaysOk(L, y)
        OBVIOUS
    <3>1. y.answer = None
          BY <1>1, <2>2 DEF PaysOk
    <3>2. ASSUME x.calm /\ Wants(x)
          PROVE  k = TopOf(L) /\ UpToDate(L, c) /\ record = RecordOf(L, c, TopOf(L))
      <4>1. k = TopOf(L)
            BY <3>2, OfTheLog DEF Wants, Ceiling
      <4>2. Landing(L, c, TopOf(L)) = 0 \/ UpToDate(L, c)
            BY <1>1, <3>2 DEF PaysOk
      <4> QED BY <2>3, <4>1, <4>2
    <3> QED BY <2>2, <3>1, <3>2 DEF PaysOk, Wants
  <2>6. ReadOk(L, ever, y)
        BY <1>1, <2>4, <2>5 DEF ReadOk
  <2>7. Become(r, y)
        BY <1>5
  <2> QED BY <1>1, <1>3, <2>6, <2>7, OneRead
<1>6. \/ Absent(c, k) /\ Become(r, [x EXCEPT !.at = "none",
                     !.answer = [state |-> "absent", fresh |-> 0, holds |-> {}, calm |-> FALSE]])
      \/ ~Absent(c, k) /\ Become(r, [x EXCEPT !.at = "validate", !.ceiling = k,
                     !.record = Found(c, k),
                     !.holds = {i \in 0..k : Replay(i)[c] = Found(c, k).value}])
  <2>1. Become(r, IF Absent(c, k)
            THEN [x EXCEPT !.at = "none",
                     !.answer = [state |-> "absent", fresh |-> 0, holds |-> {},
                                 calm |-> FALSE]]
            ELSE [x EXCEPT !.at = "validate", !.ceiling = k, !.record = Found(c, k),
                     !.holds = {i \in 0..k : Replay(i)[c] = Found(c, k).value}])
        BY Zenon DEF Look
  <2> QED BY <2>1, Zenon
<1> QED BY <1>4, <1>5, <1>6

(* What is up to date is validated as far as the head, and called current   *)
(* (validate, freshness).                                                   *)
LEMMA ValidateReads ==
    ASSUME ReadsOk, NEW r \in Reader, Validate(r)
    PROVE  ReadersOk(log', broken'.ever, call')
<1> PICK x : x = call[r]
    OBVIOUS
<1> PICK ever : ever = broken.ever
    OBVIOUS
<1> PICK L : L = log
    OBVIOUS
<1>1. /\ ReadersOk(L, ever, call) /\ CallTyped(L, x) /\ (~ever => PaysOk(L, x))
      /\ x.at = "validate" /\ LogOk(L) /\ TopOf(L) \in Nat
    BY TopIs DEF Validate, ReadsOk, ReadersOk, ReadOk, LogTyped
<1>2. IsCall(x) /\ x.ask \in Requests
    BY <1>1 DEF CallTyped
<1> PICK k : k = x.ceiling
    OBVIOUS
<1> PICK c : c = x.ask.cell
    OBVIOUS
<1>3. log' = L /\ broken'.ever = ever
    BY DEF Validate
<1>4. ASSUME PaysOk(L, x), x.calm /\ Wants(x)
      PROVE  Validated(x.record, k) >= k /\ x.ask.want # "any"
  <2>1. k = TopOf(L) /\ UpToDate(L, c) /\ x.record = RecordOf(L, c, TopOf(L))
        BY <1>1, <1>4 DEF PaysOk
  <2>2. PICK V : Unmoved(log, V, k) /\ c \in V
        BY <2>1 DEF UpToDate
  <2>3. LogOk(log) /\ k \in Nat
        BY <1>1, <2>1
  <2>4. Validated(RecordOf(log, c, k), k) >= k
        BY <2>2, <2>3, UnmovedValidates
  <2> QED BY <1>4, <2>1, <2>4 DEF Wants
<1>5. \A state, fresh : Judged(r, state, fresh)
         = Become(r, [x EXCEPT !.at = "judge", !.answer = [state |-> state, fresh |-> fresh,
                                                      holds |-> x.holds, calm |-> x.calm]])
    BY DEF Judged
<1>6. PICK state, fresh : /\ Judged(r, state, fresh)
                          /\ PaysOk(L, x) /\ x.calm /\ Wants(x) => state = "current"
  <2>1. IF x.ask.want = "any"
        THEN IF x.record.fresh >= k THEN Judged(r, "current", k)
             ELSE Judged(r, "unvalidated", x.record.fresh)
        ELSE IF Validated(x.record, k) >= k THEN Judged(r, "current", k)
             ELSE Judged(r, "stale", Validated(x.record, k))
        BY Zenon DEF Validate
  <2>2. CASE x.ask.want = "any" /\ Judged(r, "unvalidated", x.record.fresh)
        BY <1>4, <2>2
  <2>3. CASE Judged(r, "current", k)
        BY <2>3
  <2>4. CASE ~(Validated(x.record, k) >= k) /\ Judged(r, "stale", Validated(x.record, k))
        BY <1>4, <2>4
  <2> QED BY <2>1, <2>2, <2>3, <2>4, Zenon
<1> PICK a : a = [state |-> state, fresh |-> fresh, holds |-> x.holds, calm |-> x.calm]
    OBVIOUS
<1> PICK y : y = [x EXCEPT !.at = "judge", !.answer = a]
    OBVIOUS
<1>7. y = [at |-> "judge", ask |-> x.ask, ceiling |-> x.ceiling, record |-> x.record,
           todo |-> x.todo, claim |-> x.claim, holds |-> x.holds, calm |-> x.calm,
           answer |-> a]
    BY <1>2 DEF IsCall
<1>8. IsCall(y) /\ y.at = "judge" /\ y.ask = x.ask /\ y.answer = a
    BY <1>7 DEF IsCall
<1>9. a.state = state /\ a.calm = x.calm
    OBVIOUS
<1>10. CallTyped(L, y)
    BY <1>2, <1>8 DEF CallTyped, CallStates
<1>11. PaysOk(L, x) => PaysOk(L, y)
  <2> SUFFICES ASSUME PaysOk(L, x) PROVE PaysOk(L, y)
      OBVIOUS
  <2>1. y.answer.calm = x.calm /\ y.answer.state = state
        BY <1>8, <1>9, Zenon
  <2>2. x.calm /\ Wants(x) => y.answer.state = "current"
        BY <1>6, <2>1
  <2>3. y.answer # None /\ y.answer.calm /\ Wants(y) => y.answer.state = "current"
        BY <1>8, <2>1, <2>2 DEF Wants
  <2> QED BY <1>8, <2>3 DEF PaysOk
<1>12. ReadOk(L, ever, y)
    BY <1>1, <1>10, <1>11 DEF ReadOk
<1>13. Become(r, y)
    BY <1>5, <1>6
<1> QED BY <1>1, <1>3, <1>12, <1>13, OneRead

(* Only a broken producer changes what validation said (Judge).             *)
LEMMA JudgeReads ==
    ASSUME ReadsOk, NEW r \in Reader, Judge(r)
    PROVE  ReadersOk(log', broken'.ever, call')
<1> PICK x : x = call[r]
    OBVIOUS
<1> PICK ever : ever = broken.ever
    OBVIOUS
<1> PICK L : L = log
    OBVIOUS
<1> PICK a : a = IF x.ask.cell \in broken.now THEN [x.answer EXCEPT !.state = "broken"] ELSE x.answer
    OBVIOUS
<1> PICK y : y = [NoCall EXCEPT !.ask = x.ask, !.answer = a]
    OBVIOUS
<1>1. ReadersOk(L, ever, call) /\ (~ever => PaysOk(L, x))
    BY DEF ReadsOk, ReadersOk, ReadOk
<1>2. IsCall(y) /\ y.at = "none" /\ y.ask = x.ask /\ y.answer = a
    BY DEF NoCall, IsCall
<1>3. Become(r, y) /\ log' = L /\ broken'.ever = ever
    BY Zenon DEF Judge
<1>4. CallTyped(L, y)
    BY <1>2 DEF CallTyped, CallStates
<1>5. ~ever => a = x.answer
    BY DEF ReadsOk, BrokenOk
<1>6. ASSUME ~ever PROVE PaysOk(L, y)
    BY <1>1, <1>2, <1>5, <1>6 DEF PaysOk, Wants, NoCall
<1>7. ReadOk(L, ever, y)
    BY <1>4, <1>6 DEF ReadOk
<1> QED BY <1>1, <1>3, <1>7, OneRead

(* An inline run brings its own reader on, and disturbs the others          *)
(* (run_now).                                                               *)
LEMMA RunReads ==
    ASSUME ReadsOk, NEW r \in Reader, Run(r)
    PROVE  ReadersOk(log', broken'.ever, call')
<1> PICK x : x = call[r]
    OBVIOUS
<1> PICK ever : ever = broken.ever
    OBVIOUS
<1> PICK L : L = log
    OBVIOUS
<1> PICK N : N = log'
    OBVIOUS
<1>1. /\ ReadersOk(L, ever, call) /\ CallTyped(L, x) /\ (~ever => PaysOk(L, x)) /\ x.at = "run"
    BY DEF Run, ReadsOk, ReadersOk, ReadOk
<1>2. IsCall(x) /\ x.ask \in Requests
    BY <1>1 DEF CallTyped
<1>3. Later(L, N) /\ x.todo \in Seq(Derived) /\ x.todo # <<>>
    BY RunGrows
<1>4. x.claim = TopOf(L) => Ran(L, N, x.todo[1])
    BY RunGrows
<1> PICK t : t = Tail(x.todo)
    OBVIOUS
<1> PICK y : y = [x EXCEPT !.at = "compute", !.todo = t]
    OBVIOUS
<1>5. y = [at |-> "compute", ask |-> x.ask, ceiling |-> x.ceiling, record |-> x.record,
           todo |-> t, claim |-> x.claim, holds |-> x.holds, calm |-> x.calm,
           answer |-> x.answer]
    BY <1>2 DEF IsCall
<1>6. /\ IsCall(y) /\ y.at = "compute" /\ y.ask = x.ask /\ y.answer = x.answer /\ y.todo = t
      /\ y.calm = x.calm
    BY <1>5 DEF IsCall
<1>7. CallTyped(N, y)
  <2>1. t \in Seq(Derived)
        BY <1>3
  <2> QED BY <1>2, <1>6, <2>1 DEF CallTyped, CallStates
<1>8. PaysOk(L, x) => PaysOk(N, y)
  <2> SUFFICES ASSUME PaysOk(L, x) PROVE PaysOk(N, y)
      OBVIOUS
  <2>1. y.answer = None
        BY <1>1, <1>6 DEF PaysOk
  <2>2. ASSUME x.calm /\ Wants(x)
        PROVE  \E V : Unmoved(N, V, TopOf(N)) /\ Planned(N, V, t, x.ask.cell)
    <3>1. PICK c : c = x.todo[1]
          OBVIOUS
    <3>2. Ran(L, N, c)
          BY <1>1, <1>4, <2>2, <3>1 DEF PaysOk
    <3>3. PICK V : Unmoved(L, V, TopOf(L)) /\ Planned(L, V, x.todo, x.ask.cell)
          BY <1>1, <2>2 DEF PaysOk
    <3>4. PICK s : s = x.todo
          OBVIOUS
    <3>5. Unmoved(N, V \cup {c}, TopOf(N)) /\ Planned(N, V \cup {c}, Tail(s), x.ask.cell)
          BY <1>3, <3>1, <3>2, <3>3, <3>4, RunBringsUp
    <3> QED BY <3>4, <3>5
  <2> QED BY <1>6, <2>1, <2>2 DEF PaysOk, Wants
<1>9. ReadOk(N, ever, y)
    BY <1>1, <1>7, <1>8 DEF ReadOk
<1>10. \A q \in Reader : CallTyped(L, call[q]) /\ IsCall(call[q]) /\ (~ever => PaysOk(L, call[q]))
    BY <1>1 DEF ReadersOk, ReadOk, CallTyped
<1>11. /\ Disturbed = [q \in Reader |-> Disturbed[q]]
       /\ \A q \in Reader : Alike(call[q], Disturbed[q]) /\ Disturbed[q].calm = FALSE
    BY <1>10, DisturbedAre
<1>12. ASSUME NEW q \in Reader PROVE ReadOk(N, ever, Disturbed[q])
  <2>1. PICK z : z = call[q]
        OBVIOUS
  <2>2. PICK w : w = Disturbed[q]
        OBVIOUS
  <2>3. CallTyped(L, z) /\ (~ever => PaysOk(L, z)) /\ Alike(z, w) /\ w.calm = FALSE
        BY <1>10, <1>11, <2>1, <2>2
  <2>4. CallTyped(N, w)
        BY <1>3, <2>3, CallTypedLater
  <2>5. ~ever => PaysOk(N, w)
        BY <2>3, DisturbedPays
  <2> QED BY <2>2, <2>4, <2>5 DEF ReadOk
<1> PICK new : new = call'
    OBVIOUS
<1>13. new = [Disturbed EXCEPT ![r] = y] /\ broken' = broken
    BY Zenon DEF Run
<1>14. /\ new = [q \in Reader |-> new[q]]
       /\ \A q \in Reader : new[q] = IF q = r THEN y ELSE Disturbed[q]
    BY <1>11, <1>13
<1>15. \A q \in Reader : ReadOk(N, ever, new[q])
    BY <1>9, <1>12, <1>14
<1>16. ReadersOk(N, ever, new)
    BY <1>14, <1>15 DEF ReadersOk
<1> QED BY <1>13, <1>16

(* Every step keeps it.                                                     *)
LEMMA ReadsKeep ==
    ASSUME ReadsOk, [Next]_vars
    PROVE  ReadsOk'
<1>1. Later(log, log') /\ LogTyped(log')
    BY LogGrows
<1>2. MarkTyped(log', mark') /\ RoundTyped(log', round')
    BY <1>1, BoundsKeep
<1>3. LeftOk' /\ BrokenOk' /\ WaitsOk'
    BY LeftKeeps, BrokenKeeps, WaitKeeps DEF ReadsOk
<1>4. ReadersOk(log', broken'.ever, call')
  <2>1. ASSUME NEW c \in Source, Write(c) PROVE ReadersOk(log', broken'.ever, call')
        BY <2>1, WriteReads
  <2>2. ASSUME NEW i, NEW s, Commit(i, s) PROVE ReadersOk(log', broken'.ever, call')
        BY <1>1, <2>2, LandingDisturbs DEF Commit
  <2>3. ASSUME Land PROVE ReadersOk(log', broken'.ever, call')
        BY <1>1, <2>3, LandingDisturbs DEF Land
  <2>4. ASSUME Fork \/ Advance PROVE ReadersOk(log', broken'.ever, call')
        BY <2>4, Unseen DEF Fork, Advance
  <2>5. ASSUME NEW p \in Derived, Break(p) \/ Recover(p) PROVE ReadersOk(log', broken'.ever, call')
    <3>1. CASE Break(p)
          BY <3>1, Unseen DEF Break
    <3>2. CASE Recover(p)
      <4>1. broken'.ever = broken.ever
            BY <3>2 DEF Recover, ReadsOk, BrokenOk
      <4> QED BY <3>2, <4>1, Unseen DEF Recover
    <3> QED BY <2>5, <3>1, <3>2
  <2>6. ASSUME NEW r \in Reader, Reading(r) PROVE ReadersOk(log', broken'.ever, call')
        BY <2>6, CheckReads, ClaimReads, RunReads, LookReads, ValidateReads, JudgeReads, Zenon DEF Reading
  <2>7. ASSUME NEW r \in Reader, NEW q \in Requests, NEW pin, Ask(r, q, pin)
        PROVE  ReadersOk(log', broken'.ever, call')
        BY <2>7, AskReads
  <2>8. ASSUME NEW w \in Waiter, Waiting(w) PROVE ReadersOk(log', broken'.ever, call')
        BY <2>8, Unseen DEF Waiting, Arm, Compare, Sleep, Wake
  <2>9. ASSUME NEW w \in Waiter, NEW t, Await(w, t) PROVE ReadersOk(log', broken'.ever, call')
        BY <2>9, Unseen DEF Await
  <2>10. ASSUME UNCHANGED vars PROVE ReadersOk(log', broken'.ever, call')
        BY <2>10, Unseen DEF vars
  <2> QED BY <2>1, <2>2, <2>3, <2>4, <2>5, <2>6, <2>7, <2>8, <2>9, <2>10, Zenon DEF Next
<1> QED BY <1>1, <1>2, <1>3, <1>4 DEF ReadsOk

(* The branches the model starts from, with nobody reading or waiting.      *)
LEMMA InitReads == Init => ReadsOk
<1> SUFFICES ASSUME Init PROVE ReadsOk
    OBVIOUS
<1>1. left \in [writes : Nat, asks : Nat, waits : Nat, breaks : Nat, settled : BOOLEAN]
    BY ResolveAssumption DEF Init
<1>2. LeftOk
  <2>1. PICK b \in Budgets : b = left
        BY DEF Init
  <2>2. /\ b = [writes |-> b.writes, asks |-> b.asks, waits |-> b.waits,
                breaks |-> b.breaks, settled |-> b.settled]
        /\ b.writes \in 0..b.writes /\ b.asks \in 0..b.asks
        /\ b.waits \in 0..b.waits /\ b.breaks \in 0..b.breaks
        BY <1>1, <2>1
  <2> QED BY <2>1, <2>2 DEF LeftOk
<1>3. BrokenOk
    BY DEF Init, BrokenOk
<1>4. WaitsOk
  <2>1. WaitOk(NoWait)
        BY DEF NoWait, WaitOk, WaitStates
  <2> QED BY <2>1 DEF Init, WaitsOk
<1>5. ReadersOk(log, broken.ever, call)
  <2>1. /\ IsCall(NoCall) /\ NoCall.at = "none" /\ NoCall.answer = None /\ NoCall.calm = FALSE
        BY DEF NoCall, IsCall
  <2>2. CallTyped(log, NoCall)
        BY <2>1 DEF CallTyped, CallStates
  <2>3. PaysOk(log, NoCall)
        BY <2>1 DEF PaysOk
  <2>4. ReadOk(log, broken.ever, NoCall)
        BY <2>2, <2>3 DEF ReadOk
  <2>5. call = [r \in Reader |-> NoCall]
        BY DEF Init
  <2> QED BY <2>4, <2>5 DEF ReadersOk
<1>6. LogTyped(log) /\ MarkTyped(log, mark)
  <2>1. CASE left.settled
    <3>1. PICK n : n = Cardinality(Source)
          OBVIOUS
    <3>2. /\ n \in Nat /\ Len(SettledLog) = n + 1
          /\ \A i \in 1..n : SettledLog[i] = ClientLayer(i)
          /\ SettledLog[n + 1] = EngineLayer(n)
          BY <3>1, SettledLogIs
    <3>3. LogOk(SettledLog) /\ TopOf(SettledLog) = n + 1
          BY <3>1, SettledIsSound
    <3>4. \A i \in 1..Len(SettledLog) : SettledLog[i].reflects \in 0..i
      <4> SUFFICES ASSUME NEW i \in 1..Len(SettledLog) PROVE SettledLog[i].reflects \in 0..i
          OBVIOUS
      <4>1. CASE i \in 1..n
        <5>1. \A j : ClientLayer(j).reflects = 0
              BY DEF ClientLayer
        <5> QED BY <3>2, <4>1, <5>1
      <4>2. CASE i = n + 1
            BY <3>2, <4>2 DEF EngineLayer
      <4> QED BY <3>2, <4>1, <4>2
    <3>5. LogTyped(SettledLog)
          BY <3>3, <3>4 DEF LogTyped
    <3>6. log = SettledLog
          BY <2>1 DEF Init
    <3>7. mark = [p \in Derived |-> n]
      <4>1. mark = [p \in Derived |-> Len(log) - 1]
            BY <2>1 DEF Init
      <4>2. Len(log) - 1 = n
            BY <3>2, <3>6
      <4> QED BY <4>1, <4>2
    <3>8. MarkTyped(SettledLog, mark)
          BY <3>2, <3>3, <3>7 DEF MarkTyped
    <3> QED BY <3>5, <3>6, <3>8
  <2>2. CASE ~left.settled
    <3>1. log = <<>> /\ mark = [p \in Derived |-> 0]
          BY <2>2 DEF Init
    <3>2. LogOk(<<>>)
          BY EmptyIsSound
    <3>3. LogTyped(<<>>)
      <4>1. \A i : i \notin 1..Len(<<>>)
            OBVIOUS
      <4> QED BY <3>2, <4>1 DEF LogTyped
    <3>4. TopOf(<<>>) \in Nat
          BY <3>2, TopIs
    <3>5. MarkTyped(<<>>, mark)
          BY <3>1, <3>4 DEF MarkTyped
    <3> QED BY <3>1, <3>3, <3>5
  <2> QED BY <2>1, <2>2
<1>7. RoundTyped(log, round)
  <2>1. TopOf(log) \in Nat
        BY <1>6, TopIs DEF LogTyped
  <2>2. round = NoRound
        BY DEF Init
  <2> QED BY <2>1, <2>2 DEF RoundTyped, NoRound
<1> QED BY <1>2, <1>3, <1>4, <1>5, <1>6, <1>7 DEF ReadsOk

(* The invariant has the types and what a reader is promised.               *)
LEMMA ReadsOkShows == ReadsOk => ReadsInv
<1> SUFFICES ASSUME ReadsOk PROVE ReadsInv
    OBVIOUS
<1>1. ASSUME NEW i \in DOMAIN log
      PROVE  /\ log[i].by \in {"client", "engine"}
             /\ log[i].state \in {"open", "committed", "aborted"}
             /\ DOMAIN log[i].cells \subseteq Cell /\ log[i].reflects \in 0..i
  <2>1. LogTyped(log) /\ log = [j \in 1..Len(log) |-> log[j]]
        BY DEF ReadsOk, LogTyped, LogOk
  <2>2. i \in 1..Len(log)
        BY <2>1
  <2>3. LayerOk(log, i) /\ log[i].reflects \in 0..i
        BY <2>1, <2>2 DEF LogTyped, LogOk
  <2>4. CASE log[i].by = "client"
        BY <2>3, <2>4 DEF LayerOk, Cell
  <2>5. CASE log[i].by # "client"
        BY <2>3, <2>5 DEF LayerOk, Cell
  <2> QED BY <2>4, <2>5
<1>2. mark \in [Derived -> Nat] /\ \A p \in Derived : mark[p] <= Top
    BY OfTheLog DEF ReadsOk, MarkTyped
<1>3. broken.now \subseteq Derived /\ broken.ever \in BOOLEAN
    BY DEF ReadsOk, BrokenOk
<1>4. \E b \in Budgets : \A k \in DOMAIN b \ {"settled"} : left[k] \in 0..b[k]
  <2>1. PICK b \in Budgets :
           /\ left.writes \in 0..b.writes /\ left.asks \in 0..b.asks
           /\ left.waits \in 0..b.waits /\ left.breaks \in 0..b.breaks
        BY DEF ReadsOk, LeftOk
  <2>2. b \in [writes : Nat, asks : Nat, waits : Nat, breaks : Nat, settled : BOOLEAN]
        BY ResolveAssumption
  <2>3. DOMAIN b = {"writes", "asks", "waits", "breaks", "settled"}
        BY <2>2
  <2> QED BY <2>1, <2>3
<1>5. round.phase \in {"idle", "forked", "landed"}
    BY DEF ReadsOk, RoundTyped
<1>6. \A r \in Reader : CallTyped(log, call[r]) /\ (~broken.ever => PaysOk(log, call[r]))
    BY DEF ReadsOk, ReadersOk, ReadOk
<1>7. \A r \in Reader : call[r].at \in {"none", "ask", "check", "compute", "run", "look",
                                        "validate", "judge"}
    BY <1>6 DEF CallTyped, CallStates
<1>8. \A w \in Waiter : wait[w].at \in {"none", "arm", "check", "unmet", "asleep", "done"}
    BY DEF ReadsOk, WaitsOk, WaitOk, WaitStates
<1>9. TypeOK
    BY <1>1, <1>2, <1>3, <1>4, <1>5, <1>7, <1>8, Zenon DEF TypeOK
<1>10. CurrentPays
    BY <1>6 DEF CurrentPays, PaysOk, Wants
<1> QED BY <1>9, <1>10 DEF ReadsInv

(* Every step leaves the types as they are, and a client that asked for the  *)
(* current value of a branch none of whose producers broke gets it, unless   *)
(* somebody wrote or landed something meanwhile; whether or not the engine   *)
(* lands while clients' layers are open (resolve, refresh, run_now,          *)
(* validate).                                                                *)
THEOREM AskingPays == Spec => []ReadsInv
<1>1. Init => ReadsOk
    BY InitReads
<1>2. ReadsOk /\ [Next]_vars => ReadsOk'
    BY ReadsKeep
<1>3. ReadsOk => ReadsInv
    BY ReadsOkShows
<1> QED BY <1>1, <1>2, <1>3, PTL DEF Spec
=============================================================================
