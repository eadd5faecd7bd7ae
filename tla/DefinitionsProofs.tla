-------------------------- MODULE DefinitionsProofs --------------------------
(***************************************************************************)
(* What pushes, forks, merges and migrations keep of the definitions, for  *)
(* any number of fields, names, types, repos and layers.                   *)
(*                                                                         *)
(* The views of a branch are a fold over its read path, and a layer's own  *)
(* events a fold over a set. Both folds are unfolded first, to induction   *)
(* over numbers; then one event is taken apart (JoinedIs), and what it     *)
(* keeps is carried up to a layer, to a path and to a log.                 *)
(***************************************************************************)
EXTENDS Definitions, FiniteSetTheorems, WellFoundedInduction, TLAPS

---------------------------------------------------------------------------
(* Numbers                                                                 *)

(* A set of numbers has a least one.                                       *)
LEMMA LeastNumber ==
    ASSUME NEW S, S \subseteq Nat, S # {}
    PROVE  \E m \in S : \A k \in S : m <= k
<1> DEFINE Below == {pair \in Nat \X Nat : pair[1] < pair[2]}
<1>1. IsWellFoundedOn(Below, Nat)
    BY NatLessThanWellFounded, Zenon DEF OpToRel
<1>2. \A k, m \in Nat : k < m => <<k, m>> \in Below
    OBVIOUS
<1> HIDE DEF Below
<1>3. PICK m \in S : \A k \in S : ~ (<<k, m>> \in Below)
    BY <1>1, WFMin, Zenon
<1>4. \A k \in S : ~ (k < m)
    BY <1>2, <1>3
<1>5. \A k \in S : m <= k
    BY <1>4
<1> QED BY <1>5

(* A set that holds zero, and with a number the next, holds them all.      *)
LEMMA EveryNumber ==
    ASSUME NEW S, 0 \in S, \A n \in Nat : n \in S => n + 1 \in S
    PROVE  Nat \subseteq S
<1> DEFINE Left == Nat \ S
<1>1. SUFFICES ASSUME Left # {} PROVE FALSE
    OBVIOUS
<1>2. PICK m \in Left : \A k \in Left : m <= k
    BY <1>1, LeastNumber
<1>3. m \in Nat /\ m # 0 /\ m \notin S
    BY <1>2
<1>4. m - 1 \in Nat /\ m = (m - 1) + 1 /\ ~(m <= m - 1)
    BY <1>3
<1>5. m - 1 \in S
    BY <1>2, <1>4
<1>6. (m - 1) + 1 \in S
    BY <1>4, <1>5
<1> QED BY <1>3, <1>4, <1>6

(* The highest of a set of numbers under a bound.                          *)
LEMMA MaxIs ==
    ASSUME NEW n \in Nat, NEW S, S \subseteq 0..n, S # {}
    PROVE  Max(S) \in S /\ \A k \in S : k <= Max(S)
<1> DEFINE Over == {m \in Nat : \A k \in S : k <= m}
<1>1. n \in Over
    OBVIOUS
<1>2. PICK m \in Over : \A k \in Over : m <= k
    BY <1>1, LeastNumber
<1>3. m \in S
  <2>1. SUFFICES ASSUME m \notin S PROVE FALSE
        OBVIOUS
  <2>2. \A k \in S : k < m
        BY <1>2, <2>1
  <2>3. m \in Nat \ {0}
    <3>1. PICK k \in S : TRUE
          OBVIOUS
    <3>2. k \in Nat /\ k < m /\ m \in Nat
          BY <1>2, <2>2, <3>1
    <3> QED BY <3>2
  <2>4. m - 1 \in Over
        BY <2>2, <2>3
  <2> QED BY <1>2, <2>3, <2>4
<1>4. \E x \in S : \A k \in S : x >= k
    BY <1>2, <1>3
<1>5. Max(S) \in S /\ \A k \in S : Max(S) >= k
    BY <1>4, Zenon DEF Max
<1> QED BY <1>5

\* The lowest of a set of numbers.
LEMMA MinIs ==
    ASSUME NEW S, S \subseteq Nat, S # {}
    PROVE  Min(S) \in S /\ \A k \in S : Min(S) <= k
<1>1. \E x \in S : \A k \in S : x <= k
    BY LeastNumber
<1> QED BY <1>1, Zenon DEF Min

---------------------------------------------------------------------------
(* Folding the events of a layer                                           *)

\* One event, as FoldLayer takes it.
Joined(v, e, at) == IF ~v.ok \/ Refused(v, e) THEN [v EXCEPT !.ok = FALSE] ELSE Applied(v, e, at)

\* One step of FoldLayer, given what f says of fewer events.
FoldStep(f, view, at, s) ==
    IF s = {} THEN view
    ELSE LET e == CHOOSE e \in s : TRUE IN Joined(f[s \ {e}], e, at)

(* The events of a layer come to an end.                                   *)
LEMMA FoldEnds ==
    ASSUME NEW view, NEW at, NEW events, IsFiniteSet(events)
    PROVE  \E f : f = [s \in SUBSET events |-> FoldStep(f, view, at, s)]
<1> DEFINE Small(n) == {s \in SUBSET events : Cardinality(s) <= n}
           Far == {n \in Nat : \E f : f = [s \in Small(n) |-> FoldStep(f, view, at, s)]}
<1>0. \A s \in SUBSET events : IsFiniteSet(s) /\ Cardinality(s) \in Nat
    BY FS_Subset, FS_CardinalityType
<1>1. 0 \in Far
  <2>1. \A s \in Small(0) : s = {}
        BY <1>0, FS_EmptySet
  <2> DEFINE f == [s \in Small(0) |-> view]
  <2>2. \A s \in Small(0) : f[s] = FoldStep(f, view, at, s)
        BY <2>1 DEF FoldStep
  <2>3. f = [s \in Small(0) |-> FoldStep(f, view, at, s)]
        BY <2>2
  <2> QED BY <2>3
<1>2. ASSUME NEW n \in Nat, n \in Far PROVE n + 1 \in Far
  <2>1. PICK f : f = [s \in Small(n) |-> FoldStep(f, view, at, s)]
        BY <1>2
  <2> DEFINE g == [s \in Small(n + 1) |-> FoldStep(f, view, at, s)]
             h == [s \in Small(n) |-> FoldStep(f, view, at, s)]
  <2>2. \A s \in Small(n) : f[s] = FoldStep(f, view, at, s)
    <3>1. \A s \in Small(n) : h[s] = FoldStep(f, view, at, s)
          OBVIOUS
    <3>2. f = h
          BY <2>1
    <3> HIDE DEF h
    <3> QED BY <3>1, <3>2, Zenon
  <2>3. Small(n) \subseteq Small(n + 1)
        BY <1>0
  <2>4. \A s \in Small(n + 1) : g[s] = FoldStep(f, view, at, s)
        OBVIOUS
  <2>5. \A s \in Small(n) : g[s] = f[s]
        BY <2>2, <2>3, <2>4
  <2>6. ASSUME NEW s \in Small(n + 1), s # {}, NEW e \in s PROVE s \ {e} \in Small(n)
    <3>1. Cardinality(s \ {e}) = Cardinality(s) - 1
          BY <1>0, <2>6, FS_RemoveElement
    <3> QED BY <1>0, <3>1
  <2>7. g = [s \in Small(n + 1) |-> FoldStep(f, view, at, s)]
        OBVIOUS
  <2> HIDE DEF g, Small
  <2>8. ASSUME NEW s \in Small(n + 1) PROVE FoldStep(f, view, at, s) = FoldStep(g, view, at, s)
    <3>1. s # {} => s \ {CHOOSE e \in s : TRUE} \in Small(n)
          BY <2>6
    <3> QED BY <2>5, <3>1 DEF FoldStep
  <2>9. g = [s \in Small(n + 1) |-> FoldStep(g, view, at, s)]
        BY <2>7, <2>8
  <2> QED BY <2>9
<1>3. Cardinality(events) \in Nat
    BY <1>0
<1> HIDE DEF Far
<1>4. Cardinality(events) \in Far
    BY <1>1, <1>2, <1>3, EveryNumber
<1>5. \A s \in SUBSET events : Cardinality(s) <= Cardinality(events)
    BY FS_Subset
<1>6. Small(Cardinality(events)) = SUBSET events
    BY <1>5
<1> HIDE DEF Small
<1>7. \E f : f = [s \in Small(Cardinality(events)) |-> FoldStep(f, view, at, s)]
    BY <1>4 DEF Far
<1> QED BY <1>6, <1>7

(* What holds of two views and stays so through every event holds when all  *)
(* have been taken: they are taken in the same order.                       *)
LEMMA FoldTwice ==
    ASSUME NEW v, NEW a, NEW w, NEW b, NEW events, IsFiniteSet(events),
           NEW S, <<v, w>> \in S,
           \A x, y : <<x, y>> \in S => \A e \in events : <<Joined(x, e, a), Joined(y, e, b)>> \in S
    PROVE  <<FoldLayer(v, events, a), FoldLayer(w, events, b)>> \in S
<1> DEFINE f == CHOOSE f : f = [s \in SUBSET events |-> FoldStep(f, v, a, s)]
           g == CHOOSE g : g = [s \in SUBSET events |-> FoldStep(g, w, b, s)]
           Far == {n \in Nat : \A s \in SUBSET events : Cardinality(s) = n => <<f[s], g[s]>> \in S}
<1>0. FoldLayer(v, events, a) = f[events] /\ FoldLayer(w, events, b) = g[events]
    BY Zenon DEF FoldLayer, FoldSet, MapThenFoldSet, FoldStep, Joined
<1>1. \A s \in SUBSET events : f[s] = FoldStep(f, v, a, s)
  <2>1. f = [s \in SUBSET events |-> FoldStep(f, v, a, s)]
        BY FoldEnds
  <2> HIDE DEF f
  <2> DEFINE h == [s \in SUBSET events |-> FoldStep(f, v, a, s)]
  <2>2. \A s \in SUBSET events : h[s] = FoldStep(f, v, a, s)
        OBVIOUS
  <2>3. f = h
        BY <2>1
  <2> HIDE DEF h
  <2> QED BY <2>2, <2>3, Zenon
<1>2. \A s \in SUBSET events : g[s] = FoldStep(g, w, b, s)
  <2>1. g = [s \in SUBSET events |-> FoldStep(g, w, b, s)]
        BY FoldEnds
  <2> HIDE DEF g
  <2> DEFINE h == [s \in SUBSET events |-> FoldStep(g, w, b, s)]
  <2>2. \A s \in SUBSET events : h[s] = FoldStep(g, w, b, s)
        OBVIOUS
  <2>3. g = h
        BY <2>1
  <2> HIDE DEF h
  <2> QED BY <2>2, <2>3, Zenon
<1> HIDE DEF f, g
<1>3. \A s \in SUBSET events : IsFiniteSet(s) /\ Cardinality(s) \in Nat
    BY FS_Subset, FS_CardinalityType
<1>4. 0 \in Far
  <2>1. ASSUME NEW s \in SUBSET events, Cardinality(s) = 0 PROVE <<f[s], g[s]>> \in S
    <3>1. s = {}
          BY <1>3, <2>1, FS_EmptySet
    <3>2. f[s] = v /\ g[s] = w
          BY <1>1, <1>2, <3>1 DEF FoldStep
    <3> QED BY <3>2
  <2> QED BY <2>1
<1>5. ASSUME NEW n \in Nat, n \in Far PROVE n + 1 \in Far
  <2>1. ASSUME NEW s \in SUBSET events, Cardinality(s) = n + 1 PROVE <<f[s], g[s]>> \in S
    <3>1. s # {}
          BY <1>3, <2>1, FS_EmptySet
    <3> DEFINE e == CHOOSE e \in s : TRUE
    <3>2. e \in s
          BY <3>1
    <3>3. f[s] = Joined(f[s \ {e}], e, a) /\ g[s] = Joined(g[s \ {e}], e, b)
          BY <1>1, <1>2, <3>1 DEF FoldStep
    <3> HIDE DEF e
    <3>4. s \ {e} \in SUBSET events /\ Cardinality(s \ {e}) = n
          BY <1>3, <2>1, <3>2, FS_RemoveElement
    <3>5. <<f[s \ {e}], g[s \ {e}]>> \in S
          BY <1>5, <3>4
    <3> QED BY <3>2, <3>3, <3>5
  <2> QED BY <2>1
<1> HIDE DEF Far
<1>6. Cardinality(events) \in Far
    BY <1>3, <1>4, <1>5, EveryNumber
<1>7. <<f[events], g[events]>> \in S
    BY <1>6 DEF Far
<1> QED BY <1>0, <1>7

(* And of one.                                                              *)
LEMMA FoldKeeps ==
    ASSUME NEW v, NEW a, NEW events, IsFiniteSet(events), NEW S, v \in S,
           \A x \in S : \A e \in events : Joined(x, e, a) \in S
    PROVE  FoldLayer(v, events, a) \in S
<1> DEFINE T == {<<x, x>> : x \in S}
<1>1. <<v, v>> \in T
    OBVIOUS
<1>2. \A x, y : <<x, y>> \in T => x \in S /\ y = x
    OBVIOUS
<1>3. \A x, y : <<x, y>> \in T => \A e \in events : <<Joined(x, e, a), Joined(y, e, a)>> \in T
  <2>1. \A x, y : <<x, y>> \in T => \A e \in events : Joined(x, e, a) \in S /\ y = x
        BY <1>2
  <2> QED BY <2>1
<1> HIDE DEF T
<1>4. <<FoldLayer(v, events, a), FoldLayer(v, events, a)>> \in T
    BY <1>1, <1>3, FoldTwice
<1> QED BY <1>2, <1>4

(* A layer without events changes nothing, and one with an event takes it.  *)
LEMMA FoldFew ==
    ASSUME NEW v, NEW a
    PROVE  FoldLayer(v, {}, a) = v /\ \A e : FoldLayer(v, {e}, a) = Joined(v, e, a)
<1>1. FoldLayer(v, {}, a) = v
  <2>1. v \in {v} /\ IsFiniteSet({})
        BY FS_EmptySet
  <2>2. FoldLayer(v, {}, a) \in {v}
        BY <2>1, FoldKeeps
  <2> QED BY <2>2
<1>2. ASSUME NEW e PROVE FoldLayer(v, {e}, a) = Joined(v, e, a)
  <2> DEFINE f == CHOOSE f : f = [s \in SUBSET {e} |-> FoldStep(f, v, a, s)]
  <2>0. IsFiniteSet({e})
        BY FS_Singleton
  <2>1. FoldLayer(v, {e}, a) = f[{e}]
        BY Zenon DEF FoldLayer, FoldSet, MapThenFoldSet, FoldStep, Joined
  <2>2. f = [s \in SUBSET {e} |-> FoldStep(f, v, a, s)]
        BY <2>0, FoldEnds
  <2> HIDE DEF f
  <2>3. \A s \in SUBSET {e} : f[s] = FoldStep(f, v, a, s)
    <3> DEFINE h == [s \in SUBSET {e} |-> FoldStep(f, v, a, s)]
    <3>1. \A s \in SUBSET {e} : h[s] = FoldStep(f, v, a, s)
          OBVIOUS
    <3>2. f = h
          BY <2>2
    <3> HIDE DEF h
    <3> QED BY <3>1, <3>2, Zenon
  <2>4. f[{}] = v /\ {} \in SUBSET {e} /\ {e} \in SUBSET {e} /\ {e} # {}
        BY <2>3 DEF FoldStep
  <2>5. (CHOOSE x \in {e} : TRUE) = e /\ {e} \ {e} = {}
        OBVIOUS
  <2>6. f[{e}] = Joined(f[{}], e, a)
        BY <2>3, <2>4, <2>5 DEF FoldStep
  <2> QED BY <2>1, <2>4, <2>6
<1> QED BY <1>1, <1>2

---------------------------------------------------------------------------
(* Views and events, by type                                               *)

\* None is no name, no owner, no branch and no role.
LEMMA NothingIsNone ==
    /\ None \notin Name /\ None # Source /\ None \notin Branch
    /\ None # "up" /\ None # "down" /\ None # "pipeline"
BY DefinitionsAssumption DEF DefinitionsAssumption, Owner

\* What RepoPush says of producers, besides what a hand may push.
DefEvent ==
    ByHand
    \cup [kind : {"producer"}, name : Name, role : {"pipeline"}, field : {None}, repo : Repo,
          print : Code \cup {None}]
    \cup [kind : {"producer"}, name : Name, role : {"up", "down"}, field : Field, repo : Repo,
          print : Code \cup {None}]

FieldDef == [type : Type \cup {None}, repo : Repo \cup {None}, owner : Owner \cup {None},
             version : Nat]
Hop == [from : Nat, to : Nat, up : Name, down : Name \cup {None}]
Making == [role : {"up", "down"}, field : Field, repo : Repo \cup {None},
           print : Code \cup {None}, version : Nat]
     \cup [role : {"pipeline", None}, field : Field \cup {None}, repo : Repo \cup {None},
           print : Code \cup {None}, version : Nat]

ViewType == [ok : BOOLEAN, fields : [Field -> FieldDef], chains : [Field -> Seq(Hop)],
             producers : [Name -> Making]]

\* The view of no events is a view.
LEMMA EmptyViewTyped == EmptyView \in ViewType
<1>1. NoField \in FieldDef /\ NoProducer \in Making
    BY DEF NoField, NoProducer, FieldDef, Making
<1> HIDE DEF NoField, NoProducer
<1>2. <<>> \in Seq(Hop)
    OBVIOUS
<1> QED BY <1>1, <1>2 DEF EmptyView, ViewType

\* Everything but whether the view stands.
SameBut(x, y) == y.fields = x.fields /\ y.chains = x.chains /\ y.producers = x.producers

\* What each kind of event does.
Declares(x, e, at, y) ==
    /\ y.ok /\ y.chains = x.chains /\ y.producers = x.producers
    /\ \A g \in Field :
          y.fields[g] = IF g = e.field
                        THEN [type |-> e.type, repo |-> e.repo, owner |-> e.owner, version |-> at]
                        ELSE x.fields[g]

Mutates(x, e, at, y) ==
    /\ y.ok /\ y.producers = x.producers
    /\ \A g \in Field \ {e.field} : y.fields[g] = x.fields[g] /\ y.chains[g] = x.chains[g]
    /\ y.fields[e.field] = [type |-> e.type, repo |-> x.fields[e.field].repo,
                            owner |-> x.fields[e.field].owner, version |-> at]
    /\ y.chains[e.field] = Append(x.chains[e.field],
                                  [from |-> x.fields[e.field].version, to |-> at,
                                   up |-> e.up, down |-> e.down])

Deletes(x, e, y) ==
    /\ y.ok /\ y.chains = x.chains /\ y.producers = x.producers
    /\ \A g \in Field : y.fields[g] = IF g = e.field THEN NoField ELSE x.fields[g]

Produces(x, e, at, y) ==
    /\ y.ok /\ y.fields = x.fields /\ y.chains = x.chains
    /\ \A n \in Name :
          y.producers[n] = IF n = e.name
                           THEN [role |-> e.role, field |-> e.field, repo |-> e.repo,
                                 print |-> e.print, version |-> at]
                           ELSE x.producers[n]

\* What an event says, by its kind.
LEMMA EventKinds ==
    ASSUME NEW e \in DefEvent
    PROVE  /\ e.kind \in {"declare", "mutate", "delete", "producer"}
           /\ e.kind # "producer" => e.field \in Field /\ e.repo \in Repo
           /\ e.kind = "declare" => e.type \in Type /\ e.owner \in Owner
           /\ e.kind = "mutate" => e.type \in Type /\ e.up \in Name /\ e.down \in Name \cup {None}
           /\ e.kind = "producer" => /\ e.name \in Name /\ e.role \in {"pipeline", "up", "down"}
                                     /\ e.role # "pipeline" => e.field \in Field
                                     /\ e.field \in Field \cup {None} /\ e.repo \in Repo
                                     /\ e.print \in Code \cup {None}
BY DEF DefEvent, ByHand

(* A definition of another type and version.                               *)
LEMMA Retyped ==
    ASSUME NEW r \in FieldDef, NEW t, NEW v
    PROVE  [[r EXCEPT !.type = t] EXCEPT !.version = v] =
               [type |-> t, repo |-> r.repo, owner |-> r.owner, version |-> v]
<1>1. r = [type |-> r.type, repo |-> r.repo, owner |-> r.owner, version |-> r.version]
    BY DEF FieldDef
<1> DEFINE m == [r EXCEPT !.type = t]
<1>2. m = [type |-> t, repo |-> r.repo, owner |-> r.owner, version |-> r.version]
    BY <1>1
<1>3. \A p, o, w : [[type |-> t, repo |-> p, owner |-> o, version |-> w] EXCEPT !.version = v]
                      = [type |-> t, repo |-> p, owner |-> o, version |-> v]
    OBVIOUS
<1> HIDE DEF m
<1>4. [m EXCEPT !.version = v] = [type |-> t, repo |-> r.repo, owner |-> r.owner, version |-> v]
    BY <1>2, <1>3
<1> QED BY <1>4 DEF m

(* What an event does to a view, case by case.                             *)
LEMMA JoinedIs ==
    ASSUME NEW x \in ViewType, NEW e \in DefEvent, NEW at \in Nat, NEW y, y = Joined(x, e, at)
    PROVE  /\ y \in ViewType
           /\ \/ ~y.ok /\ SameBut(x, y) /\ (~x.ok \/ Refused(x, e))
              \/ /\ x.ok /\ ~Refused(x, e) /\ e.kind = "declare"
                 /\ x.fields[e.field].version # 0 /\ y = x
              \/ /\ x.ok /\ ~Refused(x, e) /\ e.kind = "declare"
                 /\ x.fields[e.field].version = 0 /\ Declares(x, e, at, y)
              \/ x.ok /\ ~Refused(x, e) /\ e.kind = "mutate" /\ Mutates(x, e, at, y)
              \/ x.ok /\ ~Refused(x, e) /\ e.kind = "delete" /\ Deletes(x, e, y)
              \/ x.ok /\ ~Refused(x, e) /\ e.kind = "producer" /\ Produces(x, e, at, y)
<1>0. e.kind \in {"declare", "mutate", "delete", "producer"}
    BY EventKinds
<1>1. CASE ~x.ok \/ Refused(x, e)
  <2>1. y = [x EXCEPT !.ok = FALSE]
        BY <1>1 DEF Joined
  <2>2. y \in ViewType /\ ~y.ok /\ SameBut(x, y)
        BY <2>1 DEF ViewType, SameBut
  <2> QED BY <1>1, <2>2
<1>2. ASSUME x.ok, ~Refused(x, e), y = Applied(x, e, at), e.kind = "declare"
      PROVE  /\ y \in ViewType
             /\ \/ x.fields[e.field].version # 0 /\ y = x
                \/ x.fields[e.field].version = 0 /\ Declares(x, e, at, y)
  <2>1. e.field \in Field
        BY <1>2, EventKinds
  <2> DEFINE r == [type |-> e.type, repo |-> e.repo, owner |-> e.owner, version |-> at]
  <2>2. r \in FieldDef
        BY <1>2, EventKinds DEF FieldDef
  <2>3. y = IF x.fields[e.field].version # 0 THEN x ELSE [x EXCEPT !.fields[e.field] = r]
        BY <1>2 DEF Applied
  <2>6. x.fields[e.field].version = 0 => y.ok = x.ok
        BY <2>3 DEF ViewType
  <2>4. x.fields[e.field].version = 0 => Declares(x, e, at, y)
    <3>1. \A g \in Field : [x.fields EXCEPT ![e.field] = r][g] = IF g = e.field THEN r ELSE x.fields[g]
          BY <2>1 DEF ViewType
    <3> QED BY <1>2, <2>1, <2>3, <3>1 DEF ViewType, Declares
  <2> HIDE DEF r
  <2>5. [x EXCEPT !.fields[e.field] = r] \in ViewType
        BY <2>1, <2>2 DEF ViewType
  <2> QED BY <2>3, <2>4, <2>5
<1>3. ASSUME x.ok, ~Refused(x, e), y = Applied(x, e, at), e.kind = "mutate"
      PROVE  y \in ViewType /\ Mutates(x, e, at, y)
  <2>1. e.field \in Field /\ x.fields[e.field] \in FieldDef /\ x.chains[e.field] \in Seq(Hop)
        BY <1>3, EventKinds DEF ViewType
  <2> DEFINE s == [from |-> x.fields[e.field].version, to |-> at, up |-> e.up, down |-> e.down]
             r == [[x.fields[e.field] EXCEPT !.type = e.type] EXCEPT !.version = at]
             c == Append(x.chains[e.field], s)
  <2>2. s \in Hop
        BY <1>3, <2>1, EventKinds DEF FieldDef, Hop
  <2>3. r \in FieldDef
        BY <1>3, <2>1, EventKinds DEF FieldDef
  <2>4. r = [type |-> e.type, repo |-> x.fields[e.field].repo,
             owner |-> x.fields[e.field].owner, version |-> at]
        BY <2>1, Retyped
  <2>5. /\ y.ok = x.ok /\ y.producers = x.producers
        /\ y.chains = [x.chains EXCEPT ![e.field] = c]
        /\ y.fields = [x.fields EXCEPT ![e.field] = r]
        /\ y = [ok |-> x.ok, fields |-> y.fields, chains |-> y.chains, producers |-> x.producers]
    <3>1. PICK k, f, cs, ps : x = [ok |-> k, fields |-> f, chains |-> cs, producers |-> ps]
          BY DEF ViewType
    <3>2. f \in [Field -> FieldDef] /\ cs \in [Field -> Seq(Hop)]
          BY <3>1 DEF ViewType
    <3>3. y = [[[x EXCEPT !.chains[e.field] = c]
                     EXCEPT !.fields[e.field].type = e.type]
                     EXCEPT !.fields[e.field].version = at]
          BY <1>3, Zenon DEF Applied
    <3>4. [x EXCEPT !.chains[e.field] = c] =
             [ok |-> k, fields |-> f, chains |-> [cs EXCEPT ![e.field] = c], producers |-> ps]
      <4> HIDE DEF c
      <4> QED BY <3>1
    <3>5. [[x EXCEPT !.chains[e.field] = c] EXCEPT !.fields[e.field].type = e.type] =
             [ok |-> k, fields |-> [f EXCEPT ![e.field].type = e.type],
              chains |-> [cs EXCEPT ![e.field] = c], producers |-> ps]
      <4> HIDE DEF c
      <4> DEFINE cc == [cs EXCEPT ![e.field] = c]
      <4> HIDE DEF cc
      <4>1. [[ok |-> k, fields |-> f, chains |-> cc, producers |-> ps] EXCEPT !.fields[e.field].type = e.type]
              = [ok |-> k, fields |-> [f EXCEPT ![e.field].type = e.type], chains |-> cc, producers |-> ps]
            OBVIOUS
      <4> QED BY <3>4, <4>1 DEF cc
    <3>6. y = [ok |-> k, fields |-> [[f EXCEPT ![e.field].type = e.type] EXCEPT ![e.field].version = at],
               chains |-> [cs EXCEPT ![e.field] = c], producers |-> ps]
      <4> HIDE DEF c
      <4> QED BY <3>3, <3>5, ZenonT(60)
    <3>7. [[f EXCEPT ![e.field].type = e.type] EXCEPT ![e.field].version = at]
             = [f EXCEPT ![e.field] = r]
          BY <2>1, <3>1, <3>2
    <3> DEFINE cc == [cs EXCEPT ![e.field] = c]
               ff == [f EXCEPT ![e.field] = r]
    <3>8. y = [ok |-> k, fields |-> ff, chains |-> cc, producers |-> ps]
          BY <3>6, <3>7
    <3>9. x.ok = k /\ x.fields = f /\ x.chains = cs /\ x.producers = ps
          BY <3>1
    <3> HIDE DEF cc, ff
    <3>10. y.ok = k /\ y.fields = ff /\ y.chains = cc /\ y.producers = ps
          BY <3>8
    <3> QED BY <3>8, <3>9, <3>10 DEF cc, ff
  <2>6. c \in Seq(Hop)
        BY <2>1, <2>2
  <2> HIDE DEF s, r, c
  <2>7. y \in ViewType
        BY <2>1, <2>3, <2>5, <2>6 DEF ViewType
  <2>8. /\ \A g \in Field \ {e.field} : y.fields[g] = x.fields[g] /\ y.chains[g] = x.chains[g]
        /\ y.fields[e.field] = r /\ y.chains[e.field] = c
        BY <2>1, <2>5 DEF ViewType
  <2> QED BY <1>3, <2>4, <2>5, <2>7, <2>8 DEF Mutates, s, c
<1>4. ASSUME x.ok, ~Refused(x, e), y = Applied(x, e, at), e.kind = "delete"
      PROVE  y \in ViewType /\ Deletes(x, e, y)
  <2>1. e.field \in Field
        BY <1>4, EventKinds
  <2>2. NoField \in FieldDef
        BY DEF NoField, FieldDef
  <2>3. y = [x EXCEPT !.fields[e.field] = NoField]
        BY <1>4 DEF Applied
  <2> HIDE DEF NoField
  <2>4. y \in ViewType
        BY <2>1, <2>2, <2>3 DEF ViewType
  <2>5. \A g \in Field : y.fields[g] = IF g = e.field THEN NoField ELSE x.fields[g]
        BY <2>1, <2>3 DEF ViewType
  <2>6. y.ok = x.ok /\ y.chains = x.chains /\ y.producers = x.producers
        BY <2>3 DEF ViewType
  <2> QED BY <1>4, <2>4, <2>5, <2>6 DEF Deletes
<1>5. ASSUME x.ok, ~Refused(x, e), y = Applied(x, e, at), e.kind = "producer"
      PROVE  y \in ViewType /\ Produces(x, e, at, y)
  <2> DEFINE r == [role |-> e.role, field |-> e.field, repo |-> e.repo, print |-> e.print,
                   version |-> at]
  <2>1. e.name \in Name /\ r \in Making
        BY <1>5, EventKinds DEF Making
  <2>2. y = [x EXCEPT !.producers[e.name] = r]
        BY <1>5 DEF Applied
  <2>3. Produces(x, e, at, y)
    <3> HIDE DEF r
    <3>1. \A n \in Name : y.producers[n] = IF n = e.name THEN r ELSE x.producers[n]
          BY <2>1, <2>2 DEF ViewType
    <3>2. y.ok = x.ok /\ y.chains = x.chains /\ y.fields = x.fields
          BY <2>2 DEF ViewType
    <3> QED BY <1>5, <3>1, <3>2 DEF Produces, r
  <2> HIDE DEF r
  <2>4. y \in ViewType
        BY <2>1, <2>2 DEF ViewType
  <2> QED BY <2>3, <2>4
<1>6. x.ok /\ ~Refused(x, e) => y = Applied(x, e, at)
    BY DEF Joined
<1> QED BY <1>0, <1>1, <1>2, <1>3, <1>4, <1>5, <1>6

---------------------------------------------------------------------------
(* The views of a branch, and the places of a sequence                      *)

\* The fold of a read path, by what it reads.
ViewStep(f, L, P, i) ==
    IF i = 0 THEN EmptyView
    ELSE IF i \in P THEN FoldLayer(f[i - 1], L[i].events, i)
    ELSE f[i - 1]

ViewsOf(L, P) == CHOOSE f : f = [i \in 0..Len(L) |-> ViewStep(f, L, P, i)]

PathOf(L, fork, b) ==
    {i \in DOMAIN L : L[i].on = b \/ (b = "child" /\ L[i].on = "main" /\ i <= fork)}

Folds(V, L, P) ==
    /\ V[0] = EmptyView
    /\ \A i \in 1..Len(L) : V[i] = IF i \in P THEN FoldLayer(V[i - 1], L[i].events, i) ELSE V[i - 1]

\* A branch's views are the fold of its read path.
LEMMA ViewsAtIs ==
    ASSUME NEW b
    PROVE  ViewsAt(b) = ViewsOf(log, OnPath(b)) /\ OnPath(b) = PathOf(log, forkAt, b)
BY Zenon DEF ViewsAt, ViewsOf, ViewStep, OnPath, PathOf

\* The fold of a read path exists, and is what its equations say.
LEMMA ViewsFoldUp ==
    ASSUME NEW L, NEW P, Len(L) \in Nat
    PROVE  Folds(ViewsOf(L, P), L, P)
<1> DEFINE Far == {n \in Nat : \E f : f = [i \in 0..n |-> ViewStep(f, L, P, i)]}
<1>1. 0 \in Far
  <2> DEFINE f == [i \in 0..0 |-> EmptyView]
  <2>1. \A i \in 0..0 : f[i] = ViewStep(f, L, P, i)
        BY DEF ViewStep
  <2>2. f = [i \in 0..0 |-> ViewStep(f, L, P, i)]
        BY <2>1
  <2> QED BY <2>2
<1>2. ASSUME NEW n \in Nat, n \in Far PROVE n + 1 \in Far
  <2>1. PICK f : f = [i \in 0..n |-> ViewStep(f, L, P, i)]
        BY <1>2
  <2> DEFINE h == [i \in 0..n |-> ViewStep(f, L, P, i)]
             g == [i \in 0..n + 1 |-> ViewStep(f, L, P, i)]
  <2>2. \A i \in 0..n : f[i] = ViewStep(f, L, P, i)
    <3>1. \A i \in 0..n : h[i] = ViewStep(f, L, P, i)
          OBVIOUS
    <3>2. f = h
          BY <2>1
    <3> HIDE DEF h
    <3> QED BY <3>1, <3>2, Zenon
  <2>3. \A i \in 0..n + 1 : g[i] = ViewStep(f, L, P, i)
        OBVIOUS
  <2>4. \A i \in 0..n : g[i] = f[i]
        BY <2>2, <2>3
  <2>5. g = [i \in 0..n + 1 |-> ViewStep(f, L, P, i)]
        OBVIOUS
  <2> HIDE DEF g
  <2>6. \A i \in 0..n + 1 : ViewStep(f, L, P, i) = ViewStep(g, L, P, i)
        BY <2>4 DEF ViewStep
  <2>7. g = [i \in 0..n + 1 |-> ViewStep(g, L, P, i)]
        BY <2>5, <2>6
  <2> QED BY <2>7
<1> HIDE DEF Far
<1>3. Len(L) \in Far
    BY <1>1, <1>2, EveryNumber
<1> DEFINE V == ViewsOf(L, P)
<1>4. V = [i \in 0..Len(L) |-> ViewStep(V, L, P, i)]
    BY <1>3, Zenon DEF Far, ViewsOf
<1> HIDE DEF V
<1> DEFINE h == [i \in 0..Len(L) |-> ViewStep(V, L, P, i)]
<1>5. \A i \in 0..Len(L) : h[i] = ViewStep(V, L, P, i)
    OBVIOUS
<1>6. V = h
    BY <1>4
<1> HIDE DEF h
<1>7. \A i \in 0..Len(L) : V[i] = ViewStep(V, L, P, i)
    BY <1>5, <1>6
<1> SUFFICES Folds(V, L, P)
    BY DEF V
<1> QED BY <1>7 DEF Folds, ViewStep

(* Two folds of the same events agree as far as the events do.             *)
LEMMA FoldsAgree ==
    ASSUME NEW V, NEW L, NEW P, NEW W, NEW M, NEW Q, Folds(V, L, P), Folds(W, M, Q),
           Len(L) \in Nat, Len(M) \in Nat, NEW n \in Nat, n <= Len(L), n <= Len(M),
           \A i \in 1..n : (i \in P <=> i \in Q) /\ (i \in P => L[i].events = M[i].events)
    PROVE  \A i \in 0..n : V[i] = W[i]
<1> DEFINE Far == {i \in Nat : i <= n => V[i] = W[i]}
<1>1. 0 \in Far
    BY DEF Folds
<1>2. ASSUME NEW i \in Nat, i \in Far PROVE i + 1 \in Far
  <2>1. SUFFICES ASSUME i + 1 <= n PROVE V[i + 1] = W[i + 1]
        OBVIOUS
  <2>2. V[i] = W[i] /\ i + 1 \in 1..n /\ i + 1 \in 1..Len(L) /\ i + 1 \in 1..Len(M) /\ i + 1 - 1 = i
        BY <1>2, <2>1
  <2>3. V[i + 1] = IF i + 1 \in P THEN FoldLayer(V[i], L[i + 1].events, i + 1) ELSE V[i]
        BY <2>2 DEF Folds
  <2>4. W[i + 1] = IF i + 1 \in Q THEN FoldLayer(W[i], M[i + 1].events, i + 1) ELSE W[i]
        BY <2>2 DEF Folds
  <2> QED BY <2>2, <2>3, <2>4
<1> HIDE DEF Far
<1>3. Nat \subseteq Far
    BY <1>1, <1>2, EveryNumber
<1> QED BY <1>3 DEF Far

\* The layers of the path after m, and up to n, have no events.
Quiet(L, P, m, n) ==
    /\ Len(L) \in Nat /\ m \in Nat /\ n \in Nat /\ m <= n /\ n <= Len(L)
    /\ \A i \in m + 1..n : i \in P => L[i].events = {}

(* A view changes only where its path has events.                          *)
LEMMA FoldsStay ==
    ASSUME NEW V, NEW L, NEW P, Folds(V, L, P), NEW m, NEW n, Quiet(L, P, m, n)
    PROVE  V[n] = V[m]
<1>0. /\ Len(L) \in Nat /\ m \in Nat /\ n \in Nat /\ m <= n /\ n <= Len(L)
      /\ \A i \in m + 1..n : i \in P => L[i].events = {}
    BY DEF Quiet
<1> DEFINE Far == {i \in Nat : m <= i /\ i <= n => V[i] = V[m]}
<1>1. 0 \in Far
    BY <1>0
<1>2. ASSUME NEW i \in Nat, i \in Far PROVE i + 1 \in Far
  <2>1. SUFFICES ASSUME m <= i + 1, i + 1 <= n, m # i + 1 PROVE V[i + 1] = V[m]
        BY <1>0
  <2>2. V[i] = V[m] /\ i + 1 \in m + 1..n /\ i + 1 \in 1..Len(L) /\ i + 1 - 1 = i
        BY <1>0, <1>2, <2>1
  <2>3. V[i + 1] = IF i + 1 \in P THEN FoldLayer(V[i], L[i + 1].events, i + 1) ELSE V[i]
        BY <2>2 DEF Folds
  <2>4. FoldLayer(V[i], {}, i + 1) = V[i]
        BY FoldFew
  <2> QED BY <1>0, <2>2, <2>3, <2>4
<1> HIDE DEF Far
<1>3. Nat \subseteq Far
    BY <1>1, <1>2, EveryNumber
<1> QED BY <1>0, <1>3 DEF Far

\* One step of Filtered, given what f keeps of the elements before.
FilterStep(f, s, places, n) ==
    IF n = 0 THEN <<>> ELSE IF n \in places THEN Append(f[n - 1], s[n]) ELSE f[n - 1]

\* r is the elements of s at those of its first n places, in their order.
Keeps(r, T, s, places, n) ==
    /\ r \in Seq(T)
    /\ \E ix \in [1..Len(r) -> 1..n] :
          /\ \A i, j \in 1..Len(r) : i < j => ix[i] < ix[j]
          /\ \A i \in 1..Len(r) : r[i] = s[ix[i]]
          /\ \A k \in 1..n : k \in places <=> \E i \in 1..Len(r) : ix[i] = k

\* One more place of the sequence.
LEMMA KeepsMore ==
    ASSUME NEW T, NEW s \in Seq(T), NEW places, NEW n \in Nat, n + 1 <= Len(s), NEW r,
           Keeps(r, T, s, places, n)
    PROVE  /\ n + 1 \in places => Keeps(Append(r, s[n + 1]), T, s, places, n + 1)
           /\ n + 1 \notin places => Keeps(r, T, s, places, n + 1)
<1>1. r \in Seq(T) /\ Len(r) \in Nat
    BY DEF Keeps
<1>2. PICK ix \in [1..Len(r) -> 1..n] :
          /\ \A i, j \in 1..Len(r) : i < j => ix[i] < ix[j]
          /\ \A i \in 1..Len(r) : r[i] = s[ix[i]]
          /\ \A k \in 1..n : k \in places <=> \E i \in 1..Len(r) : ix[i] = k
    BY DEF Keeps
<1>3. ASSUME n + 1 \in places PROVE Keeps(Append(r, s[n + 1]), T, s, places, n + 1)
  <2> DEFINE q == Append(r, s[n + 1])
             jx == [i \in 1..Len(r) + 1 |-> IF i = Len(r) + 1 THEN n + 1 ELSE ix[i]]
  <2>1. q \in Seq(T) /\ Len(q) = Len(r) + 1 /\ q[Len(r) + 1] = s[n + 1]
        /\ \A i \in 1..Len(r) : q[i] = r[i]
        BY <1>1
  <2>2. jx \in [1..Len(q) -> 1..n + 1]
        BY <1>1, <2>1
  <2>3. jx[Len(r) + 1] = n + 1 /\ \A i \in 1..Len(r) : jx[i] = ix[i] /\ ix[i] \in 1..n
        BY <1>1
  <2> HIDE DEF q, jx
  <2>4. ASSUME NEW i \in 1..Len(q), NEW j \in 1..Len(q), i < j PROVE jx[i] < jx[j]
    <3>1. i \in 1..Len(r) /\ jx[i] = ix[i] /\ ix[i] \in 1..n
          BY <1>1, <2>1, <2>3, <2>4
    <3>2. CASE j = Len(r) + 1
          BY <2>3, <3>1, <3>2
    <3>3. CASE j \in 1..Len(r)
          BY <1>2, <2>3, <2>4, <3>1, <3>3
    <3> QED BY <1>1, <2>1, <3>2, <3>3
  <2>5. \A i \in 1..Len(q) : q[i] = s[jx[i]]
        BY <1>1, <1>2, <2>1, <2>3
  <2>6. \A k \in 1..n + 1 : k \in places <=> \E i \in 1..Len(q) : jx[i] = k
    <3>1. ASSUME NEW k \in 1..n PROVE k \in places <=> \E i \in 1..Len(q) : jx[i] = k
      <4>1. \A i \in 1..Len(q) : i \in 1..Len(r) \/ i = Len(r) + 1
            BY <1>1, <2>1
      <4>2. n + 1 # k /\ 1..Len(r) \subseteq 1..Len(q)
            BY <1>1, <2>1
      <4>3. (\E i \in 1..Len(q) : jx[i] = k) <=> \E i \in 1..Len(r) : ix[i] = k
            BY <2>3, <4>1, <4>2
      <4> QED BY <1>2, <4>3
    <3>2. n + 1 \in places /\ Len(r) + 1 \in 1..Len(q)
          BY <1>1, <1>3, <2>1
    <3>3. \A k \in 1..n + 1 : k \in 1..n \/ k = n + 1
          OBVIOUS
    <3> QED BY <2>3, <3>1, <3>2, <3>3
  <2> SUFFICES Keeps(q, T, s, places, n + 1)
      BY DEF q
  <2> QED BY <2>1, <2>2, <2>4, <2>5, <2>6 DEF Keeps
<1>4. ASSUME n + 1 \notin places PROVE Keeps(r, T, s, places, n + 1)
  <2>1. ix \in [1..Len(r) -> 1..n + 1] /\ \A i \in 1..Len(r) : ix[i] \in 1..n /\ ix[i] # n + 1
        OBVIOUS
  <2>2. \A k \in 1..n + 1 : k \in 1..n \/ k = n + 1
        OBVIOUS
  <2>3. \A k \in 1..n + 1 : k \in places <=> \E i \in 1..Len(r) : ix[i] = k
        BY <1>2, <1>4, <2>1, <2>2
  <2> QED BY <1>1, <1>2, <2>1, <2>3 DEF Keeps
<1> QED BY <1>3, <1>4

(* Filtered keeps the elements at the places, in order.                     *)
LEMMA FilteredKeeps ==
    ASSUME NEW T, NEW s \in Seq(T), NEW places
    PROVE  Keeps(Filtered(s, places), T, s, places, Len(s))
<1> DEFINE Rec(f, n) == f = [i \in 0..n |-> FilterStep(f, s, places, i)]
           Far == {n \in Nat : n <= Len(s) =>
                      \E f : Rec(f, n) /\ \A i \in 0..n : Keeps(f[i], T, s, places, i)}
<1>1. \A n \in Nat : \A f : Rec(f, n) => \A i \in 0..n : f[i] = FilterStep(f, s, places, i)
  <2> SUFFICES ASSUME NEW n \in Nat, NEW f, Rec(f, n)
               PROVE  \A i \in 0..n : f[i] = FilterStep(f, s, places, i)
      OBVIOUS
  <2> DEFINE h == [i \in 0..n |-> FilterStep(f, s, places, i)]
  <2>1. \A i \in 0..n : h[i] = FilterStep(f, s, places, i)
        OBVIOUS
  <2>2. f = h
        OBVIOUS
  <2> HIDE DEF h
  <2> QED BY <2>1, <2>2, Zenon
<1>2. 0 \in Far
  <2> DEFINE f == [i \in 0..0 |-> <<>>]
  <2>1. \A i \in 0..0 : f[i] = FilterStep(f, s, places, i)
        BY DEF FilterStep
  <2>2. Rec(f, 0)
        BY <2>1
  <2>3. Keeps(<<>>, T, s, places, 0)
    <3> DEFINE e == [i \in 1..Len(<<>>) |-> 0]
    <3>1. e \in [1..Len(<<>>) -> 1..0]
          OBVIOUS
    <3>2. Len(<<>>) = 0 /\ <<>> \in Seq(T) /\ 1..0 = {}
          OBVIOUS
    <3> QED BY <3>1, <3>2 DEF Keeps
  <2> QED BY <2>2, <2>3
<1>3. ASSUME NEW n \in Nat, n \in Far PROVE n + 1 \in Far
  <2>0. SUFFICES ASSUME n + 1 <= Len(s)
                 PROVE  \E g : Rec(g, n + 1) /\ \A i \in 0..n + 1 : Keeps(g[i], T, s, places, i)
        OBVIOUS
  <2>1. PICK f : Rec(f, n) /\ \A i \in 0..n : Keeps(f[i], T, s, places, i)
        BY <1>3, <2>0
  <2>2. \A i \in 0..n : f[i] = FilterStep(f, s, places, i)
        BY <1>1, <2>1, Zenon
  <2> DEFINE g == [i \in 0..n + 1 |-> FilterStep(f, s, places, i)]
  <2>3. \A i \in 0..n + 1 : g[i] = FilterStep(f, s, places, i)
        OBVIOUS
  <2>4. \A i \in 0..n : g[i] = f[i]
        BY <2>2, <2>3
  <2>5. g = [i \in 0..n + 1 |-> FilterStep(f, s, places, i)]
        OBVIOUS
  <2> HIDE DEF g
  <2>6. \A i \in 0..n + 1 : FilterStep(f, s, places, i) = FilterStep(g, s, places, i)
        BY <2>4 DEF FilterStep
  <2>7. Rec(g, n + 1)
        BY <2>5, <2>6
  <2>8. Keeps(g[n + 1], T, s, places, n + 1)
    <3>1. g[n + 1] = IF n + 1 \in places THEN Append(f[n], s[n + 1]) ELSE f[n]
          BY <2>3 DEF FilterStep
    <3>2. Keeps(f[n], T, s, places, n)
          BY <2>1
    <3> QED BY <2>0, <3>1, <3>2, KeepsMore
  <2>9. \A i \in 0..n + 1 : i \in 0..n \/ i = n + 1
        OBVIOUS
  <2> HIDE DEF Rec
  <2> QED BY <2>1, <2>4, <2>7, <2>8, <2>9
<1> HIDE DEF Far
<1>4. Len(s) \in Far
    BY <1>2, <1>3, EveryNumber
<1> DEFINE F == CHOOSE f : f = [n \in 0..Len(s) |-> FilterStep(f, s, places, n)]
<1>5. Filtered(s, places) = F[Len(s)]
    BY Zenon DEF Filtered, FilterStep
<1>6. PICK f : Rec(f, Len(s)) /\ \A i \in 0..Len(s) : Keeps(f[i], T, s, places, i)
    BY <1>4 DEF Far
<1>7. Rec(F, Len(s))
    BY <1>6, Zenon
<1> HIDE DEF F
<1>8. /\ \A i \in 0..Len(s) : f[i] = FilterStep(f, s, places, i)
      /\ \A i \in 0..Len(s) : F[i] = FilterStep(F, s, places, i)
    BY <1>1, <1>6, <1>7, Zenon
<1> DEFINE Same == {n \in Nat : n <= Len(s) => F[n] = f[n]}
<1>9. 0 \in Same
    BY <1>8 DEF FilterStep
<1>10. ASSUME NEW n \in Nat, n \in Same PROVE n + 1 \in Same
  <2>1. n + 1 <= Len(s) => n + 1 \in 0..Len(s) /\ n + 1 - 1 = n /\ n + 1 # 0
        OBVIOUS
  <2> QED BY <1>8, <1>10, <2>1 DEF FilterStep
<1> HIDE DEF Same
<1>11. Len(s) \in Same
    BY <1>9, <1>10, EveryNumber
<1> QED BY <1>5, <1>6, <1>11 DEF Same

---------------------------------------------------------------------------
(* What a view says of earlier ones                                         *)

\* The types a layer's events give a field.
TypesIn(L, f, v) == {e.type : e \in {e \in L[v].events : e.kind \in {"declare", "mutate"} /\ e.field = f}}

\* Events that can be folded: a deletion is alone in its layer.
Legible(L, P) ==
    /\ Len(L) \in Nat /\ P \subseteq 1..Len(L)
    /\ \A i \in 1..Len(L) :
          /\ L[i].events \subseteq DefEvent /\ IsFiniteSet(L[i].events)
          /\ \A e \in L[i].events : e.kind = "delete" => L[i].events = {e}

\* A field stands at a layer of the path that named its type; seen from a, the view there
\* says so.
FieldStands(V, L, Q, a, x, f) ==
    IF x.fields[f].version = 0 THEN x.fields[f] = NoField
    ELSE /\ x.fields[f].version \in Q
         /\ x.fields[f].type \in TypesIn(L, f, x.fields[f].version)
         /\ x.fields[f].version < a =>
               V[x.fields[f].version].fields[f].version = x.fields[f].version

\* A chain climbs, up to the version in force, and its steps join versions that stood.
StepStands(V, Q, a, x, f, s) ==
    /\ s.from \in Q /\ s.to \in Q /\ s.from <= s.to
    /\ x.fields[f].version # 0 => s.to <= x.fields[f].version
    /\ s.from < a => V[s.from].fields[f].version = s.from
    /\ s.to < a => V[s.to].fields[f].version = s.to
    /\ s.to = a => x.fields[f].version = a

ChainStands(V, Q, a, x, f) ==
    /\ \A k \in 1..Len(x.chains[f]) : StepStands(V, Q, a, x, f, x.chains[f][k])
    /\ \A k, l \in 1..Len(x.chains[f]) : k < l => x.chains[f][k].to <= x.chains[f][l].from

\* A producer stands at a layer of the path whose view holds this program.
MakingStands(V, Q, a, x, n) ==
    IF x.producers[n].version = 0 THEN x.producers[n] = NoProducer
    ELSE /\ x.producers[n].version \in Q
         /\ x.producers[n].version < a => V[x.producers[n].version].producers[n] = x.producers[n]

Mid(V, L, Q, a, x) ==
    /\ x \in ViewType
    /\ \A f \in Field : FieldStands(V, L, Q, a, x, f) /\ ChainStands(V, Q, a, x, f)
    /\ \A n \in Name : MakingStands(V, Q, a, x, n)

\* No chain of a view has a step as late as a.
Earlier(a, x) == \A f \in Field : \A k \in 1..Len(x.chains[f]) : x.chains[f][k].to < a

(* An event of layer a leaves a view that stands.                           *)
LEMMA JoinStands ==
    ASSUME NEW V, NEW L, NEW a \in Nat \ {0}, NEW Q, Q \subseteq 1..a, a \in Q,
           NEW x, Mid(V, L, Q, a, x), NEW e \in DefEvent, e \in L[a].events,
           e.kind = "delete" => Earlier(a, x)
    PROVE  Mid(V, L, Q, a, Joined(x, e, a))
<1> DEFINE y == Joined(x, e, a)
<1>0. x \in ViewType
    BY DEF Mid
<1>1. /\ y \in ViewType
      /\ \/ ~y.ok /\ SameBut(x, y) /\ (~x.ok \/ Refused(x, e))
         \/ /\ x.ok /\ ~Refused(x, e) /\ e.kind = "declare"
            /\ x.fields[e.field].version # 0 /\ y = x
         \/ /\ x.ok /\ ~Refused(x, e) /\ e.kind = "declare"
            /\ x.fields[e.field].version = 0 /\ Declares(x, e, a, y)
         \/ x.ok /\ ~Refused(x, e) /\ e.kind = "mutate" /\ Mutates(x, e, a, y)
         \/ x.ok /\ ~Refused(x, e) /\ e.kind = "delete" /\ Deletes(x, e, y)
         \/ x.ok /\ ~Refused(x, e) /\ e.kind = "producer" /\ Produces(x, e, a, y)
    BY <1>0, JoinedIs
<1> HIDE DEF y
<1> SUFFICES Mid(V, L, Q, a, y)
    BY DEF y
<1>t. y \in ViewType
    BY <1>1
<1>q. \A v : v \in Q => v \in Nat /\ v <= a
    OBVIOUS
<1>2. ASSUME NEW f, y.fields[f] = x.fields[f], FieldStands(V, L, Q, a, x, f)
      PROVE  FieldStands(V, L, Q, a, y, f)
    BY <1>2 DEF FieldStands
<1>3. ASSUME NEW f, y.fields[f] = x.fields[f], y.chains[f] = x.chains[f], ChainStands(V, Q, a, x, f)
      PROVE  ChainStands(V, Q, a, y, f)
    BY <1>3 DEF ChainStands, StepStands
<1>4. ASSUME NEW n, y.producers[n] = x.producers[n], MakingStands(V, Q, a, x, n)
      PROVE  MakingStands(V, Q, a, y, n)
    BY <1>4 DEF MakingStands
<1>5. /\ \A f \in Field : FieldStands(V, L, Q, a, x, f) /\ ChainStands(V, Q, a, x, f)
      /\ \A n \in Name : MakingStands(V, Q, a, x, n)
    BY DEF Mid
<1>6. CASE SameBut(x, y) \/ y = x
  <2>1. y.fields = x.fields /\ y.chains = x.chains /\ y.producers = x.producers
        BY <1>6 DEF SameBut
  <2>2. \A g \in Field : FieldStands(V, L, Q, a, y, g) /\ ChainStands(V, Q, a, y, g)
        BY <1>2, <1>3, <1>5, <2>1
  <2>3. \A n \in Name : MakingStands(V, Q, a, y, n)
        BY <1>4, <1>5, <2>1
  <2> QED BY <1>t, <2>2, <2>3 DEF Mid
<1>7. e.kind # "producer" => e.field \in Field
    BY EventKinds
<1>8. \A k : e.kind = k /\ k \in {"declare", "mutate"} => e.type \in TypesIn(L, e.field, a)
    BY DEF TypesIn
<1>9. CASE /\ e.kind = "declare" /\ x.fields[e.field].version = 0 /\ Declares(x, e, a, y)
  <2> DEFINE f == e.field
  <2>1. /\ y.fields[f].version = a /\ y.fields[f].type = e.type /\ y.chains = x.chains
        /\ y.producers = x.producers
        /\ \A g \in Field \ {f} : y.fields[g] = x.fields[g]
        BY <1>7, <1>9 DEF Declares
  <2>2. FieldStands(V, L, Q, a, y, f)
        BY <1>8, <1>9, <2>1 DEF FieldStands
  <2>3. \A k \in 1..Len(x.chains[f]) : StepStands(V, Q, a, x, f, x.chains[f][k])
        BY <1>5, <1>7, <1>9 DEF ChainStands
  <2>4. \A s : StepStands(V, Q, a, x, f, s) => StepStands(V, Q, a, y, f, s)
    <3> SUFFICES ASSUME NEW s, StepStands(V, Q, a, x, f, s) PROVE StepStands(V, Q, a, y, f, s)
        OBVIOUS
    <3>1. s.to \in Q /\ s.to <= a
          BY <1>q DEF StepStands
    <3> QED BY <2>1, <3>1 DEF StepStands
  <2>5. ChainStands(V, Q, a, y, f)
        BY <1>5, <1>7, <1>9, <2>1, <2>3, <2>4 DEF ChainStands
  <2>6. \A g \in Field : FieldStands(V, L, Q, a, y, g) /\ ChainStands(V, Q, a, y, g)
        BY <1>2, <1>3, <1>5, <2>1, <2>2, <2>5
  <2>7. \A n \in Name : MakingStands(V, Q, a, y, n)
        BY <1>4, <1>5, <2>1
  <2> QED BY <1>t, <2>6, <2>7 DEF Mid
<1>10. CASE e.kind = "mutate" /\ ~Refused(x, e) /\ Mutates(x, e, a, y)
  <2> DEFINE f == e.field
             v == x.fields[f].version
             c == x.chains[f]
  <2>0. f \in Field /\ c \in Seq(Hop) /\ x.fields[f] \in FieldDef /\ Len(c) \in Nat /\ v \in Nat
        BY <1>0, <1>7, <1>10 DEF ViewType, FieldDef
  <2>1. v # 0
        BY <1>10 DEF Refused
  <2>2. v \in Q /\ v <= a /\ (v < a => V[v].fields[f].version = v)
    <3>1. FieldStands(V, L, Q, a, x, f)
          BY <1>5, <2>0
    <3>2. v \in Q /\ (v < a => V[v].fields[f].version = v)
          BY <2>1, <3>1 DEF FieldStands
    <3> QED BY <1>q, <3>2
  <2> DEFINE s == [from |-> v, to |-> a, up |-> e.up, down |-> e.down]
  <2>3. /\ y.fields[f].version = a /\ y.fields[f].type = e.type /\ y.producers = x.producers
        /\ y.chains[f] = Append(c, s)
        /\ \A g \in Field \ {f} : y.fields[g] = x.fields[g] /\ y.chains[g] = x.chains[g]
        BY <1>10 DEF Mutates
  <2>4. s.from = v /\ s.to = a
        OBVIOUS
  <2>5. FieldStands(V, L, Q, a, y, f)
        BY <1>8, <1>10, <2>3 DEF FieldStands
  <2> DEFINE d == y.chains[f]
  <2> HIDE DEF s
  <2>6. Len(d) = Len(c) + 1 /\ d[Len(c) + 1] = s /\ \A k \in 1..Len(c) : d[k] = c[k]
        BY <2>0, <2>3
  <2>7. /\ \A k \in 1..Len(c) : StepStands(V, Q, a, x, f, c[k])
        /\ \A k, l \in 1..Len(c) : k < l => c[k].to <= c[l].from
        BY <1>5, <2>0 DEF ChainStands
  <2>8. \A k \in 1..Len(c) : c[k].from \in Nat /\ c[k].to \in Nat
    <3>1. \A k \in 1..Len(c) : c[k] \in Hop
          BY <2>0
    <3> QED BY <3>1 DEF Hop
  <2> HIDE DEF d, c, v
  <2>9. \A k \in 1..Len(d) : StepStands(V, Q, a, y, f, d[k])
    <3>1. ASSUME NEW k \in 1..Len(c) PROVE StepStands(V, Q, a, y, f, d[k])
      <4>1. StepStands(V, Q, a, x, f, c[k]) /\ d[k] = c[k]
            BY <2>6, <2>7
      <4>2. c[k].to <= a
            BY <1>q, <4>1 DEF StepStands
      <4> QED BY <2>3, <4>1, <4>2 DEF StepStands
    <3>2. StepStands(V, Q, a, y, f, s)
          BY <2>1, <2>2, <2>3, <2>4 DEF StepStands
    <3> QED BY <2>0, <2>6, <3>1, <3>2
  <2>10. ASSUME NEW k \in 1..Len(d), NEW l \in 1..Len(d), k < l PROVE d[k].to <= d[l].from
    <3>1. k \in 1..Len(c) /\ d[k] = c[k]
          BY <2>0, <2>6, <2>10
    <3>2. CASE l \in 1..Len(c)
          BY <2>6, <2>7, <2>10, <3>1, <3>2
    <3>3. CASE l = Len(c) + 1
      <4>1. StepStands(V, Q, a, x, f, c[k])
            BY <2>7, <3>1
      <4>2. c[k].to <= v
            BY <2>1, <4>1 DEF StepStands, v
      <4> QED BY <2>4, <2>6, <3>1, <3>3, <4>2
    <3> QED BY <2>0, <2>6, <3>2, <3>3
  <2>11. ChainStands(V, Q, a, y, f)
        BY <2>9, <2>10 DEF ChainStands, d
  <2>12. \A g \in Field : FieldStands(V, L, Q, a, y, g) /\ ChainStands(V, Q, a, y, g)
        BY <1>2, <1>3, <1>5, <2>3, <2>5, <2>11
  <2>13. \A n \in Name : MakingStands(V, Q, a, y, n)
        BY <1>4, <1>5, <2>3
  <2> QED BY <1>t, <2>12, <2>13 DEF Mid
<1>11. CASE e.kind = "delete" /\ Deletes(x, e, y)
  <2> DEFINE f == e.field
  <2>1. /\ y.fields[f] = NoField /\ y.chains = x.chains /\ y.producers = x.producers
        /\ \A g \in Field \ {f} : y.fields[g] = x.fields[g]
        BY <1>7, <1>11 DEF Deletes
  <2>2. y.fields[f].version = 0
        BY <2>1 DEF NoField
  <2>3. FieldStands(V, L, Q, a, y, f)
        BY <2>1, <2>2 DEF FieldStands
  <2>4. \A k \in 1..Len(x.chains[f]) : StepStands(V, Q, a, x, f, x.chains[f][k]) /\ x.chains[f][k].to < a
        BY <1>5, <1>7, <1>11 DEF ChainStands, Earlier
  <2>5. \A s : StepStands(V, Q, a, x, f, s) /\ s.to < a => StepStands(V, Q, a, y, f, s)
        BY <2>2 DEF StepStands
  <2>6. ChainStands(V, Q, a, y, f)
        BY <1>5, <1>7, <1>11, <2>1, <2>4, <2>5 DEF ChainStands
  <2>7. \A g \in Field : FieldStands(V, L, Q, a, y, g) /\ ChainStands(V, Q, a, y, g)
        BY <1>2, <1>3, <1>5, <2>1, <2>3, <2>6
  <2>8. \A n \in Name : MakingStands(V, Q, a, y, n)
        BY <1>4, <1>5, <2>1
  <2> QED BY <1>t, <2>7, <2>8 DEF Mid
<1>12. CASE e.kind = "producer" /\ Produces(x, e, a, y)
  <2>1. /\ y.fields = x.fields /\ y.chains = x.chains
        /\ \A n \in Name : IF n = e.name THEN y.producers[n].version = a
                           ELSE y.producers[n] = x.producers[n]
        BY <1>12 DEF Produces
  <2>2. \A g \in Field : FieldStands(V, L, Q, a, y, g) /\ ChainStands(V, Q, a, y, g)
        BY <1>2, <1>3, <1>5, <2>1
  <2>3. \A n \in Name : MakingStands(V, Q, a, y, n)
    <3> SUFFICES ASSUME NEW n \in Name PROVE MakingStands(V, Q, a, y, n)
        OBVIOUS
    <3>1. CASE n = e.name
          BY <2>1, <3>1 DEF MakingStands
    <3> QED BY <1>4, <1>5, <2>1, <3>1
  <2> QED BY <1>t, <2>2, <2>3 DEF Mid
<1> QED BY <1>1, <1>6, <1>9, <1>10, <1>11, <1>12

\* A view that stands on a path stands on a longer one.
LEMMA MidOnLongerPath ==
    ASSUME NEW V, NEW L, NEW Q, NEW R, Q \subseteq R, NEW a, NEW x, Mid(V, L, Q, a, x)
    PROVE  Mid(V, L, R, a, x)
<1>1. \A f \in Field : FieldStands(V, L, Q, a, x, f) => FieldStands(V, L, R, a, x, f)
    BY DEF FieldStands
<1>2. \A f, s : StepStands(V, Q, a, x, f, s) => StepStands(V, R, a, x, f, s)
    BY DEF StepStands
<1>3. \A f \in Field : ChainStands(V, Q, a, x, f) => ChainStands(V, R, a, x, f)
    BY <1>2 DEF ChainStands
<1>4. \A n \in Name : MakingStands(V, Q, a, x, n) => MakingStands(V, R, a, x, n)
    BY DEF MakingStands
<1> QED BY <1>1, <1>3, <1>4 DEF Mid

(* Seen from the next layer, a layer's own view says what it says.          *)
LEMMA MidLater ==
    ASSUME NEW V, NEW L, NEW a \in Nat, NEW Q, Q \subseteq 1..a, Mid(V, L, Q, a, V[a])
    PROVE  Mid(V, L, Q, a + 1, V[a])
<1>1. \A v : v \in Q => v \in Nat /\ v <= a /\ v < a + 1 /\ v # a + 1 /\ (v < a \/ v = a)
    OBVIOUS
<1>2. ASSUME NEW f \in Field, FieldStands(V, L, Q, a, V[a], f)
      PROVE  FieldStands(V, L, Q, a + 1, V[a], f)
    BY <1>1, <1>2 DEF FieldStands
<1>3. ASSUME NEW f, NEW s, StepStands(V, Q, a, V[a], f, s) PROVE StepStands(V, Q, a + 1, V[a], f, s)
  <2>1. /\ s.from \in Q /\ s.to \in Q /\ s.from <= s.to
        /\ V[a].fields[f].version # 0 => s.to <= V[a].fields[f].version
        /\ s.from < a => V[s.from].fields[f].version = s.from
        /\ s.to < a => V[s.to].fields[f].version = s.to
        /\ s.to = a => V[a].fields[f].version = a
        BY <1>3 DEF StepStands
  <2>2. s.from = a => s.to = a
        BY <1>1, <2>1
  <2>3. V[s.from].fields[f].version = s.from /\ V[s.to].fields[f].version = s.to /\ s.to # a + 1
        BY <1>1, <2>1, <2>2
  <2> QED BY <2>1, <2>3 DEF StepStands
<1>4. ASSUME NEW f \in Field, ChainStands(V, Q, a, V[a], f)
      PROVE  ChainStands(V, Q, a + 1, V[a], f)
    BY <1>3, <1>4 DEF ChainStands
<1>5. ASSUME NEW n \in Name, MakingStands(V, Q, a, V[a], n) PROVE MakingStands(V, Q, a + 1, V[a], n)
    BY <1>1, <1>5 DEF MakingStands
<1> QED BY <1>2, <1>4, <1>5 DEF Mid

\* The view of no events stands.
LEMMA EmptyStands ==
    ASSUME NEW V, NEW L, NEW Q, NEW a
    PROVE  Mid(V, L, Q, a, EmptyView)
<1>1. /\ \A f \in Field : EmptyView.fields[f] = NoField /\ EmptyView.chains[f] = <<>>
      /\ \A n \in Name : EmptyView.producers[n] = NoProducer
    BY DEF EmptyView
<1>2. NoField.version = 0 /\ NoProducer.version = 0 /\ Len(<<>>) = 0 /\ 1..0 = {}
    BY DEF NoField, NoProducer
<1>3. \A f \in Field : FieldStands(V, L, Q, a, EmptyView, f)
    BY <1>1, <1>2 DEF FieldStands
<1>4. \A f \in Field : ChainStands(V, Q, a, EmptyView, f)
    BY <1>1, <1>2 DEF ChainStands
<1>5. \A n \in Name : MakingStands(V, Q, a, EmptyView, n)
    BY <1>1, <1>2 DEF MakingStands
<1> QED BY <1>3, <1>4, <1>5, EmptyViewTyped DEF Mid

\* Every view of a path stands.
Standing(V, L, P) == \A i \in 0..Len(L) : Mid(V, L, P \cap 1..i, i + 1, V[i])

(* The views of a path stand, whatever its events.                          *)
LEMMA FoldsStand ==
    ASSUME NEW V, NEW L, NEW P, Folds(V, L, P), Legible(L, P)
    PROVE  Standing(V, L, P)
<1>0. Len(L) \in Nat
    BY DEF Legible
<1> DEFINE Far == {i \in Nat : i <= Len(L) => Mid(V, L, P \cap 1..i, i + 1, V[i])}
<1>1. 0 \in Far
  <2>1. V[0] = EmptyView
        BY DEF Folds
  <2>2. Mid(V, L, P \cap 1..0, 0 + 1, V[0])
        BY <2>1, EmptyStands
  <2> QED BY <2>2
<1>2. ASSUME NEW j \in Nat, j \in Far PROVE j + 1 \in Far
  <2>1. SUFFICES ASSUME j + 1 <= Len(L)
                 PROVE  Mid(V, L, P \cap 1..(j + 1), (j + 1) + 1, V[j + 1])
        OBVIOUS
  <2> DEFINE a == j + 1
             Q == P \cap 1..a
  <2>2. Mid(V, L, P \cap 1..j, a, V[j])
        BY <1>0, <1>2, <2>1
  <2>3. a \in Nat \ {0} /\ a - 1 = j /\ a \in 1..Len(L) /\ P \cap 1..j \subseteq Q
        BY <1>0, <2>1
  <2>4. V[a] = IF a \in P THEN FoldLayer(V[j], L[a].events, a) ELSE V[j]
        BY <2>3 DEF Folds
  <2>5. Mid(V, L, Q, a, V[j])
        BY <2>2, <2>3, MidOnLongerPath
  <2>6. Q \subseteq 1..a
        OBVIOUS
  <2>7. CASE a \notin P
    <3>1. Mid(V, L, Q, a, V[a])
          BY <2>4, <2>5, <2>7
    <3> HIDE DEF a, Q
    <3>2. Mid(V, L, Q, a + 1, V[a])
          BY <2>3, <2>6, <3>1, MidLater
    <3> QED BY <3>2 DEF a, Q
  <2>8. CASE a \in P
    <3>1. a \in Q
          BY <2>3, <2>8
    <3> HIDE DEF a, Q
    <3>2. /\ L[a].events \subseteq DefEvent /\ IsFiniteSet(L[a].events)
          /\ \A e \in L[a].events : e.kind = "delete" => L[a].events = {e}
          BY <2>3 DEF Legible
    <3>3. Mid(V, L, Q, a, V[a])
      <4>1. CASE \A e \in L[a].events : e.kind # "delete"
        <5> DEFINE S == {x \in ViewType : Mid(V, L, Q, a, x)}
        <5>1. V[j] \in S
              BY <2>5 DEF Mid
        <5>2. ASSUME NEW x \in S, NEW e \in L[a].events PROVE Joined(x, e, a) \in S
          <6>1. Mid(V, L, Q, a, Joined(x, e, a))
                BY <2>3, <2>6, <3>1, <3>2, <4>1, JoinStands
          <6>2. Joined(x, e, a) \in ViewType
                BY <6>1 DEF Mid
          <6> QED BY <6>1, <6>2
        <5> HIDE DEF S
        <5>3. FoldLayer(V[j], L[a].events, a) \in S
              BY <3>2, <5>1, <5>2, FoldKeeps
        <5> QED BY <2>4, <2>8, <5>3 DEF S
      <4>2. ASSUME NEW e \in L[a].events, e.kind = "delete" PROVE Mid(V, L, Q, a, V[a])
        <5>1. L[a].events = {e} /\ e \in DefEvent
              BY <3>2, <4>2
        <5>2. V[a] = Joined(V[j], e, a)
              BY <2>4, <2>8, <5>1, FoldFew
        <5>3. Earlier(a, V[j])
          <6>1. \A f \in Field : ChainStands(V, P \cap 1..j, a, V[j], f)
                BY <2>2 DEF Mid
          <6>2. \A v : v \in P \cap 1..j => v < a
                BY DEF a
          <6> QED BY <6>1, <6>2 DEF ChainStands, StepStands, Earlier
        <5>4. Mid(V, L, Q, a, Joined(V[j], e, a))
              BY <2>3, <2>5, <2>6, <3>1, <5>1, <5>3, JoinStands
        <5> QED BY <5>2, <5>4
      <4> QED BY <4>1, <4>2
    <3>4. Mid(V, L, Q, a + 1, V[a])
          BY <2>3, <2>6, <3>3, MidLater
    <3> QED BY <3>4 DEF a, Q
  <2> QED BY <2>7, <2>8
<1> HIDE DEF Far
<1>3. Nat \subseteq Far
    BY <1>1, <1>2, EveryNumber
<1>4. \A i \in 0..Len(L) : i \in Nat /\ i <= Len(L) /\ i \in Far
    BY <1>0, <1>3
<1>5. \A i \in Far : i <= Len(L) => Mid(V, L, P \cap 1..i, i + 1, V[i])
    BY DEF Far
<1> QED BY <1>4, <1>5 DEF Standing

---------------------------------------------------------------------------
(* Paths                                                                    *)

\* The elements of a chain between two versions, as Path takes them.
Between(c, low, high) == {i \in DOMAIN c : c[i].from >= low /\ c[i].to <= high}

Climbs(c) ==
    /\ c \in Seq(Hop)
    /\ \A k \in 1..Len(c) : c[k].from <= c[k].to
    /\ \A k, l \in 1..Len(c) : k < l => c[k].to <= c[l].from

\* The steps from which a chain is linked to its end.
Linked(c) == {i \in DOMAIN c : \A j \in i..Len(c) - 1 : c[j].to = c[j + 1].from}

(* The steps between two ends of linked steps arrive without a gap.         *)
LEMMA StepsArrive ==
    ASSUME NEW c, Climbs(c), NEW k \in Linked(c), NEW l \in Linked(c), k <= l,
           NEW r, Keeps(r, Hop, c, Between(c, c[k].from, c[l].to), Len(c))
    PROVE  /\ Len(r) \in Nat /\ Len(r) > 0 /\ r \in Seq(Hop)
           /\ r[1].from = c[k].from /\ r[Len(r)].to = c[l].to
           /\ \A i \in 1..Len(r) - 1 : r[i].to = r[i + 1].from
           /\ \A i \in 1..Len(r) : \E j \in 1..Len(c) : r[i] = c[j]
                                       /\ c[j].from >= c[k].from /\ c[j].to <= c[l].to
<1> DEFINE low == c[k].from
           high == c[l].to
           B == Between(c, low, high)
<1>1. /\ c \in Seq(Hop) /\ DOMAIN c = 1..Len(c) /\ Len(c) \in Nat
      /\ k \in 1..Len(c) /\ l \in 1..Len(c)
      /\ \A j \in 1..Len(c) : c[j] \in Hop
    BY DEF Climbs, Linked
<1>2. \A j \in 1..Len(c) : c[j].from \in Nat /\ c[j].to \in Nat
    BY <1>1 DEF Hop
<1>3. /\ \A j \in 1..Len(c) : c[j].from <= c[j].to
      /\ \A i, j \in 1..Len(c) : i < j => c[i].to <= c[j].from
    BY DEF Climbs
<1>4. \A j \in k..Len(c) - 1 : c[j].to = c[j + 1].from
    BY DEF Linked
<1>5. \A j \in 1..Len(c) : j \in B <=> c[j].from >= low /\ c[j].to <= high
    BY <1>1 DEF Between
<1>6. PICK ix \in [1..Len(r) -> 1..Len(c)] :
          /\ \A i, j \in 1..Len(r) : i < j => ix[i] < ix[j]
          /\ \A i \in 1..Len(r) : r[i] = c[ix[i]]
          /\ \A j \in 1..Len(c) : j \in B <=> \E i \in 1..Len(r) : ix[i] = j
    BY DEF Keeps
<1>7. r \in Seq(Hop) /\ Len(r) \in Nat
    BY DEF Keeps
<1> HIDE DEF B
<1>8. \A i \in 1..Len(r) : ix[i] \in 1..Len(c) /\ ix[i] \in B
    BY <1>6
<1>9. k \in B /\ l \in B
  <2>1. k < l => c[k].to <= c[l].from
        BY <1>1, <1>3
  <2>2. c[k].from <= c[k].to /\ c[l].from <= c[l].to
        BY <1>1, <1>3
  <2> QED BY <1>1, <1>2, <1>5, <2>1, <2>2
<1>10. PICK p \in 1..Len(r), q \in 1..Len(r) : ix[p] = k /\ ix[q] = l
    BY <1>1, <1>6, <1>9
<1>11. Len(r) > 0 /\ 1 \in 1..Len(r) /\ Len(r) \in 1..Len(r)
    BY <1>7, <1>10
<1>12. r[1].from = low
  <2> DEFINE u == ix[1]
  <2>1. u = k \/ u < k
    <3>1. 1 < p => ix[1] < ix[p]
          BY <1>6, <1>11
    <3>2. p = 1 \/ 1 < p
          BY <1>7
    <3> QED BY <1>10, <3>1, <3>2
  <2>2. u \in 1..Len(c) /\ r[1] = c[u] /\ c[u].from >= low
        BY <1>5, <1>6, <1>8, <1>11
  <2> HIDE DEF u
  <2>3. u < k => c[u].to <= c[k].from /\ c[u].from <= c[u].to
        BY <1>1, <1>3, <2>2
  <2>4. c[u].from \in Nat /\ c[u].to \in Nat /\ c[k].from \in Nat
        BY <1>1, <1>2, <2>2
  <2> QED BY <2>1, <2>2, <2>3, <2>4
<1>13. r[Len(r)].to = high
  <2> DEFINE u == ix[Len(r)]
  <2>1. u = l \/ l < u
    <3>1. q < Len(r) => ix[q] < ix[Len(r)]
          BY <1>6, <1>11
    <3>2. q = Len(r) \/ q < Len(r)
          BY <1>7
    <3> QED BY <1>10, <3>1, <3>2
  <2>2. u \in 1..Len(c) /\ r[Len(r)] = c[u] /\ c[u].to <= high
        BY <1>5, <1>6, <1>8, <1>11
  <2> HIDE DEF u
  <2>3. l < u => c[l].to <= c[u].from /\ c[u].from <= c[u].to
        BY <1>1, <1>3, <2>2
  <2>4. c[u].from \in Nat /\ c[u].to \in Nat /\ c[l].to \in Nat
        BY <1>1, <1>2, <2>2
  <2> QED BY <2>1, <2>2, <2>3, <2>4
<1>14. ASSUME NEW i \in 1..Len(r) - 1 PROVE r[i].to = r[i + 1].from
  <2> DEFINE u == ix[i]
             w == ix[i + 1]
  <2>1. i \in 1..Len(r) /\ i + 1 \in 1..Len(r) /\ r[i] = c[u] /\ r[i + 1] = c[w] /\ u < w
        BY <1>6, <1>7
  <2>2. u \in 1..Len(c) /\ w \in 1..Len(c) /\ u \in B /\ w \in B
        BY <1>8, <2>1
  <2>3. w = u + 1
    <3>1. SUFFICES ASSUME u + 1 < w PROVE FALSE
          BY <1>1, <2>1, <2>2
    <3>2. u + 1 \in 1..Len(c)
          BY <1>1, <2>2, <3>1
    <3>3. c[u].to <= c[u + 1].from /\ c[u + 1].to <= c[w].from
          BY <1>3, <2>2, <3>1, <3>2
    <3>4. u + 1 \in B
      <4>1. c[u].from >= low /\ c[w].to <= high
            BY <1>5, <2>2
      <4>2. c[u].from <= c[u].to /\ c[w].from <= c[w].to
            BY <1>3, <2>2
      <4> HIDE DEF u, w, low, high
      <4>3. low \in Nat /\ high \in Nat
            BY <1>1, <1>2 DEF low, high
      <4>4. /\ c[u].from \in Nat /\ c[u].to \in Nat /\ c[u + 1].from \in Nat
            /\ c[u + 1].to \in Nat /\ c[w].from \in Nat /\ c[w].to \in Nat
            BY <1>2, <2>2, <3>2
      <4>5. c[u + 1].from >= low /\ c[u + 1].to <= high
        <5> DEFINE z == c[u + 1]
        <5>1. /\ c[u].to <= z.from /\ z.to <= c[w].from
              /\ z.from \in Nat /\ z.to \in Nat
              BY <3>3, <4>4
        <5> HIDE DEF z
        <5>2. z.from >= low /\ z.to <= high
          <6>1. \A x1, x2, x3, x4 \in Nat : x1 <= x2 /\ x2 <= x3 /\ x3 <= x4 => x1 <= x4
                OBVIOUS
          <6>2. low <= z.from
                BY <4>1, <4>2, <4>3, <4>4, <5>1, <6>1
          <6>3. z.to <= high
                BY <4>1, <4>2, <4>3, <4>4, <5>1, <6>1
          <6> QED BY <6>2, <6>3, <5>1, <4>3
        <5> QED BY <5>2 DEF z
      <4> QED BY <1>5, <3>2, <4>5
    <3>5. PICK m \in 1..Len(r) : ix[m] = u + 1
          BY <1>6, <3>2, <3>4
    <3>6. ~(m <= i) /\ ~(i + 1 <= m)
      <4>1. m < i => ix[m] < u
            BY <1>6, <2>1
      <4>2. i + 1 < m => w < ix[m]
            BY <1>6, <2>1
      <4> HIDE DEF w
      <4>3. u \in Nat /\ w \in Nat
            BY <2>2
      <4>4. m # i /\ m # i + 1
            BY <2>1, <3>1, <3>5, <4>3 DEF w
      <4> HIDE DEF u
      <4> QED BY <2>1, <3>1, <3>5, <4>1, <4>2, <4>3, <4>4, SMTT(60)
    <3> QED BY <3>6
  <2> HIDE DEF u, w
  <2>4. CASE u >= k
        BY <1>1, <1>4, <2>1, <2>2, <2>3, <2>4
  <2>5. CASE u < k
    <3>1. c[u].from >= low /\ c[w].from >= low
          BY <1>5, <2>2
    <3>2. c[u].from <= c[u].to /\ c[u].to <= c[w].from
          BY <1>3, <2>1, <2>2
    <3>3. c[w].from <= low
      <4>1. CASE w = k
            BY <1>1, <1>2, <4>1
      <4>2. CASE w < k
        <5>1. c[w].to <= c[k].from /\ c[w].from <= c[w].to
              BY <1>1, <1>3, <2>2, <4>2
        <5>2. c[w].from \in Nat /\ c[w].to \in Nat /\ c[k].from \in Nat
              BY <1>1, <1>2, <2>2
        <5> QED BY <5>1, <5>2
      <4> QED BY <1>1, <2>2, <2>3, <2>5, <4>1, <4>2, SMTT(60)
    <3>4. low \in Nat
          BY <1>1, <1>2
    <3> HIDE DEF low
    <3> QED BY <1>2, <2>1, <2>2, <3>1, <3>2, <3>3, <3>4, SMTT(60)
  <2> QED BY <1>1, <2>2, <2>4, <2>5
<1>15. \A i \in 1..Len(r) : \E j \in 1..Len(c) : r[i] = c[j] /\ c[j].from >= low /\ c[j].to <= high
    BY <1>5, <1>6, <1>8
<1> QED BY <1>7, <1>11, <1>12, <1>13, <1>14, <1>15

(* Two versions of one life, one below the other, are the ends of linked steps. *)
LEMMA LifeEnds ==
    ASSUME NEW c, Climbs(c), c # <<>>,
           NEW from \in {c[i].from : i \in Linked(c)} \cup {c[i].to : i \in Linked(c)},
           NEW to \in {c[i].from : i \in Linked(c)} \cup {c[i].to : i \in Linked(c)},
           from < to
    PROVE  \E k, l \in Linked(c) : k <= l /\ from = c[k].from /\ to = c[l].to
<1>1. /\ c \in Seq(Hop) /\ DOMAIN c = 1..Len(c) /\ Len(c) \in Nat
      /\ \A j \in 1..Len(c) : c[j] \in Hop
    BY DEF Climbs
<1>2. \A j \in 1..Len(c) : c[j].from \in Nat /\ c[j].to \in Nat
    BY <1>1 DEF Hop
<1>3. /\ \A j \in 1..Len(c) : c[j].from <= c[j].to
      /\ \A i, j \in 1..Len(c) : i < j => c[i].to <= c[j].from
    BY DEF Climbs
<1>4. \A i \in Linked(c) : /\ i \in 1..Len(c)
                           /\ \A j \in i..Len(c) - 1 : c[j].to = c[j + 1].from
                           /\ \A j \in i..Len(c) : j \in Linked(c)
    BY <1>1 DEF Linked
<1>5. \A j \in 1..Len(c) : c[j].to <= c[Len(c)].to
  <2> SUFFICES ASSUME NEW j \in 1..Len(c), j < Len(c) PROVE c[j].to <= c[Len(c)].to
      BY <1>1, <1>2
  <2>1. Len(c) \in 1..Len(c) /\ c[j].to <= c[Len(c)].from /\ c[Len(c)].from <= c[Len(c)].to
        BY <1>1, <1>3
  <2> QED BY <1>2, <2>1
<1>6. to \in Nat /\ from \in Nat /\ to <= c[Len(c)].to
  <2>1. PICK j \in 1..Len(c) : to = c[j].from \/ to = c[j].to
        BY <1>4
  <2>2. PICK i \in 1..Len(c) : from = c[i].from \/ from = c[i].to
        BY <1>4
  <2>3. Len(c) \in 1..Len(c)
        BY <1>1, <2>1
  <2>4. c[j].from <= c[j].to /\ c[j].to <= c[Len(c)].to
        BY <1>3, <1>5
  <2> QED BY <1>2, <2>1, <2>2, <2>3, <2>4
<1>7. PICK k \in Linked(c) : from = c[k].from
  <2>1. PICK i \in Linked(c) : from = c[i].from \/ from = c[i].to
        OBVIOUS
  <2>2. CASE from = c[i].to
    <3>1. i # Len(c)
          BY <1>1, <1>2, <1>4, <1>6, <2>2
    <3>2. i \in i..Len(c) - 1 /\ i + 1 \in i..Len(c)
          BY <1>1, <1>4, <3>1
    <3> QED BY <1>4, <2>2, <3>2
  <2> QED BY <2>1, <2>2
<1>8. k \in 1..Len(c) /\ c[k].from \in Nat /\ c[k].to \in Nat
    BY <1>2, <1>4
<1>9. PICK j \in Linked(c) : to = c[j].from \/ to = c[j].to
    OBVIOUS
<1>10. j \in 1..Len(c) /\ c[j].from \in Nat /\ c[j].to \in Nat /\ c[j].from <= c[j].to
    BY <1>2, <1>3, <1>4
<1>11. CASE to = c[j].to
  <2>1. j < k => c[j].to <= c[k].from
        BY <1>3, <1>8, <1>10
  <2>2. ~(j < k)
        BY <1>7, <1>8, <1>10, <1>11, <2>1
  <2>3. k <= j
        BY <1>8, <1>10, <2>2
  <2> QED BY <1>7, <1>11, <2>3
<1>12. CASE to = c[j].from
  <2>1. k < j
    <3>1. j < k => c[j].to <= c[k].from
          BY <1>3, <1>8, <1>10
    <3>2. j # k
          BY <1>6, <1>7, <1>12
    <3>3. ~(j < k)
          BY <1>6, <1>7, <1>8, <1>10, <1>12, <3>1
    <3> QED BY <1>8, <1>10, <3>2, <3>3
  <2>2. j - 1 \in k..Len(c) - 1 /\ j - 1 \in k..Len(c) /\ (j - 1) + 1 = j /\ k <= j - 1
        BY <1>1, <1>8, <1>10, <2>1
  <2>3. c[j - 1].to = c[(j - 1) + 1].from
        BY <1>4, <2>2
  <2>4. c[j - 1].to = to /\ j - 1 \in Linked(c)
        BY <1>4, <1>12, <2>2, <2>3
  <2> QED BY <1>7, <2>2, <2>4
<1> QED BY <1>9, <1>11, <1>12

\* PathsArrive, of one path.
Arrives(view, f, from, to) ==
    LET p == Path(view, f, from, to)
        n == Len(p.hops)
    IN  IF p.found
        THEN /\ from # to => n > 0 /\ p.hops[1].from = from /\ p.hops[n].to = to
             /\ \A i \in 1..n - 1 : p.hops[i].to = p.hops[i + 1].from
        ELSE \E i \in DOMAIN view.chains[f] :
                LET s == view.chains[f][i]
                IN  s.down = None /\ s.to <= from /\ s.from >= to

\* The hops of a chain's steps, up and down.
UpHops(r) == [i \in DOMAIN r |-> [from |-> r[i].from, to |-> r[i].to]]
DownHops(r) == [i \in DOMAIN r |-> [from |-> r[Len(r) + 1 - i].to, to |-> r[Len(r) + 1 - i].from]]

\* The hops between two versions, by the steps of the chain they come from.
LEMMA HopsOf ==
    ASSUME NEW r \in Seq(Hop)
    PROVE  /\ Len(UpHops(r)) = Len(r) /\ Len(DownHops(r)) = Len(r)
           /\ \A i \in 1..Len(r) : /\ UpHops(r)[i].from = r[i].from /\ UpHops(r)[i].to = r[i].to
                                   /\ DownHops(r)[i].from = r[Len(r) + 1 - i].to
                                   /\ DownHops(r)[i].to = r[Len(r) + 1 - i].from
<1>1. DOMAIN r = 1..Len(r) /\ Len(r) \in Nat /\ \A i \in 1..Len(r) : r[i] \in Hop
    OBVIOUS
<1>2. \A i \in 1..Len(r) : r[i].from \in Nat /\ r[i].to \in Nat
    BY <1>1 DEF Hop
<1>3. \A i \in 1..Len(r) : Len(r) + 1 - i \in 1..Len(r)
    BY <1>1
<1> DEFINE Step == [from : Nat, to : Nat]
<1>4. UpHops(r) \in [1..Len(r) -> Step] /\ DownHops(r) \in [1..Len(r) -> Step]
    BY <1>1, <1>2, <1>3 DEF UpHops, DownHops
<1> HIDE DEF Step
<1>5. \A n \in Nat : \A s \in [1..n -> Step] : s \in Seq(Step) /\ Len(s) = n
    OBVIOUS
<1>6. Len(UpHops(r)) = Len(r) /\ Len(DownHops(r)) = Len(r)
    BY <1>1, <1>4, <1>5
<1> QED BY <1>1, <1>6 DEF UpHops, DownHops

\* The hops between two versions of a field's life arrive (defs.rs path).
LEMMA PathArrives ==
    ASSUME NEW V, NEW L, NEW Q, Q \subseteq Nat, NEW a, NEW x, Mid(V, L, Q, a, x),
           NEW f \in Field, NEW from \in Life(x, f), NEW to \in Life(x, f)
    PROVE  Arrives(x, f, from, to)
<1> DEFINE c == x.chains[f]
           v == x.fields[f].version
<1>1. c \in Seq(Hop) /\ v \in Nat /\ Len(c) \in Nat /\ DOMAIN c = 1..Len(c)
    BY DEF Mid, ViewType, FieldDef
<1>2. Climbs(c)
  <2>1. ChainStands(V, Q, a, x, f)
        BY DEF Mid
  <2> QED BY <1>1, <2>1 DEF ChainStands, StepStands, Climbs
<1>3. CASE from = to
  <2>0. from \in Nat
    <3>1. \A j \in 1..Len(c) : c[j].from \in Nat /\ c[j].to \in Nat
      <4>1. \A j \in 1..Len(c) : c[j] \in Hop
            BY <1>1
      <4> QED BY <4>1 DEF Hop
    <3>2. from = v \/ \E j \in DOMAIN c : from = c[j].from \/ from = c[j].to
          BY DEF Life
    <3> QED BY <1>1, <3>1, <3>2
  <2>1. Path(x, f, from, to) = [found |-> TRUE, hops |-> <<>>]
    <3>1. ~(from < to) /\ ~(from > to) /\ ~(from # to)
          BY <1>3, <2>0
    <3> QED BY <3>1 DEF Path
  <2> QED BY <1>3, <2>1 DEF Arrives
<1>4. from # to => /\ c # <<>>
                   /\ from \in {c[i].from : i \in Linked(c)} \cup {c[i].to : i \in Linked(c)}
                   /\ to \in {c[i].from : i \in Linked(c)} \cup {c[i].to : i \in Linked(c)}
    BY DEF Life, Linked
<1> DEFINE ups == Filtered(c, Between(c, from, to))
           downs == Filtered(c, Between(c, to, from))
<1>5. from # to => from \in Nat /\ to \in Nat
  <2>1. \A j \in 1..Len(c) : c[j].from \in Nat /\ c[j].to \in Nat
    <3>1. \A j \in 1..Len(c) : c[j] \in Hop
          BY <1>1
    <3> QED BY <3>1 DEF Hop
  <2>2. Linked(c) \subseteq 1..Len(c)
        BY <1>1 DEF Linked
  <2> QED BY <1>4, <2>1, <2>2
<1> HIDE DEF v
<1>6. ASSUME from # to, from < to PROVE Arrives(x, f, from, to)
  <2>1. Path(x, f, from, to) = [found |-> TRUE, hops |-> UpHops(ups)]
    <3>1. c # <<>> /\ ~(from > to)
          BY <1>4, <1>5, <1>6
    <3> QED BY <1>6, <3>1 DEF Path, Between, UpHops
  <2>2. PICK k \in Linked(c), l \in Linked(c) : k <= l /\ from = c[k].from /\ to = c[l].to
        BY <1>2, <1>4, <1>6, LifeEnds
  <2>3. Keeps(ups, Hop, c, Between(c, c[k].from, c[l].to), Len(c))
        BY <1>1, <2>2, FilteredKeeps
  <2> DEFINE p == Path(x, f, from, to)
  <2>4. p.found /\ p.hops = UpHops(ups)
        BY <2>1
  <2> HIDE DEF ups, c, p
  <2>5. /\ Len(ups) \in Nat /\ Len(ups) > 0 /\ ups \in Seq(Hop)
        /\ ups[1].from = from /\ ups[Len(ups)].to = to
        /\ \A i \in 1..Len(ups) - 1 : ups[i].to = ups[i + 1].from
        BY <1>2, <2>2, <2>3, StepsArrive
  <2>6. /\ Len(p.hops) = Len(ups)
        /\ \A i \in 1..Len(ups) : p.hops[i].from = ups[i].from /\ p.hops[i].to = ups[i].to
        BY <2>4, <2>5, HopsOf
  <2>7. /\ 1 \in 1..Len(ups) /\ Len(ups) \in 1..Len(ups)
        /\ \A i \in 1..Len(ups) - 1 : i \in 1..Len(ups) /\ i + 1 \in 1..Len(ups)
        BY <2>5
  <2>8. /\ Len(p.hops) > 0 /\ p.hops[1].from = from /\ p.hops[Len(p.hops)].to = to
        /\ \A i \in 1..Len(p.hops) - 1 : p.hops[i].to = p.hops[i + 1].from
        BY <2>5, <2>6, <2>7
  <2> QED BY <2>4, <2>8 DEF Arrives, p
<1>7. ASSUME from # to, to < from PROVE Arrives(x, f, from, to)
  <2>1. Path(x, f, from, to) = [found |-> \A i \in DOMAIN downs : downs[i].down # None,
                                hops |-> DownHops(downs)]
    <3>1. c # <<>> /\ ~(from < to) /\ from > to
          BY <1>4, <1>5, <1>7
    <3> QED BY <1>7, <3>1 DEF Path, Between, DownHops
  <2>2. PICK k \in Linked(c), l \in Linked(c) : k <= l /\ to = c[k].from /\ from = c[l].to
        BY <1>2, <1>4, <1>7, LifeEnds
  <2>3. Keeps(downs, Hop, c, Between(c, c[k].from, c[l].to), Len(c))
        BY <1>1, <2>2, FilteredKeeps
  <2> DEFINE p == Path(x, f, from, to)
  <2>4. p.found = (\A i \in DOMAIN downs : downs[i].down # None) /\ p.hops = DownHops(downs)
        BY <2>1
  <2> HIDE DEF downs, p
  <2>5. /\ Len(downs) \in Nat /\ Len(downs) > 0 /\ downs \in Seq(Hop)
        /\ downs[1].from = to /\ downs[Len(downs)].to = from
        /\ \A i \in 1..Len(downs) - 1 : downs[i].to = downs[i + 1].from
        /\ \A i \in 1..Len(downs) : \E j \in 1..Len(c) :
              downs[i] = c[j] /\ c[j].from >= to /\ c[j].to <= from
    <3> HIDE DEF c
    <3> QED BY <1>2, <2>2, <2>3, StepsArrive
  <2>6. CASE p.found
    <3> DEFINE n == Len(downs)
    <3>1. /\ Len(p.hops) = n
          /\ \A i \in 1..n : /\ p.hops[i].from = downs[n + 1 - i].to
                              /\ p.hops[i].to = downs[n + 1 - i].from
          BY <2>4, <2>5, HopsOf
    <3> HIDE DEF n
    <3>2. n \in Nat /\ n > 0 /\ 1 \in 1..n /\ n \in 1..n /\ n + 1 - 1 = n /\ n + 1 - n = 1
          BY <2>5 DEF n
    <3>3. \A i \in 1..n - 1 : /\ i \in 1..n /\ i + 1 \in 1..n /\ n - i \in 1..n - 1
                              /\ n + 1 - (i + 1) = n - i /\ (n - i) + 1 = n + 1 - i
          BY <3>2
    <3>4. \A i \in 1..n - 1 : p.hops[i].to = p.hops[i + 1].from
      <4> SUFFICES ASSUME NEW i \in 1..n - 1 PROVE p.hops[i].to = p.hops[i + 1].from
          OBVIOUS
      <4>1. p.hops[i].to = downs[n + 1 - i].from /\ p.hops[i + 1].from = downs[n + 1 - (i + 1)].to
            BY <3>1, <3>3
      <4>2. downs[n - i].to = downs[(n - i) + 1].from
            BY <2>5, <3>3 DEF n
      <4> QED BY <3>3, <4>1, <4>2
    <3>5. p.hops[1].from = from /\ p.hops[n].to = to
      <4>1. p.hops[1].from = downs[n + 1 - 1].to /\ p.hops[n].to = downs[n + 1 - n].from
            BY <3>1, <3>2
      <4> QED BY <2>5, <3>2, <4>1 DEF n
    <3> QED BY <2>6, <3>1, <3>2, <3>4, <3>5 DEF Arrives, p
  <2>7. CASE ~p.found
    <3>1. PICK i \in 1..Len(downs) : downs[i].down = None
          BY <2>4, <2>5, <2>7
    <3>2. PICK j \in 1..Len(c) : downs[i] = c[j] /\ c[j].from >= to /\ c[j].to <= from
          BY <2>5
    <3> QED BY <1>1, <2>7, <3>1, <3>2 DEF Arrives, p
  <2> QED BY <2>6, <2>7
<1> QED BY <1>3, <1>5, <1>6, <1>7

---------------------------------------------------------------------------
(* Producers                                                                *)

\* A migration reads and writes versions of one field, at layers of Q where it stands.
ReadsAndWrites(V, Q, n, role) ==
    /\ role.name = n /\ role.field \in Field /\ role.input \in Q /\ role.output \in Q
    /\ V[role.output].fields[role.field].version = role.output
    /\ V[role.input].fields[role.field].version = role.input

(* A migration's versions are layers of the path where its field stands.    *)
LEMMA RolesStand ==
    ASSUME NEW V, NEW L, NEW Q, Q \subseteq Nat, NEW a, NEW x, Mid(V, L, Q, a, x),
           \A v \in Q : v < a,
           NEW n \in Name, NEW role \in Roles(x, n)
    PROVE  ReadsAndWrites(V, Q, n, role)
<1> DEFINE p == x.producers[n]
           chain == IF p.role \in {"up", "down"} THEN x.chains[p.field] ELSE <<>>
           named == {i \in DOMAIN chain : IF p.role = "up" THEN chain[i].up = n ELSE chain[i].down = n}
           s == chain[Min(named)]
           R == [name |-> n, field |-> p.field,
                 input |-> IF p.role = "up" THEN s.from ELSE s.to,
                 output |-> IF p.role = "up" THEN s.to ELSE s.from,
                 step |-> {s.up, s.down} \ {None}]
<1>0. Roles(x, n) = IF named = {} THEN {} ELSE {R}
    BY Zenon DEF Roles
<1>1. /\ named # {} /\ role.name = n /\ role.field = p.field
      /\ role.input = (IF p.role = "up" THEN s.from ELSE s.to)
      /\ role.output = (IF p.role = "up" THEN s.to ELSE s.from)
  <2> HIDE DEF named, s, p
  <2>1. named # {} /\ role = R
        BY <1>0
  <2> QED BY <2>1
<1>2. p.role \in {"up", "down"} /\ chain = x.chains[p.field]
  <2>1. named # {}
        BY <1>1
  <2>2. chain # <<>>
        BY <2>1
  <2> HIDE DEF named, s, p
  <2> QED BY <2>2
<1>3. p.field \in Field
  <2>1. p \in Making
        BY DEF Mid, ViewType
  <2> HIDE DEF p
  <2>2. p.role \notin {"pipeline", None}
        BY <1>2, NothingIsNone
  <2> QED BY <2>1, <2>2 DEF Making
<1>4. chain \in Seq(Hop)
    BY <1>2, <1>3 DEF Mid, ViewType
<1>5. Min(named) \in 1..Len(chain)
  <2>1. named \subseteq 1..Len(chain) /\ 1..Len(chain) \subseteq Nat
        BY <1>4
  <2> HIDE DEF named
  <2> QED BY <1>1, <2>1, MinIs
<1>6. ChainStands(V, Q, a, x, p.field)
    BY <1>3 DEF Mid
<1>7. StepStands(V, Q, a, x, p.field, s)
    BY <1>2, <1>5, <1>6 DEF ChainStands
<1>8. /\ s.from \in Q /\ s.to \in Q
      /\ V[s.from].fields[p.field].version = s.from /\ V[s.to].fields[p.field].version = s.to
    BY <1>7 DEF StepStands
<1> HIDE DEF s, p
<1> QED BY <1>1, <1>3, <1>8 DEF ReadsAndWrites

---------------------------------------------------------------------------
(* The inductive invariant                                                  *)

LayerRec == [on : Branch, kind : {"def", "source", "derived"}, events : SUBSET DefEvent,
             cells : SUBSET Cell]

\* A record of a version on the log, of a type its layer names.
Fits(L, c) == c.version <= Len(L) /\ c.type \in TypesIn(L, c.field, c.version)

LayerOK(L, fork, i) ==
    /\ IsFiniteSet(L[i].events)
    /\ \A e \in L[i].events : e.kind = "delete" => L[i].events = {e}
    /\ L[i].kind # "def" => L[i].events = {}
    /\ L[i].on = "child" => 0 < fork /\ fork < i
    /\ \A c \in L[i].cells : c.version < i /\ Fits(L, c)

LogOK(L, fork) ==
    /\ L \in Seq(LayerRec)
    /\ fork \in 0..Len(L)
    /\ \A i \in 1..Len(L) : LayerOK(L, fork, i)

ViewsOK(L, fork) == \A b \in Branch : \A i \in 0..Len(L) : ViewsOf(L, PathOf(L, fork, b))[i].ok

RoundType(roles) == [on : Branch \cup {None}, pending : SUBSET roles, reading : SUBSET (roles \X Cell),
                     fresh : SUBSET Cell, out : SUBSET Cell, ran : Seq(Name)]

\* A branch's view, its migrations, and its own layers above a watermark.
HeadOf(L, fork, b) == ViewsOf(L, PathOf(L, fork, b))[Len(L)]
RolesIn(L, fork, b) == UNION {Roles(HeadOf(L, fork, b), n) : n \in Name}
Above(L, at, b) == {i \in at + 1..Len(L) : L[i].on = b /\ L[i].kind # "derived"}

\* A round has something to chase, runs its branch's migrations, and writes what fits.
RoundOK(L, fork, marks, r) ==
    /\ r \in RoundType(RolesIn(L, fork, r.on))
    /\ r.on = None => r = Idle
    /\ r.on # None => Above(L, marks[r.on], r.on) # {}
    /\ \A c \in r.fresh \cup r.out : Fits(L, c)

MarksOK(L, marks) == marks \in [Branch -> Nat] /\ \A b \in Branch : marks[b] <= Len(L)

IInv ==
    /\ LogOK(log, forkAt)
    /\ ViewsOK(log, forkAt)
    /\ MarksOK(log, mark)
    /\ RoundOK(log, forkAt, mark, round)
    /\ left \in Budget

---------------------------------------------------------------------------

\* The layers of a log that is in order can be folded.
LEMMA LogLegible ==
    ASSUME NEW L, NEW fork, LogOK(L, fork), NEW b
    PROVE  Legible(L, PathOf(L, fork, b)) /\ DOMAIN L = 1..Len(L)
<1>1. L \in Seq(LayerRec) /\ Len(L) \in Nat /\ DOMAIN L = 1..Len(L)
    BY DEF LogOK
<1>2. \A i \in 1..Len(L) : L[i].events \subseteq DefEvent
  <2>1. \A i \in 1..Len(L) : L[i] \in LayerRec
        BY <1>1
  <2> QED BY <2>1 DEF LayerRec
<1>3. \A i \in 1..Len(L) : IsFiniteSet(L[i].events)
                           /\ \A e \in L[i].events : e.kind = "delete" => L[i].events = {e}
    BY DEF LogOK, LayerOK
<1>4. PathOf(L, fork, b) \subseteq 1..Len(L)
    BY <1>1 DEF PathOf
<1> QED BY <1>1, <1>2, <1>3, <1>4 DEF Legible

(* The views of a log, and what each says of those before it.               *)
LEMMA LogViews ==
    ASSUME NEW L, NEW fork, LogOK(L, fork), NEW b, NEW V, V = ViewsOf(L, PathOf(L, fork, b))
    PROVE  /\ Folds(V, L, PathOf(L, fork, b)) /\ Standing(V, L, PathOf(L, fork, b))
           /\ \A i \in 0..Len(L) : V[i] \in ViewType
<1> DEFINE P == PathOf(L, fork, b)
<1>1. Legible(L, P) /\ Len(L) \in Nat
    BY LogLegible DEF Legible
<1> HIDE DEF P
<1>2. Folds(V, L, P)
    BY <1>1, ViewsFoldUp DEF P
<1>3. Standing(V, L, P)
    BY <1>1, <1>2, FoldsStand
<1> QED BY <1>2, <1>3 DEF Standing, Mid, P

(* What a branch reads, by the log alone.                                   *)
LEMMA ReadsIs ==
    /\ \A b : View(b) = HeadOf(log, forkAt, b) /\ RolesOn(b) = RolesIn(log, forkAt, b)
    /\ \A b, v : ViewAt(b, v) = ViewsOf(log, PathOf(log, forkAt, b))[v]
    /\ \A b : Unchased(b) = Above(log, mark[b], b)
    /\ \A b : OnPath(b) = PathOf(log, forkAt, b)
<1>1. \A b, v : ViewAt(b, v) = ViewsOf(log, PathOf(log, forkAt, b))[v]
    BY ViewsAtIs DEF ViewAt
<1>2. \A b : View(b) = HeadOf(log, forkAt, b)
    BY <1>1 DEF View, HeadOf
<1>3. \A b : RolesOn(b) = RolesIn(log, forkAt, b)
    BY <1>2 DEF RolesOn, RolesIn
<1>4. \A b : Unchased(b) = Above(log, mark[b], b)
    BY DEF Unchased, Above
<1> QED BY <1>1, <1>2, <1>3, <1>4, ViewsAtIs

\* The invariant gives what the run checks.
LEMMA InvGivesDefsInv == IInv => DefsInv
<1> SUFFICES ASSUME IInv PROVE DefsInv
    OBVIOUS
<1> DEFINE n == Len(log)
<1>1. LogOK(log, forkAt) /\ ViewsOK(log, forkAt) /\ RoundOK(log, forkAt, mark, round)
    BY DEF IInv
<1>2. /\ log \in Seq(LayerRec) /\ n \in Nat /\ DOMAIN log = 1..n /\ forkAt \in 0..n
      /\ \A i \in 1..n : log[i] \in LayerRec /\ LayerOK(log, forkAt, i)
    BY <1>1 DEF LogOK
<1>3. TypeOK
  <2>1. \A i \in DOMAIN log : /\ log[i].on \in Branch
                              /\ log[i].kind \in {"def", "source", "derived"}
                              /\ log[i].cells \subseteq Cell
        BY <1>2 DEF LayerRec
  <2>2. \A i \in DOMAIN log : \A c \in log[i].cells : c.version < i
        BY <1>2 DEF LayerOK
  <2>3. forkAt \in 0..Len(log) /\ \A b \in Branch : mark[b] \in 0..Len(log)
        BY <1>2 DEF IInv, MarksOK
  <2>4. round.on \in Branch \cup {None} /\ round.pending \subseteq RolesOn(round.on)
    <3>1. RolesOn(round.on) = RolesIn(log, forkAt, round.on)
          BY ReadsIs
    <3> QED BY <1>1, <3>1 DEF RoundOK, RoundType
  <2> QED BY <2>1, <2>2, <2>3, <2>4 DEF TypeOK
<1>4. RecordsFit
  <2>1. \A f, v : TypeNamed(f, v) = TypesIn(log, f, v)
        BY DEF TypeNamed, TypesIn
  <2> QED BY <1>2, <2>1 DEF RecordsFit, LayerOK, Fits
<1>5. ASSUME NEW b
      PROVE  /\ OnPath(b) = PathOf(log, forkAt, b) /\ ViewsAt(b) = ViewsOf(log, PathOf(log, forkAt, b))
             /\ View(b) = ViewsAt(b)[n] /\ OnPath(b) \subseteq 1..n
             /\ Mid(ViewsAt(b), log, OnPath(b), n + 1, View(b))
  <2>1. OnPath(b) = PathOf(log, forkAt, b) /\ ViewsAt(b) = ViewsOf(log, PathOf(log, forkAt, b))
        BY ViewsAtIs
  <2>2. View(b) = ViewsAt(b)[n]
        BY DEF View, ViewAt
  <2>3. Standing(ViewsAt(b), log, OnPath(b))
        BY <1>1, <2>1, LogViews
  <2>4. OnPath(b) \subseteq 1..n
        BY <1>2 DEF OnPath
  <2>5. OnPath(b) \cap 1..n = OnPath(b) /\ n \in 0..n
        BY <1>2, <2>4
  <2>6. Mid(ViewsAt(b), log, OnPath(b) \cap 1..n, n + 1, ViewsAt(b)[n])
        BY <2>3, <2>5 DEF Standing
  <2> HIDE DEF n
  <2> QED BY <2>1, <2>2, <2>4, <2>5, <2>6
<1>6. ViewsFold
  <2>1. \A b \in Branch : \A i \in 0..n : ViewsAt(b)[i].ok
        BY <1>1, <1>5 DEF ViewsOK
  <2>2. \A b : OnPath(b) \subseteq 0..n
        BY <1>2, <1>5
  <2> QED BY <2>1, <2>2 DEF ViewsFold
<1>7. \A b : OnPath(b) \subseteq Nat /\ \A v \in OnPath(b) : v < n + 1
    BY <1>2, <1>5
<1> HIDE DEF n
<1>8. PathsArrive
  <2>1. \A b \in Branch, f \in Field : \A from, to \in Life(View(b), f) : Arrives(View(b), f, from, to)
        BY <1>5, <1>7, PathArrives
  <2> QED BY <2>1 DEF PathsArrive, Arrives
<1>9. ProducersSeeThemselves
  <2> SUFFICES ASSUME NEW b \in Branch
               PROVE  /\ \A m \in Name : View(b).producers[m].version # 0 =>
                            /\ View(b).producers[m].version \in OnPath(b)
                            /\ ViewsAt(b)[View(b).producers[m].version].producers[m]
                                 = View(b).producers[m]
                      /\ \A role \in RolesOn(b) :
                            /\ {role.input, role.output} \subseteq OnPath(b)
                            /\ ViewsAt(b)[role.output].fields[role.field].version = role.output
                            /\ ViewsAt(b)[role.input].fields[role.field].version = role.input
      BY <1>5 DEF ProducersSeeThemselves, n
  <2>1. Mid(ViewsAt(b), log, OnPath(b), n + 1, View(b))
        BY <1>5
  <2>2. ASSUME NEW m \in Name, View(b).producers[m].version # 0
        PROVE  /\ View(b).producers[m].version \in OnPath(b)
               /\ ViewsAt(b)[View(b).producers[m].version].producers[m] = View(b).producers[m]
    <3>1. MakingStands(ViewsAt(b), OnPath(b), n + 1, View(b), m)
          BY <2>1 DEF Mid
    <3> QED BY <1>7, <2>2, <3>1 DEF MakingStands
  <2>3. ASSUME NEW role \in RolesOn(b)
        PROVE  /\ role.input \in OnPath(b) /\ role.output \in OnPath(b)
               /\ ViewsAt(b)[role.output].fields[role.field].version = role.output
               /\ ViewsAt(b)[role.input].fields[role.field].version = role.input
    <3>1. PICK m \in Name : role \in Roles(View(b), m)
          BY DEF RolesOn
    <3>2. ReadsAndWrites(ViewsAt(b), OnPath(b), m, role)
          BY <1>7, <2>1, <3>1, RolesStand
    <3> QED BY <3>2 DEF ReadsAndWrites
  <2> QED BY <2>2, <2>3
<1> QED BY <1>3, <1>4, <1>6, <1>8, <1>9 DEF DefsInv

---------------------------------------------------------------------------
(* Appending a layer                                                        *)

\* A layer names the types it names.
LEMMA TypesStay ==
    ASSUME NEW L, NEW M, NEW f, NEW v, L[v] = M[v]
    PROVE  TypesIn(L, f, v) = TypesIn(M, f, v)
BY DEF TypesIn

\* What is asked of a layer that lands on a log.
Lands(L, fork, lay) ==
    /\ lay \in LayerRec /\ IsFiniteSet(lay.events)
    /\ \A e \in lay.events : e.kind = "delete" => lay.events = {e}
    /\ lay.kind # "def" => lay.events = {}
    /\ lay.on = "child" => 0 < fork
    /\ \A c \in lay.cells : Fits(L, c)

\* A log stays in order when a layer lands on it.
LEMMA AppendOK ==
    ASSUME NEW L, NEW fork, LogOK(L, fork), NEW lay, Lands(L, fork, lay)
    PROVE  LogOK(Append(L, lay), fork)
<1> DEFINE M == Append(L, lay)
           n == Len(L)
<1>1. L \in Seq(LayerRec) /\ n \in Nat /\ fork \in 0..n /\ \A i \in 1..n : LayerOK(L, fork, i)
    BY DEF LogOK
<1>2. M \in Seq(LayerRec) /\ Len(M) = n + 1 /\ M[n + 1] = lay /\ \A i \in 1..n : M[i] = L[i]
    BY <1>1 DEF Lands
<1> HIDE DEF M
<1>3. \A c \in Cell : Fits(L, c) => Fits(M, c) /\ c.version < n + 1
  <2> SUFFICES ASSUME NEW c \in Cell, Fits(L, c) PROVE Fits(M, c) /\ c.version < n + 1
      OBVIOUS
  <2>1. c.version \in 1..n
        BY <1>1 DEF Cell, Fits
  <2>2. L[c.version] = M[c.version]
        BY <1>2, <2>1
  <2>3. TypesIn(L, c.field, c.version) = TypesIn(M, c.field, c.version)
        BY <2>2, TypesStay
  <2> QED BY <1>1, <1>2, <2>1, <2>3 DEF Fits
<1>4. \A i \in 1..n : L[i] \in LayerRec
    BY <1>1
<1>5. \A i \in 1..n : L[i].cells \subseteq Cell
    BY <1>4 DEF LayerRec
<1>6. lay.cells \subseteq Cell
    BY DEF Lands, LayerRec
<1> HIDE DEF M, n
<1>7. ASSUME NEW i \in 1..n PROVE LayerOK(M, fork, i)
    BY <1>1, <1>2, <1>3, <1>5 DEF LayerOK
<1>8. LayerOK(M, fork, n + 1)
    BY <1>1, <1>2, <1>3, <1>6 DEF LayerOK, Lands
<1>9. \A i \in 1..n + 1 : i \in 1..n \/ i = n + 1
    BY <1>1
<1>10. fork \in 0..n + 1
    BY <1>1
<1> SUFFICES LogOK(M, fork)
    BY DEF M
<1> QED BY <1>2, <1>7, <1>8, <1>9, <1>10 DEF LogOK

(* What a log says is not changed by what lands after it.                   *)
LEMMA ViewsStay ==
    ASSUME NEW L, NEW M, NEW fork, LogOK(L, fork), LogOK(M, fork), Len(L) <= Len(M),
           \A i \in 1..Len(L) : M[i] = L[i], NEW b
    PROVE  \A i \in 0..Len(L) : ViewsOf(M, PathOf(M, fork, b))[i] = ViewsOf(L, PathOf(L, fork, b))[i]
<1> DEFINE P == PathOf(L, fork, b)
           R == PathOf(M, fork, b)
           V == ViewsOf(L, P)
           W == ViewsOf(M, R)
<1>1. Folds(V, L, P) /\ Folds(W, M, R)
    BY LogViews
<1>2. Len(L) \in Nat /\ Len(M) \in Nat /\ DOMAIN L = 1..Len(L) /\ DOMAIN M = 1..Len(M)
    BY LogLegible DEF Legible
<1>3. \A i \in 1..Len(L) : (i \in R <=> i \in P) /\ (i \in R => M[i].events = L[i].events)
    BY <1>2 DEF PathOf
<1> HIDE DEF P, R, V, W
<1>4. \A i \in 0..Len(L) : W[i] = V[i]
    BY <1>1, <1>2, <1>3, FoldsAgree
<1> QED BY <1>4 DEF P, R, V, W

(* A layer lands on its branch, and only there.                             *)
LEMMA AppendFolds ==
    ASSUME NEW L, NEW fork, LogOK(L, fork), NEW lay, Lands(L, fork, lay), NEW b \in Branch
    PROVE  ViewsOf(Append(L, lay), PathOf(Append(L, lay), fork, b))[Len(L) + 1] =
               IF b = lay.on
               THEN FoldLayer(ViewsOf(L, PathOf(L, fork, b))[Len(L)], lay.events, Len(L) + 1)
               ELSE ViewsOf(L, PathOf(L, fork, b))[Len(L)]
<1> DEFINE n == Len(L)
           M == Append(L, lay)
           R == PathOf(M, fork, b)
           W == ViewsOf(M, R)
<1>1. LogOK(M, fork)
    BY AppendOK
<1>2. n \in Nat /\ L \in Seq(LayerRec) /\ lay \in LayerRec /\ fork \in 0..n
    BY DEF LogOK, Lands
<1>3. Len(M) = n + 1 /\ M[n + 1] = lay /\ \A i \in 1..n : M[i] = L[i]
    BY <1>2
<1>4. W[n] = ViewsOf(L, PathOf(L, fork, b))[n]
  <2>1. Len(L) <= Len(M) /\ \A i \in 1..Len(L) : M[i] = L[i]
        BY <1>2, <1>3
  <2>2. Len(L) \in 0..Len(L)
        BY <1>2
  <2> HIDE DEF n, R, W, M
  <2>3. \A i \in 0..Len(L) :
           ViewsOf(M, PathOf(M, fork, b))[i] = ViewsOf(L, PathOf(L, fork, b))[i]
        BY <1>1, <2>1, ViewsStay
  <2> QED BY <2>2, <2>3 DEF n, R, W
<1>5. Folds(W, M, R)
    BY <1>1, LogViews
<1>6. W[n + 1] = IF n + 1 \in R THEN FoldLayer(W[n], lay.events, n + 1) ELSE W[n]
  <2>1. n + 1 \in 1..Len(M) /\ (n + 1) - 1 = n
        BY <1>2, <1>3
  <2> HIDE DEF n, R, W
  <2> QED BY <1>3, <1>5, <2>1 DEF Folds
<1>7. n + 1 \in R <=> b = lay.on
  <2>1. DOMAIN M = 1..n + 1 /\ n + 1 \in 1..n + 1
        BY <1>2, <1>3
  <2>2. ~(n + 1 <= fork)
        BY <1>2
  <2> QED BY <1>3, <2>1, <2>2 DEF PathOf
<1> HIDE DEF R, W, n, M
<1>8. W[n + 1] = IF b = lay.on
                 THEN FoldLayer(ViewsOf(L, PathOf(L, fork, b))[n], lay.events, n + 1)
                 ELSE ViewsOf(L, PathOf(L, fork, b))[n]
    BY <1>4, <1>6, <1>7
<1> QED BY <1>8 DEF R, W, n, M

(* A layer that the view of its branch can take leaves every view standing. *)
LEMMA AppendViewsOK ==
    ASSUME NEW L, NEW fork, LogOK(L, fork), ViewsOK(L, fork), NEW lay, Lands(L, fork, lay),
           FoldLayer(ViewsOf(L, PathOf(L, fork, lay.on))[Len(L)], lay.events, Len(L) + 1).ok
    PROVE  ViewsOK(Append(L, lay), fork)
<1> DEFINE n == Len(L)
           M == Append(L, lay)
<1>1. LogOK(M, fork)
    BY AppendOK
<1>2. n \in Nat /\ L \in Seq(LayerRec) /\ lay \in LayerRec
    BY DEF LogOK, Lands
<1>3. Len(M) = n + 1 /\ \A i \in 1..n : M[i] = L[i]
    BY <1>2
<1> SUFFICES ASSUME NEW b \in Branch, NEW i \in 0..n + 1
             PROVE  ViewsOf(M, PathOf(M, fork, b))[i].ok
    BY <1>3 DEF ViewsOK
<1>4. CASE i \in 0..n
  <2> HIDE DEF M
  <2>1. ViewsOf(M, PathOf(M, fork, b))[i] = ViewsOf(L, PathOf(L, fork, b))[i]
        BY <1>1, <1>2, <1>3, <1>4, ViewsStay
  <2> QED BY <1>4, <2>1 DEF ViewsOK
<1>5. CASE i = n + 1
  <2>1. n \in 0..n
        BY <1>2
  <2>2. ViewsOf(L, PathOf(L, fork, b))[n].ok
        BY <2>1 DEF ViewsOK
  <2>3. ViewsOf(M, PathOf(M, fork, b))[n + 1] =
               IF b = lay.on
               THEN FoldLayer(ViewsOf(L, PathOf(L, fork, b))[n], lay.events, n + 1)
               ELSE ViewsOf(L, PathOf(L, fork, b))[n]
        BY AppendFolds
  <2> HIDE DEF M, n
  <2>4. b = lay.on => FoldLayer(ViewsOf(L, PathOf(L, fork, b))[n], lay.events, n + 1).ok
        BY DEF n
  <2> QED BY <1>5, <2>2, <2>3, <2>4
<1> QED BY <1>2, <1>4, <1>5

---------------------------------------------------------------------------
(* What a push lands                                                        *)

\* What a description is made of.
LEMMA DescriptionsAre ==
    ASSUME NEW d \in Descriptions
    PROVE  /\ d.id \in Nat \ {0} /\ d.repo \in Repo
           /\ IsFiniteSet(d.fields) /\ IsFiniteSet(d.pipelines)
           /\ \A s \in d.fields : /\ s.field \in Field /\ s.type \in Type /\ s.owner \in Owner
                                  /\ s.up \in Name \cup {None} /\ s.down \in Name \cup {None}
                                  /\ s.print \in Code \cup {None}
           /\ \A p \in d.pipelines : p.name \in Name /\ p.print \in Code \cup {None}
<1>1. /\ d.id \in Nat \ {0} /\ d.repo \in Repo
      /\ IsFiniteSet(d.fields) /\ IsFiniteSet(d.pipelines)
      /\ d.fields \subseteq FieldSpec
      /\ d.pipelines \subseteq [name : Name, print : Code \cup {None}]
    BY DefinitionsAssumption DEF DefinitionsAssumption
<1> QED BY <1>1 DEF FieldSpec

(* What is made of each element of a finite set is a finite set.            *)
LEMMA FiniteImage ==
    ASSUME NEW S, IsFiniteSet(S), NEW g
    PROVE  IsFiniteSet({g[x] : x \in S})
<1> DEFINE T == {g[x] : x \in S}
           h == [x \in S |-> g[x]]
<1>1. h \in Surjection(S, T)
    BY DEF Surjection
<1> HIDE DEF h
<1> QED BY <1>1, FS_Surjection

\* The producers a push lands are producer events, and finitely many.
LEMMA DescribedTyped ==
    ASSUME NEW d \in Descriptions
    PROVE  /\ Described(d) \subseteq DefEvent /\ IsFiniteSet(Described(d))
           /\ \A e \in Described(d) : e.kind = "producer"
<1> DEFINE A == {PushProducer(p.name, "pipeline", None, d.repo, p.print) : p \in d.pipelines}
           Us == {s \in d.fields : s.up # None}
           Ds == {s \in d.fields : s.down # None}
           B == {PushProducer(s.up, "up", s.field, d.repo, s.print) : s \in Us}
           C == {PushProducer(s.down, "down", s.field, d.repo, s.print) : s \in Ds}
<1>1. Described(d) = A \cup B \cup C
    BY Zenon DEF Described
<1>2. A \subseteq DefEvent /\ \A e \in A : e.kind = "producer"
    BY DescriptionsAre DEF DefEvent, PushProducer
<1>3. B \subseteq DefEvent /\ \A e \in B : e.kind = "producer"
    BY DescriptionsAre DEF DefEvent, PushProducer
<1>4. C \subseteq DefEvent /\ \A e \in C : e.kind = "producer"
    BY DescriptionsAre DEF DefEvent, PushProducer
<1>5. IsFiniteSet(A)
  <2> DEFINE g == [p \in d.pipelines |-> PushProducer(p.name, "pipeline", None, d.repo, p.print)]
  <2>1. A = {g[p] : p \in d.pipelines}
        OBVIOUS
  <2> HIDE DEF A, g
  <2> QED BY <2>1, DescriptionsAre, FiniteImage
<1>6. IsFiniteSet(B)
  <2> DEFINE g == [s \in Us |-> PushProducer(s.up, "up", s.field, d.repo, s.print)]
  <2>1. B = {g[s] : s \in Us}
        OBVIOUS
  <2>2. IsFiniteSet(Us)
        BY DescriptionsAre, FS_Subset
  <2> HIDE DEF B, g, Us
  <2> QED BY <2>1, <2>2, FiniteImage
<1>7. IsFiniteSet(C)
  <2> DEFINE g == [s \in Ds |-> PushProducer(s.down, "down", s.field, d.repo, s.print)]
  <2>1. C = {g[s] : s \in Ds}
        OBVIOUS
  <2>2. IsFiniteSet(Ds)
        BY DescriptionsAre, FS_Subset
  <2> HIDE DEF C, g, Ds
  <2> QED BY <2>1, <2>2, FiniteImage
<1> HIDE DEF A, B, C
<1>8. IsFiniteSet(A \cup B \cup C)
    BY <1>5, <1>6, <1>7, FS_Union
<1> QED BY <1>1, <1>2, <1>3, <1>4, <1>8

\* The events of a push are def events, finitely many, and delete nothing.
LEMMA PushTyped ==
    ASSUME NEW d \in Descriptions, NEW view, ~Unpushable(view, d)
    PROVE  /\ PushEvents(view, d) \subseteq DefEvent /\ IsFiniteSet(PushEvents(view, d))
           /\ \A e \in PushEvents(view, d) : e.kind # "delete"
<1> DEFINE A == {e \in Described(d) : ~Unchanged(view.producers[e.name], e)}
           Ms == {s \in d.fields : Moved(view, s)}
           Ds == {s \in d.fields : ~Moved(view, s) /\ ~Repeats(view, d, s)}
           B == {Mutate(s.field, s.type, d.repo, s.up, s.down) : s \in Ms}
           C == {Declare(s.field, s.type, d.repo, s.owner) : s \in Ds}
<1>1. PushEvents(view, d) = A \cup B \cup C
    BY Zenon DEF PushEvents
<1>2. A \subseteq DefEvent /\ IsFiniteSet(A) /\ \A e \in A : e.kind # "delete"
  <2>1. A \subseteq Described(d)
        OBVIOUS
  <2> HIDE DEF A
  <2> QED BY <2>1, DescribedTyped, FS_Subset
<1>3. \A s \in Ms : s.up \in Name
    BY DescriptionsAre DEF Unpushable
<1>4. B \subseteq DefEvent /\ \A e \in B : e.kind # "delete"
    BY <1>3, DescriptionsAre DEF DefEvent, ByHand, Mutate
<1>5. C \subseteq DefEvent /\ \A e \in C : e.kind # "delete"
    BY DescriptionsAre DEF DefEvent, ByHand, Declare
<1>6. IsFiniteSet(B)
  <2> DEFINE g == [s \in Ms |-> Mutate(s.field, s.type, d.repo, s.up, s.down)]
  <2>1. B = {g[s] : s \in Ms}
        OBVIOUS
  <2>2. IsFiniteSet(Ms)
        BY DescriptionsAre, FS_Subset
  <2> HIDE DEF B, g, Ms
  <2> QED BY <2>1, <2>2, FiniteImage
<1>7. IsFiniteSet(C)
  <2> DEFINE g == [s \in Ds |-> Declare(s.field, s.type, d.repo, s.owner)]
  <2>1. C = {g[s] : s \in Ds}
        OBVIOUS
  <2>2. IsFiniteSet(Ds)
        BY DescriptionsAre, FS_Subset
  <2> HIDE DEF C, g, Ds
  <2> QED BY <2>1, <2>2, FiniteImage
<1> HIDE DEF A, B, C
<1>8. IsFiniteSet(A \cup B \cup C)
    BY <1>2, <1>6, <1>7, FS_Union
<1> QED BY <1>1, <1>2, <1>4, <1>5, <1>8

---------------------------------------------------------------------------
(* Steps                                                                    *)

\* The invariant holds at first.
LEMMA InvInit == Init => IInv
<1> SUFFICES ASSUME Init PROVE IInv
    OBVIOUS
<1>1. log = <<>> /\ forkAt = 0 /\ mark = [b \in Branch |-> 0] /\ round = Idle /\ left \in Scenarios
    BY DEF Init
<1>2. Len(log) = 0 /\ log \in Seq(LayerRec) /\ 1..0 = {} /\ 0..0 = {0}
    BY <1>1
<1>3. LogOK(log, forkAt)
    BY <1>1, <1>2 DEF LogOK
<1>4. ViewsOK(log, forkAt)
  <2>1. \A b \in Branch : ViewsOf(log, PathOf(log, forkAt, b))[0] = EmptyView
        BY <1>3, LogViews DEF Folds
  <2>2. EmptyView.ok
        BY DEF EmptyView
  <2> QED BY <1>2, <2>1, <2>2 DEF ViewsOK
<1>5. RoundOK(log, forkAt, mark, round)
  <2>1. /\ round.on = None /\ round.pending = {} /\ round.reading = {} /\ round.fresh = {}
        /\ round.out = {} /\ round.ran = <<>>
        BY <1>1 DEF Idle
  <2>2. \A roles : Idle \in RoundType(roles)
        BY DEF Idle, RoundType
  <2> QED BY <1>1, <2>1, <2>2 DEF RoundOK
<1>6. left \in Budget
    BY <1>1, DefinitionsAssumption DEF DefinitionsAssumption
<1>7. MarksOK(log, mark)
    BY <1>1, <1>2 DEF MarksOK
<1> QED BY <1>3, <1>4, <1>5, <1>6, <1>7 DEF IInv

(* A field in force was named, with its type, by a layer no later.          *)
LEMMA FieldNamed ==
    ASSUME NEW L, NEW fork, LogOK(L, fork), NEW b, NEW i \in 0..Len(L), NEW f \in Field,
           NEW v, v = ViewsOf(L, PathOf(L, fork, b))[i].fields[f].version, v # 0
    PROVE  /\ v \in 1..i
           /\ ViewsOf(L, PathOf(L, fork, b))[i].fields[f].type \in TypesIn(L, f, v)
           /\ ViewsOf(L, PathOf(L, fork, b))[i].fields[f].type \in Type
<1> DEFINE P == PathOf(L, fork, b)
           V == ViewsOf(L, P)
<1>1. Standing(V, L, P) /\ Legible(L, P)
    BY LogViews, LogLegible
<1> HIDE DEF P, V
<1>2. FieldStands(V, L, P \cap 1..i, i + 1, V[i], f)
    BY <1>1 DEF Standing, Mid
<1>3. v = V[i].fields[f].version
    BY DEF V, P
<1>4. v \in P \cap 1..i /\ V[i].fields[f].type \in TypesIn(L, f, v)
    BY <1>2, <1>3 DEF FieldStands
<1>5. v \in 1..Len(L) /\ L[v].events \subseteq DefEvent
    BY <1>1, <1>4 DEF Legible
<1>6. \A e \in DefEvent : e.kind \in {"declare", "mutate"} => e.type \in Type
    BY EventKinds
<1>7. TypesIn(L, f, v) \subseteq Type
    BY <1>5, <1>6 DEF TypesIn
<1> QED BY <1>4, <1>7 DEF V, P

\* No round is a round in order.
LEMMA IdleOK == \A L, fork, marks : RoundOK(L, fork, marks, Idle)
<1> SUFFICES ASSUME NEW L, NEW fork, NEW marks PROVE RoundOK(L, fork, marks, Idle)
    OBVIOUS
<1>1. /\ Idle.on = None /\ Idle.fresh = {} /\ Idle.out = {}
    BY DEF Idle
<1>2. \A roles : Idle \in RoundType(roles)
    BY DEF Idle, RoundType
<1> HIDE DEF Idle
<1> QED BY <1>1, <1>2 DEF RoundOK

\* One fewer of an operation.
LEMMA BudgetFalls ==
    ASSUME NEW l \in Budget
    PROVE  /\ l.pushes > 0 => [l EXCEPT !.pushes = @ - 1] \in Budget
           /\ l.events > 0 => [l EXCEPT !.events = @ - 1] \in Budget
           /\ l.writes > 0 => [l EXCEPT !.writes = @ - 1] \in Budget
           /\ l.forks > 0 => [l EXCEPT !.forks = @ - 1] \in Budget
           /\ l.merges > 0 => \A k \in Nat : [l EXCEPT !.merges = @ - 1, !.crashes = k] \in Budget
<1>1. /\ l.pushes > 0 => l.pushes - 1 \in Nat
      /\ l.events > 0 => l.events - 1 \in Nat
      /\ l.writes > 0 => l.writes - 1 \in Nat
      /\ l.forks > 0 => l.forks - 1 \in Nat
      /\ l.merges > 0 => l.merges - 1 \in Nat
    BY DEF Budget
<1> QED BY <1>1 DEF Budget

(* One layer, taken by its branch, while no round runs.                     *)
LEMMA LayerKeeps ==
    ASSUME IInv, Free, NEW lay, Lands(log, forkAt, lay),
           FoldLayer(View(lay.on), lay.events, Len(log) + 1).ok,
           NEW M, M = Append(log, lay)
    PROVE  LogOK(M, forkAt) /\ ViewsOK(M, forkAt) /\ MarksOK(M, mark) /\ RoundOK(M, forkAt, mark, round)
<1>1. LogOK(log, forkAt) /\ ViewsOK(log, forkAt) /\ MarksOK(log, mark) /\ round = Idle
    BY DEF IInv, Free, RoundOK
<1>2. LogOK(Append(log, lay), forkAt)
    BY <1>1, AppendOK
<1>3. FoldLayer(ViewsOf(log, PathOf(log, forkAt, lay.on))[Len(log)], lay.events, Len(log) + 1).ok
    BY ReadsIs DEF HeadOf
<1>4. ViewsOK(Append(log, lay), forkAt)
    BY <1>1, <1>3, AppendViewsOK
<1>5. Len(M) = Len(log) + 1 /\ Len(log) \in Nat
    BY <1>1 DEF LogOK, Lands
<1>6. MarksOK(M, mark)
    BY <1>1, <1>5 DEF MarksOK
<1> QED BY <1>1, <1>2, <1>4, <1>6, IdleOK

\* A hand pushes an event.
LEMMA InvDefPush ==
    ASSUME IInv, NEW b \in Branch, NEW e \in left.vocabulary, DefPush(b, e)
    PROVE  IInv'
<1> DEFINE lay == Layer(b, "def", {e}, {})
<1>1. /\ Free /\ Exists(b) /\ left.events > 0
      /\ FoldLayer(View(b), {e}, Len(log) + 1).ok
      /\ log' = Append(log, lay) /\ forkAt' = forkAt /\ mark' = mark /\ round' = round
      /\ left' = [left EXCEPT !.events = @ - 1]
    BY DEF DefPush
<1>2. LogOK(log, forkAt) /\ left \in Budget
    BY DEF IInv
<1>3. e \in DefEvent
  <2>1. left.vocabulary \subseteq ByHand
        BY <1>2 DEF Budget
  <2> QED BY <2>1 DEF DefEvent
<1>4. forkAt \in Nat /\ (b = "child" => 0 < forkAt)
    BY <1>1, <1>2 DEF LogOK, Exists
<1>5. Lands(log, forkAt, lay) /\ lay.on = b /\ lay.events = {e}
    BY <1>3, <1>4, FS_Singleton DEF Lands, Layer, LayerRec
<1> HIDE DEF lay
<1>6. LogOK(log', forkAt) /\ ViewsOK(log', forkAt) /\ MarksOK(log', mark) /\ RoundOK(log', forkAt, mark, round)
    BY <1>1, <1>5, LayerKeeps
<1>7. left' \in Budget
    BY <1>1, <1>2, BudgetFalls
<1> QED BY <1>1, <1>6, <1>7 DEF IInv

\* A repo pushes what it describes.
LEMMA InvRepoPush ==
    ASSUME IInv, NEW b \in Branch, NEW d \in Descriptions, RepoPush(b, d)
    PROVE  IInv'
<1> DEFINE events == PushEvents(View(b), d)
           lay == Layer(b, "def", events, {})
<1>1. /\ Free /\ Exists(b) /\ left.pushes > 0 /\ ~Unpushable(View(b), d)
      /\ FoldLayer(View(b), events, Len(log) + 1).ok
      /\ log' = (IF events = {} THEN log ELSE Append(log, lay))
      /\ forkAt' = forkAt /\ mark' = mark /\ round' = round
      /\ left' = [left EXCEPT !.pushes = @ - 1]
    BY DEF RepoPush
<1>2. LogOK(log, forkAt) /\ left \in Budget
    BY DEF IInv
<1>3. events \subseteq DefEvent /\ IsFiniteSet(events) /\ \A e \in events : e.kind # "delete"
    BY <1>1, PushTyped
<1>4. forkAt \in Nat /\ (b = "child" => 0 < forkAt)
    BY <1>1, <1>2 DEF LogOK, Exists
<1> HIDE DEF events
<1>5. Lands(log, forkAt, lay) /\ lay.on = b /\ lay.events = events
    BY <1>3, <1>4 DEF Lands, Layer, LayerRec
<1> HIDE DEF lay
<1>6. LogOK(log', forkAt) /\ ViewsOK(log', forkAt) /\ MarksOK(log', mark) /\ RoundOK(log', forkAt, mark, round)
  <2>1. CASE log' = log
        BY <2>1 DEF IInv
  <2>2. CASE log' = Append(log, lay)
        BY <1>1, <1>5, <2>2, LayerKeeps
  <2> QED BY <1>1, <2>1, <2>2
<1>7. left' \in Budget
    BY <1>1, <1>2, BudgetFalls
<1> QED BY <1>1, <1>6, <1>7 DEF IInv

\* A client writes at its own version.
LEMMA InvWrite ==
    ASSUME IInv, NEW b \in Branch, NEW f \in Field, NEW c \in DOMAIN log, Write(b, f, c)
    PROVE  IInv'
<1> DEFINE own == ViewAt(b, c)
           lay == Layer(b, "source", {}, WrittenBy(f, own, Len(log) + 1))
<1>1. /\ Free /\ Exists(b) /\ left.writes > 0 /\ own.fields[f].version # 0
      /\ log' = Append(log, lay) /\ forkAt' = forkAt /\ mark' = mark /\ round' = round
      /\ left' = [left EXCEPT !.writes = @ - 1]
    BY DEF Write, MayWrite
<1>2. LogOK(log, forkAt) /\ left \in Budget /\ ViewsOK(log, forkAt)
    BY DEF IInv
<1>3. forkAt \in Nat /\ (b = "child" => 0 < forkAt) /\ Len(log) \in Nat /\ c \in 0..Len(log)
    BY <1>1, <1>2 DEF LogOK, Exists
<1>4. /\ own.fields[f].version \in 1..c
      /\ own.fields[f].type \in TypesIn(log, f, own.fields[f].version)
      /\ own.fields[f].type \in Type
    BY <1>1, <1>2, <1>3, FieldNamed, ReadsIs
<1> HIDE DEF own
<1>5. Lands(log, forkAt, lay) /\ lay.on = b /\ lay.events = {}
  <2> DEFINE cell == [field |-> f, version |-> own.fields[f].version, type |-> own.fields[f].type,
                      by |-> "client", root |-> Len(log) + 1]
  <2>1. WrittenBy(f, own, Len(log) + 1) = {cell}
        BY DEF WrittenBy
  <2>2. cell \in Cell /\ Fits(log, cell)
        BY <1>3, <1>4 DEF Cell, Fits
  <2> HIDE DEF cell
  <2>3. lay = Layer(b, "source", {}, {cell})
        BY <2>1
  <2> HIDE DEF lay
  <2> QED BY <1>3, <2>2, <2>3, FS_EmptySet DEF Lands, Layer, LayerRec
<1> HIDE DEF lay
<1>6. FoldLayer(View(b), {}, Len(log) + 1).ok
  <2>1. HeadOf(log, forkAt, b).ok
        BY <1>2, <1>3 DEF ViewsOK, HeadOf
  <2> QED BY <2>1, FoldFew, ReadsIs
<1>7. LogOK(log', forkAt) /\ ViewsOK(log', forkAt) /\ MarksOK(log', mark) /\ RoundOK(log', forkAt, mark, round)
    BY <1>1, <1>5, <1>6, LayerKeeps
<1>8. left' \in Budget
    BY <1>1, <1>2, BudgetFalls
<1> QED BY <1>1, <1>7, <1>8 DEF IInv

\* A branch is forked.
LEMMA InvFork ==
    ASSUME IInv, NEW at \in DOMAIN log, Fork(at)
    PROVE  IInv'
<1>1. /\ Free /\ forkAt = 0 /\ left.forks > 0
      /\ log' = log /\ forkAt' = at /\ mark' = mark /\ round' = round
      /\ left' = [left EXCEPT !.forks = @ - 1]
    BY DEF Fork
<1>2. LogOK(log, 0) /\ ViewsOK(log, 0) /\ left \in Budget /\ MarksOK(log, mark) /\ round = Idle
    BY <1>1 DEF IInv, Free, RoundOK
<1>3. Len(log) \in Nat /\ DOMAIN log = 1..Len(log) /\ log \in Seq(LayerRec)
      /\ \A i \in 1..Len(log) : LayerOK(log, 0, i)
    BY <1>2 DEF LogOK
<1>4. \A i \in 1..Len(log) : log[i].on # "child"
    BY <1>3 DEF LayerOK
<1>5. LogOK(log, at)
  <2>1. \A i \in 1..Len(log) : LayerOK(log, at, i)
        BY <1>3, <1>4 DEF LayerOK
  <2> QED BY <1>3, <2>1 DEF LogOK
<1>6. ViewsOK(log, at)
  <2> DEFINE P(b) == PathOf(log, 0, b)
             R(b) == PathOf(log, at, b)
             V(b) == ViewsOf(log, P(b))
             W(b) == ViewsOf(log, R(b))
  <2>1. \A b \in Branch : \A i \in 0..Len(log) : V(b)[i].ok
        BY <1>2 DEF ViewsOK
  <2>2. \A b : Folds(V(b), log, P(b)) /\ Folds(W(b), log, R(b))
        BY <1>2, <1>5, LogViews
  <2>3. \A i \in 1..Len(log) : i \in R("main") <=> i \in P("main")
        BY DEF PathOf
  <2>4. \A i \in 1..Len(log) : i \in R("child") <=> i \in P("main") /\ i <= at
        BY <1>3, <1>4 DEF PathOf
  <2>5. at \in Nat /\ at <= Len(log) /\ \A i \in 1..at : i \in 1..Len(log) /\ i <= at
        BY <1>3
  <2> DEFINE Vm == V("main") Wm == W("main") Wc == W("child") Pm == P("main") Rm == R("main")
             Rc == R("child")
  <2>6. Folds(Vm, log, Pm) /\ Folds(Wm, log, Rm) /\ Folds(Wc, log, Rc)
        BY <2>2
  <2>7. \A i \in 0..Len(log) : Vm[i].ok
        BY <2>1 DEF Branch
  <2>8. (\A i \in 1..Len(log) : i \in Rm <=> i \in Pm)
        /\ \A i \in 1..Len(log) : i \in Rc <=> i \in Pm /\ i <= at
        BY <2>3, <2>4
  <2> HIDE DEF Vm, Wm, Wc, Pm, Rm, Rc
  <2>9. \A i \in 0..Len(log) : Wm[i] = Vm[i]
        BY <1>3, <2>6, <2>8, FoldsAgree
  <2>10. \A i \in 0..at : Wc[i] = Vm[i]
        BY <1>3, <2>5, <2>6, <2>8, FoldsAgree
  <2>11. ASSUME NEW i \in at..Len(log) PROVE Wc[i] = Wc[at]
    <3>1. i \in Nat /\ at <= i /\ i <= Len(log) /\ at \in Nat /\ Len(log) \in Nat
          BY <1>3, <2>5
    <3>2. \A j \in at + 1..i : j \in 1..Len(log) /\ ~(j <= at)
          BY <3>1
    <3>3. \A j \in at + 1..i : j \in Rc => log[j].events = {}
          BY <2>8, <3>2
    <3>4. Quiet(log, Rc, at, i)
          BY <3>1, <3>3 DEF Quiet
    <3> QED BY <2>6, <3>4, FoldsStay
  <2>12. \A i \in 0..Len(log) : Wm[i].ok /\ Wc[i].ok
    <3> SUFFICES ASSUME NEW i \in 0..Len(log) PROVE Wm[i].ok /\ Wc[i].ok
        OBVIOUS
    <3>1. Wm[i].ok
          BY <2>7, <2>9
    <3>2. CASE i <= at
      <4>1. i \in 0..at
            BY <1>3, <2>5, <3>2
      <4> QED BY <2>7, <2>10, <3>1, <4>1
    <3>3. CASE ~(i <= at)
      <4>1. i \in at..Len(log) /\ at \in 0..at /\ at \in 0..Len(log)
            BY <1>3, <2>5, <3>3
      <4> QED BY <2>7, <2>10, <2>11, <3>1, <4>1
    <3> QED BY <3>2, <3>3
  <2> QED BY <2>12 DEF ViewsOK, Branch, Wm, Wc
<1>7. left' \in Budget
    BY <1>1, <1>2, BudgetFalls
<1> QED BY <1>1, <1>2, <1>5, <1>6, <1>7, IdleOK DEF IInv

---------------------------------------------------------------------------
(* Rounds                                                                   *)

\* The layers a round owes a branch reach no further than the log does.
LEMMA MinMaxBranch ==
    ASSUME NEW L, NEW fork, LogOK(L, fork), NEW at \in Nat, NEW b, Above(L, at, b) # {}
    PROVE  /\ Max(Above(L, at, b)) \in Nat /\ Max(Above(L, at, b)) <= Len(L)
           /\ b = "child" => 0 < fork
<1>1. Len(L) \in Nat /\ \A i \in 1..Len(L) : LayerOK(L, fork, i)
    BY DEF LogOK
<1>2. Above(L, at, b) \subseteq 0..Len(L) /\ \A i \in Above(L, at, b) : i \in 1..Len(L) /\ L[i].on = b
    BY <1>1 DEF Above
<1>3. Max(Above(L, at, b)) \in Above(L, at, b)
    BY <1>1, <1>2, MaxIs
<1> QED BY <1>1, <1>2, <1>3 DEF LayerOK

(* The round runs on a branch while it runs.                                *)
LEMMA RoundRuns ==
    ASSUME IInv, round.pending # {} \/ round.reading # {} \/ round.fresh # {} \/ round.on # None
    PROVE  round.on \in Branch
<1>1. RoundOK(log, forkAt, mark, round)
    BY DEF IInv
<1>2. round.on # None
    BY <1>1 DEF RoundOK, Idle
<1> QED BY <1>1, <1>2 DEF RoundOK, RoundType

\* A round begins.
LEMMA InvBeginRound ==
    ASSUME IInv, NEW b \in Branch, BeginRound(b)
    PROVE  IInv'
<1> DEFINE S == {role \in RolesOn(b) :
                       \/ Owes(b, role)
                       \/ \E i \in Unchased(b) : Triggered(role, log[i].cells)}
<1>1. /\ Unchased(b) # {} /\ round' = [Idle EXCEPT !.on = b, !.pending = S]
      /\ log' = log /\ forkAt' = forkAt /\ mark' = mark /\ left' = left
    BY DEF BeginRound, Unsettled
<1>2. S \subseteq RolesIn(log, forkAt, b)
    BY ReadsIs
<1> HIDE DEF S
<1>3. round' = [on |-> b, pending |-> S, reading |-> {}, fresh |-> {}, out |-> {}, ran |-> <<>>]
    BY <1>1 DEF Idle
<1>4. round' \in RoundType(RolesIn(log, forkAt, b))
    BY <1>2, <1>3 DEF RoundType
<1>5. round'.on = b /\ round'.fresh = {} /\ round'.out = {} /\ b # None
    BY <1>3, NothingIsNone
<1>6. Above(log, mark[b], b) # {}
    BY <1>1, ReadsIs
<1>7. RoundOK(log, forkAt, mark, round')
    BY <1>4, <1>5, <1>6 DEF RoundOK
<1> QED BY <1>1, <1>7 DEF IInv

(* The records of the log, and of the round, are records that fit.          *)
LEMMA CellsFit ==
    ASSUME IInv
    PROVE  \A b, f, v : RoundCell(b, f, v) \subseteq Cell
<1>1. /\ log \in Seq(LayerRec) /\ Len(log) \in Nat /\ round.out \subseteq Cell
      /\ RoundOK(log, forkAt, mark, round)
    BY DEF IInv, LogOK, RoundOK, RoundType
<1>2. \A i \in 1..Len(log) : log[i].cells \subseteq Cell
  <2>1. \A i \in 1..Len(log) : log[i] \in LayerRec
        BY <1>1
  <2> QED BY <2>1 DEF LayerRec
<1>3. ASSUME NEW b, NEW f, NEW v PROVE CellsAt(b, f, v) \subseteq Cell
  <2> DEFINE have == {i \in OnPath(b) : Keyed(log[i].cells, f, v) # {}}
  <2>1. have \subseteq 1..Len(log)
        BY <1>1 DEF OnPath
  <2>2. CellsAt(b, f, v) = IF have = {} THEN {} ELSE Keyed(log[Max(have)].cells, f, v)
        BY Zenon DEF CellsAt
  <2> HIDE DEF have
  <2>3. have # {} => Max(have) \in have
    <3>1. have \subseteq 0..Len(log)
          BY <2>1
    <3> QED BY <1>1, <3>1, MaxIs
  <2> QED BY <1>2, <2>1, <2>2, <2>3 DEF Keyed
<1> QED BY <1>1, <1>3 DEF RoundCell, Keyed

\* A migration is handed its inputs.
LEMMA InvConsume ==
    ASSUME IInv, NEW role \in round.pending, Consume(role)
    PROVE  IInv'
<1> DEFINE got == RoundCell(round.on, role.field, role.input)
<1>1. /\ round' = [round EXCEPT !.pending = @ \ {role}, !.reading = @ \cup ({role} \X got)]
      /\ log' = log /\ forkAt' = forkAt /\ mark' = mark /\ left' = left
    BY DEF Consume
<1>2. RoundOK(log, forkAt, mark, round)
    BY DEF IInv
<1> DEFINE roles == RolesIn(log, forkAt, round.on)
<1>3. round \in RoundType(roles) /\ got \subseteq Cell
    BY <1>2, CellsFit DEF RoundOK
<1> HIDE DEF got, roles
<1>4. role \in roles
    BY <1>3 DEF RoundType
<1>5. {role} \X got \subseteq roles \X Cell
    BY <1>3, <1>4
<1>6. /\ round' \in RoundType(roles)
      /\ round'.on = round.on /\ round'.fresh = round.fresh /\ round'.out = round.out
    BY <1>1, <1>3, <1>5 DEF RoundType
<1>7. round.on # None
    BY RoundRuns, NothingIsNone
<1>8. RoundOK(log, forkAt, mark, round')
    BY <1>2, <1>6, <1>7 DEF RoundOK, roles
<1> QED BY <1>1, <1>8 DEF IInv

(* What the last view of a path says a migration reads and writes.          *)
LEMMA HeadRoleStands ==
    ASSUME NEW V, NEW L, NEW P, Standing(V, L, P), Legible(L, P),
           NEW n \in Name, NEW role \in Roles(V[Len(L)], n)
    PROVE  ReadsAndWrites(V, P, n, role)
<1>1. P \subseteq 1..Len(L) /\ Len(L) \in Nat
    BY DEF Legible
<1>2. P \cap 1..Len(L) = P
    BY <1>1
<1>3. Len(L) \in 0..Len(L)
    BY <1>1
<1>4. Mid(V, L, P \cap 1..Len(L), Len(L) + 1, V[Len(L)])
    BY <1>3 DEF Standing
<1>5. Mid(V, L, P, Len(L) + 1, V[Len(L)])
    BY <1>2, <1>4
<1>6. P \subseteq Nat /\ \A v \in P : v < Len(L) + 1
    BY <1>1
<1> QED BY <1>5, <1>6, RolesStand

(* A branch's migrations read and write versions at which their field stands. *)
LEMMA RolesRead ==
    ASSUME NEW L, NEW fork, LogOK(L, fork), NEW b, NEW role \in RolesIn(L, fork, b)
    PROVE  /\ role.name \in Name /\ role.field \in Field /\ role.output \in PathOf(L, fork, b)
           /\ ViewsOf(L, PathOf(L, fork, b))[role.output].fields[role.field].version = role.output
<1> DEFINE P == PathOf(L, fork, b)
           V == ViewsOf(L, P)
<1>1. Standing(V, L, P) /\ Legible(L, P)
    BY LogViews, LogLegible
<1>2. PICK n \in Name : role \in Roles(V[Len(L)], n)
    BY DEF RolesIn, HeadOf
<1> HIDE DEF P, V
<1>3. ReadsAndWrites(V, P, n, role)
    BY <1>1, <1>2, HeadRoleStands
<1> QED BY <1>2, <1>3 DEF ReadsAndWrites, P, V

\* A migration writes what it makes of an input.
LEMMA InvProduce ==
    ASSUME IInv, NEW run \in round.reading, Produce(run)
    PROVE  IInv'
<1> DEFINE role == run[1]
           own == ViewAt(round.on, role.output)
           cell == Migrated(role, run[2], own)
           roles == RolesIn(log, forkAt, round.on)
<1>1. /\ round' = [round EXCEPT
                       !.reading = @ \ {run},
                       !.fresh = @ \cup {cell},
                       !.out = (@ \ Keyed(@, cell.field, cell.version)) \cup {cell},
                       !.ran = Append(@, role.name)]
      /\ log' = log /\ forkAt' = forkAt /\ mark' = mark /\ left' = left
    BY DEF Produce
<1>2. LogOK(log, forkAt) /\ RoundOK(log, forkAt, mark, round) /\ Len(log) \in Nat
    BY DEF IInv, LogOK
<1>3. round \in RoundType(roles)
    BY <1>2 DEF RoundOK
<1>4. round.on \in Branch
    BY RoundRuns
<1>5. role \in roles /\ run[2] \in Cell
  <2> HIDE DEF roles
  <2>1. run \in roles \X Cell
        BY <1>3 DEF RoundType
  <2> QED BY <2>1
<1> DEFINE P == PathOf(log, forkAt, round.on)
           V == ViewsOf(log, P)
<1>6. /\ role.name \in Name /\ role.field \in Field /\ role.output \in P
      /\ V[role.output].fields[role.field].version = role.output
  <2> HIDE DEF role
  <2>1. role \in RolesIn(log, forkAt, round.on)
        BY <1>5
  <2> QED BY <1>2, <2>1, RolesRead
<1>7. own = V[role.output] /\ role.output \in 1..Len(log)
  <2>1. P \subseteq 1..Len(log)
        BY <1>2, LogLegible DEF Legible
  <2>2. own = V[role.output]
        BY ReadsIs
  <2> QED BY <1>6, <2>1, <2>2
<1>8. /\ own.fields[role.field].version = role.output
      /\ own.fields[role.field].type \in TypesIn(log, role.field, role.output)
      /\ own.fields[role.field].type \in Type
  <2>1. role.output \in 0..Len(log) /\ role.output # 0
        BY <1>7
  <2> HIDE DEF role, own
  <2> QED BY <1>2, <1>6, <1>7, <2>1, FieldNamed
<1>9. cell \in Cell /\ Fits(log, cell)
  <2> HIDE DEF role, own
  <2>1. cell = [field |-> role.field, version |-> role.output, type |-> own.fields[role.field].type,
                by |-> role.name, root |-> run[2].root]
        BY <1>8 DEF Migrated
  <2>2. run[2].root \in Nat \ {0}
        BY <1>5 DEF Cell
  <2>3. cell \in Cell
        BY <1>6, <1>7, <1>8, <2>1, <2>2 DEF Cell
  <2>4. cell.field = role.field /\ cell.version = role.output
        /\ cell.type = own.fields[role.field].type
        BY <2>1
  <2> QED BY <1>2, <1>7, <1>8, <2>3, <2>4 DEF Fits
<1>10. role.name \in Name
    BY <1>6
<1> DEFINE kept == round.out \ Keyed(round.out, cell.field, cell.version)
           name == role.name
<1>11. kept \subseteq round.out
    OBVIOUS
<1>12. round' = [round EXCEPT !.reading = @ \ {run}, !.fresh = @ \cup {cell},
                              !.out = kept \cup {cell}, !.ran = Append(@, name)]
    BY <1>1
<1> HIDE DEF cell, roles, kept, name
<1>13. name \in Name
    BY <1>10 DEF name
<1>14. /\ round' \in RoundType(roles)
       /\ round'.on = round.on /\ round'.fresh = round.fresh \cup {cell}
       /\ round'.out = kept \cup {cell}
  <2>1. PICK on, pending, reading, fresh, out, ran :
           round = [on |-> on, pending |-> pending, reading |-> reading, fresh |-> fresh,
                    out |-> out, ran |-> ran]
        BY <1>3 DEF RoundType
  <2>2. /\ on \in Branch \cup {None} /\ pending \subseteq roles /\ reading \subseteq roles \X Cell
        /\ fresh \subseteq Cell /\ out \subseteq Cell /\ ran \in Seq(Name)
        BY <1>3, <2>1 DEF RoundType
  <2>3. round' = [on |-> on, pending |-> pending, reading |-> reading \ {run},
                  fresh |-> fresh \cup {cell}, out |-> kept \cup {cell}, ran |-> Append(ran, name)]
        BY <1>12, <2>1
  <2>4. Append(ran, name) \in Seq(Name) /\ kept \subseteq Cell
        BY <1>11, <1>13, <2>1, <2>2
  <2>5. reading \ {run} \subseteq roles \X Cell
        BY <2>2
  <2>6. round' \in RoundType(roles)
        BY <1>9, <2>2, <2>3, <2>4, <2>5 DEF RoundType
  <2>7. round'.on = on /\ round'.fresh = fresh \cup {cell} /\ round'.out = kept \cup {cell}
        BY <2>3
  <2>8. round.on = on /\ round.fresh = fresh
        BY <2>1
  <2> QED BY <2>6, <2>7, <2>8
<1>15. \A c \in round'.fresh \cup round'.out : Fits(log, c)
    BY <1>2, <1>9, <1>11, <1>14 DEF RoundOK
<1>16. round.on # None
    BY <1>4, NothingIsNone
<1>17. RoundOK(log, forkAt, mark, round')
    BY <1>2, <1>14, <1>15, <1>16 DEF RoundOK, roles
<1> QED BY <1>1, <1>17 DEF IInv

\* A wave's output triggers the next.
LEMMA InvNextWave ==
    ASSUME IInv, NextWave
    PROVE  IInv'
<1> DEFINE S == {role \in RolesOn(round.on) : Triggered(role, round.fresh)}
           roles == RolesIn(log, forkAt, round.on)
<1>1. /\ round' = [round EXCEPT !.pending = S, !.fresh = {}] /\ round.fresh # {}
      /\ log' = log /\ forkAt' = forkAt /\ mark' = mark /\ left' = left
    BY DEF NextWave
<1>2. RoundOK(log, forkAt, mark, round)
    BY DEF IInv
<1>3. S \subseteq roles /\ round \in RoundType(roles)
    BY <1>2, ReadsIs DEF RoundOK
<1> HIDE DEF S, roles
<1>4. /\ round' \in RoundType(roles)
      /\ round'.on = round.on /\ round'.fresh = {} /\ round'.out = round.out
    BY <1>1, <1>3 DEF RoundType
<1>5. round.on # None
    BY <1>1, RoundRuns, NothingIsNone
<1>6. RoundOK(log, forkAt, mark, round')
    BY <1>2, <1>4, <1>5 DEF RoundOK, roles
<1> QED BY <1>1, <1>6 DEF IInv

\* A round lands its layer and moves the watermark.
LEMMA InvEndRound ==
    ASSUME IInv, EndRound
    PROVE  IInv'
<1> DEFINE b == round.on
           lay == Layer(b, "derived", {}, round.out)
<1>1. /\ b # None /\ round' = Idle
      /\ log' = (IF round.out = {} THEN log ELSE Append(log, lay))
      /\ mark' = [mark EXCEPT ![b] = Max(Unchased(b))]
      /\ forkAt' = forkAt /\ left' = left
    BY DEF EndRound
<1>2. /\ LogOK(log, forkAt) /\ ViewsOK(log, forkAt) /\ MarksOK(log, mark)
      /\ RoundOK(log, forkAt, mark, round) /\ Len(log) \in Nat
    BY DEF IInv, LogOK
<1>3. b \in Branch
    BY <1>1, RoundRuns
<1>4. Above(log, mark[b], b) # {} /\ Unchased(b) = Above(log, mark[b], b)
    BY <1>1, <1>2, ReadsIs DEF RoundOK
<1>5. mark[b] \in Nat
    BY <1>2, <1>3 DEF MarksOK
<1> DEFINE high == Max(Unchased(b))
<1>6. high \in Nat /\ high <= Len(log) /\ (b = "child" => 0 < forkAt)
    BY <1>2, <1>4, <1>5, MinMaxBranch
<1> HIDE DEF high
<1>7. mark' \in [Branch -> Nat] /\ \A o \in Branch : mark'[o] <= Len(log)
    BY <1>1, <1>2, <1>3, <1>6 DEF MarksOK, high
<1>8. Lands(log, forkAt, lay) /\ lay.on = b /\ lay.events = {}
  <2>1. round.out \subseteq Cell /\ \A c \in round.out : Fits(log, c)
        BY <1>2 DEF RoundOK, RoundType
  <2> HIDE DEF b
  <2> QED BY <1>3, <1>6, <2>1, FS_EmptySet DEF Lands, Layer, LayerRec
<1> HIDE DEF lay
<1>9. LogOK(log', forkAt) /\ ViewsOK(log', forkAt) /\ Len(log) <= Len(log')
  <2>1. CASE log' = log
        BY <1>2, <2>1
  <2>2. CASE log' = Append(log, lay)
    <3>1. LogOK(Append(log, lay), forkAt)
          BY <1>2, <1>8, AppendOK
    <3>2. ViewsOf(log, PathOf(log, forkAt, b))[Len(log)].ok
          BY <1>2, <1>3 DEF ViewsOK
    <3>3. FoldLayer(ViewsOf(log, PathOf(log, forkAt, lay.on))[Len(log)], lay.events, Len(log) + 1).ok
          BY <1>8, <3>2, FoldFew
    <3>4. ViewsOK(Append(log, lay), forkAt)
          BY <1>2, <1>8, <3>3, AppendViewsOK
    <3>5. log \in Seq(LayerRec) /\ lay \in LayerRec
          BY <1>2, <1>8 DEF LogOK, Lands
    <3>6. Len(Append(log, lay)) = Len(log) + 1
          BY <3>5
    <3> QED BY <1>2, <2>2, <3>1, <3>4, <3>6
  <2> QED BY <1>1, <2>1, <2>2
<1>10. MarksOK(log', mark')
  <2>1. Len(log') \in Nat
        BY <1>9 DEF LogOK
  <2> QED BY <1>2, <1>7, <1>9, <2>1 DEF MarksOK
<1> QED BY <1>1, <1>9, <1>10, IdleOK DEF IInv

---------------------------------------------------------------------------
(* A merge                                                                  *)

\* Two views that stand or fall together on the fields T, the second as Old elsewhere.
Alike(T, Old) ==
    {pair \in ViewType \X ViewType :
        pair[1].ok =>
            /\ pair[2].ok
            /\ \A f \in Field :
                  IF f \in T
                  THEN /\ Shape(pair[2].fields[f]) = Shape(pair[1].fields[f])
                       /\ pair[2].fields[f].version = 0 <=> pair[1].fields[f].version = 0
                  ELSE pair[2].fields[f] = Old[f]}

(* An event of those fields does the same to both.                          *)
LEMMA JoinedAlike ==
    ASSUME NEW T, NEW Old, NEW x, NEW y, <<x, y>> \in Alike(T, Old), NEW e \in DefEvent,
           Touches(e) \subseteq T, NEW a \in Nat \ {0}, NEW b \in Nat \ {0}
    PROVE  <<Joined(x, e, a), Joined(y, e, b)>> \in Alike(T, Old)
<1> DEFINE u == Joined(x, e, a)
           w == Joined(y, e, b)
<1>1. x \in ViewType /\ y \in ViewType
    BY DEF Alike
<1>2. /\ u \in ViewType
      /\ \/ ~u.ok /\ SameBut(x, u) /\ (~x.ok \/ Refused(x, e))
         \/ /\ x.ok /\ ~Refused(x, e) /\ e.kind = "declare"
            /\ x.fields[e.field].version # 0 /\ u = x
         \/ /\ x.ok /\ ~Refused(x, e) /\ e.kind = "declare"
            /\ x.fields[e.field].version = 0 /\ Declares(x, e, a, u)
         \/ x.ok /\ ~Refused(x, e) /\ e.kind = "mutate" /\ Mutates(x, e, a, u)
         \/ x.ok /\ ~Refused(x, e) /\ e.kind = "delete" /\ Deletes(x, e, u)
         \/ x.ok /\ ~Refused(x, e) /\ e.kind = "producer" /\ Produces(x, e, a, u)
    BY <1>1, JoinedIs
<1>3. /\ w \in ViewType
      /\ \/ ~w.ok /\ SameBut(y, w) /\ (~y.ok \/ Refused(y, e))
         \/ /\ y.ok /\ ~Refused(y, e) /\ e.kind = "declare"
            /\ y.fields[e.field].version # 0 /\ w = y
         \/ /\ y.ok /\ ~Refused(y, e) /\ e.kind = "declare"
            /\ y.fields[e.field].version = 0 /\ Declares(y, e, b, w)
         \/ y.ok /\ ~Refused(y, e) /\ e.kind = "mutate" /\ Mutates(y, e, b, w)
         \/ y.ok /\ ~Refused(y, e) /\ e.kind = "delete" /\ Deletes(y, e, w)
         \/ y.ok /\ ~Refused(y, e) /\ e.kind = "producer" /\ Produces(y, e, b, w)
    BY <1>1, JoinedIs
<1> HIDE DEF u, w
<1> SUFFICES <<u, w>> \in Alike(T, Old)
    BY DEF u, w
<1>4. <<u, w>> \in ViewType \X ViewType
    BY <1>2, <1>3
<1> SUFFICES ASSUME u.ok
             PROVE  /\ w.ok
                    /\ \A f \in Field :
                          IF f \in T
                          THEN /\ Shape(w.fields[f]) = Shape(u.fields[f])
                               /\ w.fields[f].version = 0 <=> u.fields[f].version = 0
                          ELSE w.fields[f] = Old[f]
    BY <1>4 DEF Alike
<1>5. x.ok /\ ~Refused(x, e)
    BY <1>2
<1>6. /\ y.ok
      /\ \A f \in Field : IF f \in T
                          THEN /\ y.fields[f].type = x.fields[f].type
                               /\ y.fields[f].repo = x.fields[f].repo
                               /\ y.fields[f].owner = x.fields[f].owner
                               /\ y.fields[f].version = 0 <=> x.fields[f].version = 0
                          ELSE y.fields[f] = Old[f]
    BY <1>5 DEF Alike, Shape
<1>7. e.kind # "producer" => e.field \in Field /\ e.field \in T
    BY EventKinds DEF Touches
<1>8. ~Refused(y, e)
    BY <1>5, <1>6, <1>7 DEF Refused
<1> DEFINE Goal ==
             /\ w.ok
             /\ \A f \in Field : IF f \in T
                                 THEN /\ w.fields[f].type = u.fields[f].type
                                      /\ w.fields[f].repo = u.fields[f].repo
                                      /\ w.fields[f].owner = u.fields[f].owner
                                      /\ w.fields[f].version = 0 <=> u.fields[f].version = 0
                                 ELSE w.fields[f] = Old[f]
<1>9. CASE e.kind = "declare" /\ x.fields[e.field].version # 0
  <2>1. y.fields[e.field].version # 0
        BY <1>6, <1>7, <1>9
  <2>2. u = x
        BY <1>2, <1>5, <1>9
  <2>3. w = y
        BY <1>3, <1>6, <1>8, <1>9, <2>1
  <2>4. Goal
        BY <1>6, <2>2, <2>3
  <2> QED BY <2>4 DEF Shape
<1>10. CASE e.kind = "declare" /\ x.fields[e.field].version = 0
  <2>1. y.fields[e.field].version = 0
        BY <1>6, <1>7, <1>10
  <2>2. Declares(x, e, a, u)
        BY <1>2, <1>5, <1>10
  <2>3. Declares(y, e, b, w)
        BY <1>3, <1>6, <1>8, <1>10, <2>1
  <2>4. Goal
        BY <1>6, <1>7, <1>10, <2>2, <2>3 DEF Declares
  <2> QED BY <2>4 DEF Shape
<1>11. CASE e.kind = "mutate"
  <2>1. Mutates(x, e, a, u) /\ Mutates(y, e, b, w)
        BY <1>2, <1>3, <1>5, <1>6, <1>8, <1>11
  <2>2. /\ \A f \in Field \ {e.field} : u.fields[f] = x.fields[f] /\ w.fields[f] = y.fields[f]
        /\ u.fields[e.field] = [type |-> e.type, repo |-> x.fields[e.field].repo,
                                owner |-> x.fields[e.field].owner, version |-> a]
        /\ w.fields[e.field] = [type |-> e.type, repo |-> y.fields[e.field].repo,
                                owner |-> y.fields[e.field].owner, version |-> b]
        /\ w.ok
        BY <2>1 DEF Mutates
  <2>3. Goal
        BY <1>6, <1>7, <1>11, <2>2
  <2> QED BY <2>3 DEF Shape
<1>12. CASE e.kind = "delete"
  <2>1. Deletes(x, e, u) /\ Deletes(y, e, w)
        BY <1>2, <1>3, <1>5, <1>6, <1>8, <1>12
  <2>2. Goal
        BY <1>6, <1>7, <1>12, <2>1 DEF Deletes
  <2> QED BY <2>2 DEF Shape
<1>13. CASE e.kind = "producer"
  <2>1. u.fields = x.fields /\ w.fields = y.fields /\ w.ok
        BY <1>2, <1>3, <1>5, <1>6, <1>8, <1>13 DEF Produces
  <2>2. Goal
        BY <1>6, <2>1
  <2> QED BY <2>2 DEF Shape
<1> QED BY <1>9, <1>10, <1>11, <1>12, <1>13, EventKinds

\* Nor do all of a layer tell them apart.
LEMMA FoldsAlike ==
    ASSUME NEW T, NEW Old, NEW x, NEW y, <<x, y>> \in Alike(T, Old),
           NEW events, events \subseteq DefEvent, IsFiniteSet(events),
           \A e \in events : Touches(e) \subseteq T, NEW a \in Nat \ {0}, NEW b \in Nat \ {0}
    PROVE  <<FoldLayer(x, events, a), FoldLayer(y, events, b)>> \in Alike(T, Old)
<1> DEFINE S == Alike(T, Old)
<1>1. \A v, w : <<v, w>> \in S => \A e \in events : <<Joined(v, e, a), Joined(w, e, b)>> \in S
    BY JoinedAlike
<1>2. <<x, y>> \in S
    OBVIOUS
<1> HIDE DEF S
<1>3. <<FoldLayer(x, events, a), FoldLayer(y, events, b)>> \in S
    BY <1>1, <1>2, FoldTwice
<1> QED BY <1>3 DEF S

(* A field that no event is about is left alone.                            *)
LEMMA JoinedLeaves ==
    ASSUME NEW x \in ViewType, NEW e \in DefEvent, NEW a \in Nat, NEW f \in Field, f \notin Touches(e)
    PROVE  Joined(x, e, a) \in ViewType /\ Joined(x, e, a).fields[f] = x.fields[f]
<1> DEFINE u == Joined(x, e, a)
<1>2. /\ u \in ViewType
      /\ \/ ~u.ok /\ SameBut(x, u) /\ (~x.ok \/ Refused(x, e))
         \/ /\ x.ok /\ ~Refused(x, e) /\ e.kind = "declare"
            /\ x.fields[e.field].version # 0 /\ u = x
         \/ /\ x.ok /\ ~Refused(x, e) /\ e.kind = "declare"
            /\ x.fields[e.field].version = 0 /\ Declares(x, e, a, u)
         \/ x.ok /\ ~Refused(x, e) /\ e.kind = "mutate" /\ Mutates(x, e, a, u)
         \/ x.ok /\ ~Refused(x, e) /\ e.kind = "delete" /\ Deletes(x, e, u)
         \/ x.ok /\ ~Refused(x, e) /\ e.kind = "producer" /\ Produces(x, e, a, u)
    BY JoinedIs
<1> HIDE DEF u
<1>3. e.kind # "producer" => f # e.field
    BY DEF Touches
<1>4. u.fields[f] = x.fields[f]
    BY <1>2, <1>3 DEF SameBut, Declares, Mutates, Deletes, Produces
<1> QED BY <1>2, <1>4 DEF u

\* A field keeps its definition through layers that are not about it.
LEMMA FoldsLeave ==
    ASSUME NEW V, NEW L, NEW P, Folds(V, L, P), Legible(L, P), NEW m \in Nat, NEW n \in Nat,
           m <= n, n <= Len(L), NEW f \in Field,
           \A i \in m + 1..n : i \in P => \A e \in L[i].events : f \notin Touches(e)
    PROVE  V[n].fields[f] = V[m].fields[f]
<1>0. Len(L) \in Nat /\ \A i \in 0..Len(L) : V[i] \in ViewType
    BY FoldsStand DEF Legible, Standing, Mid
<1> DEFINE Far == {i \in Nat : m <= i /\ i <= n => V[i].fields[f] = V[m].fields[f]}
<1>1. 0 \in Far
    OBVIOUS
<1>2. ASSUME NEW i \in Nat, i \in Far PROVE i + 1 \in Far
  <2>1. SUFFICES ASSUME m <= i + 1, i + 1 <= n, m # i + 1 PROVE V[i + 1].fields[f] = V[m].fields[f]
        OBVIOUS
  <2>2. V[i].fields[f] = V[m].fields[f] /\ i + 1 \in m + 1..n /\ i + 1 \in 1..Len(L) /\ i + 1 - 1 = i
        /\ i \in 0..Len(L) /\ i + 1 \in Nat
        BY <1>0, <1>2, <2>1
  <2>3. V[i + 1] = IF i + 1 \in P THEN FoldLayer(V[i], L[i + 1].events, i + 1) ELSE V[i]
        BY <2>2 DEF Folds
  <2>4. CASE i + 1 \in P
    <3> DEFINE S == {x \in ViewType : x.fields[f] = V[m].fields[f]}
    <3>1. V[i] \in S
          BY <1>0, <2>2
    <3>2. /\ L[i + 1].events \subseteq DefEvent /\ IsFiniteSet(L[i + 1].events)
          /\ \A e \in L[i + 1].events : f \notin Touches(e)
          BY <2>2, <2>4 DEF Legible
    <3>3. \A x \in S : \A e \in L[i + 1].events : Joined(x, e, i + 1) \in S
          BY <2>2, <3>2, JoinedLeaves
    <3> HIDE DEF S
    <3>4. FoldLayer(V[i], L[i + 1].events, i + 1) \in S
          BY <3>1, <3>2, <3>3, FoldKeeps
    <3> QED BY <2>3, <2>4, <3>4 DEF S
  <2> QED BY <2>2, <2>3, <2>4
<1> HIDE DEF Far
<1>3. n \in Far
    BY <1>1, <1>2, EveryNumber
<1> QED BY <1>3 DEF Far

(* A record that fits a log fits a longer one.                              *)
LEMMA FitsLater ==
    ASSUME NEW L, NEW M, Len(L) \in Nat, Len(M) \in Nat, Len(L) <= Len(M),
           \A i \in 1..Len(L) : M[i] = L[i], NEW c \in Cell, Fits(L, c)
    PROVE  Fits(M, c)
<1>1. c.version \in 1..Len(L)
    BY DEF Cell, Fits
<1>2. TypesIn(L, c.field, c.version) = TypesIn(M, c.field, c.version)
    BY <1>1, TypesStay
<1> QED BY <1>1, <1>2 DEF Fits

\* r is the child's layers at the places C, and they may cross: the child says nothing
\* elsewhere, they are about the fields T, and the parent left those alone since the fork.
Crosses(L, fork, C, T, r) ==
    /\ LogOK(L, fork) /\ ViewsOK(L, fork) /\ fork # 0
    /\ Keeps(r, LayerRec, L, C, Len(L))
    /\ \A i \in 1..Len(L) : i \in C => L[i].on = "child"
    /\ \A i \in 1..Len(L) : L[i].on = "child" /\ i \notin C => L[i].events = {}
    /\ \A i \in 1..Len(L) : \A e \in L[i].events :
          /\ L[i].on = "child" => Touches(e) \subseteq T
          /\ L[i].on = "main" /\ fork < i => Touches(e) \cap T = {}

\* The log M is L and what of it has been replayed, up to the child's layer j.
Carried(L, fork, T, M, j) ==
    /\ LogOK(M, fork) /\ ViewsOK(M, fork) /\ Len(L) <= Len(M)
    /\ \A i \in 1..Len(L) : M[i] = L[i]
    /\ \A i \in 1..Len(M) : \E k \in 1..Len(L) : M[i].events = L[k].events
    /\ HeadOf(M, fork, "child") = HeadOf(L, fork, "child")
    /\ <<ViewsOf(L, PathOf(L, fork, "child"))[j], HeadOf(M, fork, "main")>>
           \in Alike(T, HeadOf(L, fork, "main").fields)

(* One more layer of the child lands.                                       *)
LEMMA CarryOne ==
    ASSUME NEW L, NEW fork, NEW C, NEW T, NEW r, Crosses(L, fork, C, T, r),
           NEW M, NEW j \in Nat, fork <= j, Carried(L, fork, T, M, j),
           NEW i \in 1..Len(L), j < i, i \in C, \A k \in j + 1..i - 1 : k \notin C
    PROVE  Carried(L, fork, T, Append(M, Replayed(L[i])), i)
<1> DEFINE P == PathOf(L, fork, "child")
           V == ViewsOf(L, P)
           lay == Replayed(L[i])
           N == Append(M, lay)
           Old == HeadOf(L, fork, "main").fields
<1>1. /\ LogOK(L, fork) /\ ViewsOK(L, fork) /\ LogOK(M, fork) /\ ViewsOK(M, fork)
      /\ Len(L) <= Len(M) /\ \A n \in 1..Len(L) : M[n] = L[n]
      /\ \A n \in 1..Len(M) : \E k \in 1..Len(L) : M[n].events = L[k].events
      /\ HeadOf(M, fork, "child") = HeadOf(L, fork, "child")
    BY DEF Crosses, Carried
<1>2. /\ L \in Seq(LayerRec) /\ M \in Seq(LayerRec) /\ Len(L) \in Nat /\ Len(M) \in Nat
      /\ DOMAIN L = 1..Len(L) /\ fork \in Nat /\ LayerOK(L, fork, i) /\ L[i] \in LayerRec
    BY <1>1 DEF LogOK
<1>3. Folds(V, L, P) /\ Legible(L, P)
    BY <1>1, LogViews, LogLegible
<1>4. <<V[j], HeadOf(M, fork, "main")>> \in Alike(T, Old)
    BY DEF Carried
<1>5. \A k \in 1..Len(L) : k \in P /\ fork < k => L[k].on = "child"
    BY <1>2 DEF PathOf
<1>6. i \in P /\ L[i].on = "child"
    BY <1>2 DEF PathOf, Crosses
<1> HIDE DEF V, P, Old
<1>7. V[i - 1] = V[j]
  <2>1. /\ i - 1 \in Nat /\ j <= i - 1 /\ i - 1 <= Len(L)
        /\ \A k \in j + 1..i - 1 : k \in 1..Len(L) /\ fork < k
        BY <1>2
  <2>2. \A k \in j + 1..i - 1 : k \in P => L[k].events = {}
        BY <1>5, <2>1 DEF Crosses
  <2>3. Quiet(L, P, j, i - 1)
        BY <1>2, <2>1, <2>2 DEF Quiet
  <2> QED BY <1>3, <2>3, FoldsStay
<1>8. V[i] = FoldLayer(V[j], L[i].events, i)
    BY <1>3, <1>6, <1>7 DEF Folds
<1>9. lay.on = "main" /\ lay.events = L[i].events /\ lay.kind = L[i].kind /\ lay.cells = L[i].cells
    BY DEF Replayed, Layer
<1>10. lay \in LayerRec
    BY <1>2 DEF Replayed, Layer, LayerRec, Branch
<1> HIDE DEF lay
<1>11. Lands(M, fork, lay)
  <2>1. \A c \in lay.cells : c \in Cell /\ Fits(L, c)
        BY <1>2, <1>9 DEF LayerOK, LayerRec
  <2>2. \A c \in lay.cells : Fits(M, c)
        BY <1>1, <1>2, <2>1, FitsLater
  <2>3. lay.on # "child"
        BY <1>9
  <2> QED BY <1>2, <1>9, <1>10, <2>2, <2>3 DEF Lands, LayerOK
<1>12. <<V[i], FoldLayer(HeadOf(M, fork, "main"), lay.events, Len(M) + 1)>> \in Alike(T, Old)
  <2>1. L[i].events \subseteq DefEvent /\ IsFiniteSet(L[i].events)
        BY <1>3 DEF Legible
  <2>2. \A e \in L[i].events : Touches(e) \subseteq T
        BY <1>6 DEF Crosses
  <2>3. i \in Nat \ {0} /\ Len(M) + 1 \in Nat \ {0}
        BY <1>2
  <2>4. <<FoldLayer(V[j], L[i].events, i), FoldLayer(HeadOf(M, fork, "main"), L[i].events, Len(M) + 1)>>
           \in Alike(T, Old)
        BY <1>4, <2>1, <2>2, <2>3, FoldsAlike
  <2> QED BY <1>8, <1>9, <2>4
<1>13. V[i].ok
  <2>1. i \in 0..Len(L) /\ "child" \in Branch
        BY DEF Branch
  <2> QED BY <1>1, <2>1 DEF ViewsOK, V, P
<1>14. FoldLayer(HeadOf(M, fork, "main"), lay.events, Len(M) + 1).ok
    BY <1>12, <1>13 DEF Alike
<1>15. LogOK(N, fork)
    BY <1>1, <1>11, AppendOK
<1>16. ViewsOK(N, fork)
    BY <1>1, <1>9, <1>11, <1>14, AppendViewsOK DEF HeadOf
<1>17. Len(N) = Len(M) + 1 /\ N[Len(M) + 1] = lay /\ \A n \in 1..Len(M) : N[n] = M[n]
    BY <1>2, <1>10
<1>18. Len(L) <= Len(N) /\ \A n \in 1..Len(L) : N[n] = L[n]
    BY <1>1, <1>2, <1>17
<1>19. /\ HeadOf(N, fork, "main") = FoldLayer(HeadOf(M, fork, "main"), lay.events, Len(M) + 1)
       /\ HeadOf(N, fork, "child") = HeadOf(M, fork, "child")
  <2>1. ASSUME NEW b \in Branch
        PROVE  ViewsOf(Append(M, lay), PathOf(Append(M, lay), fork, b))[Len(M) + 1] =
               IF b = lay.on
               THEN FoldLayer(ViewsOf(M, PathOf(M, fork, b))[Len(M)], lay.events, Len(M) + 1)
               ELSE ViewsOf(M, PathOf(M, fork, b))[Len(M)]
        BY <1>1, <1>11, AppendFolds
  <2>2. \A b \in Branch : HeadOf(N, fork, b) = IF b = lay.on
                                               THEN FoldLayer(HeadOf(M, fork, b), lay.events, Len(M) + 1)
                                               ELSE HeadOf(M, fork, b)
        BY <1>17, <2>1 DEF HeadOf
  <2>3. "main" \in Branch /\ "child" \in Branch /\ "child" # lay.on
        BY <1>9 DEF Branch
  <2> HIDE DEF N
  <2> QED BY <1>9, <2>2, <2>3
<1> HIDE DEF N
<1>20. <<V[i], HeadOf(N, fork, "main")>> \in Alike(T, Old)
    BY <1>12, <1>19
<1>21. \A n \in 1..Len(N) : \E k \in 1..Len(L) : N[n].events = L[k].events
  <2>1. \A n \in 1..Len(N) : n \in 1..Len(M) \/ n = Len(M) + 1
        BY <1>2, <1>17
  <2> QED BY <1>1, <1>9, <1>17, <2>1
<1>22. Carried(L, fork, T, N, i)
    BY <1>1, <1>15, <1>16, <1>18, <1>19, <1>20, <1>21 DEF Carried, V, P, Old
<1> QED BY <1>22 DEF N, lay

(* Before any layer lands, the child's view at the fork and the parent's now agree on what *)
(* may cross.                                                               *)
LEMMA CarryNone ==
    ASSUME NEW L, NEW fork, NEW C, NEW T, NEW r, Crosses(L, fork, C, T, r)
    PROVE  Carried(L, fork, T, L, fork)
<1> DEFINE Pm == PathOf(L, fork, "main")
           Pc == PathOf(L, fork, "child")
           Vm == ViewsOf(L, Pm)
           Vc == ViewsOf(L, Pc)
<1>1. LogOK(L, fork) /\ ViewsOK(L, fork)
    BY DEF Crosses
<1>2. L \in Seq(LayerRec) /\ Len(L) \in Nat /\ DOMAIN L = 1..Len(L) /\ fork \in 0..Len(L)
      /\ \A i \in 1..Len(L) : LayerOK(L, fork, i)
    BY <1>1 DEF LogOK
<1>3. Folds(Vm, L, Pm) /\ Legible(L, Pm) /\ Folds(Vc, L, Pc) /\ \A i \in 0..Len(L) : Vm[i] \in ViewType
    BY <1>1, LogViews, LogLegible
<1>4. \A i \in 1..fork : i \in Pm <=> i \in Pc
  <2>1. \A i \in 1..fork : i \in 1..Len(L) /\ ~(fork < i) /\ i <= fork
        BY <1>2
  <2>2. \A i \in 1..fork : L[i].on # "child"
        BY <1>2, <2>1 DEF LayerOK
  <2> QED BY <1>2, <2>1, <2>2 DEF PathOf
<1>5. \A i \in 1..Len(L) : i \in Pm => L[i].on = "main"
    BY DEF PathOf
<1>6. Vm[Len(L)] = HeadOf(L, fork, "main") /\ Vm[Len(L)].ok
  <2>1. Len(L) \in 0..Len(L) /\ "main" \in Branch
        BY <1>2 DEF Branch
  <2> QED BY <1>1, <2>1 DEF ViewsOK, HeadOf
<1> HIDE DEF Pm, Pc, Vm, Vc
<1>7. \A i \in 0..fork : Vm[i] = Vc[i]
  <2>1. fork \in Nat /\ fork <= Len(L)
        BY <1>2
  <2> QED BY <1>2, <1>3, <1>4, <2>1, FoldsAgree
<1>8. \A f \in Field : f \in T => Vm[Len(L)].fields[f] = Vm[fork].fields[f]
  <2> SUFFICES ASSUME NEW f \in Field, f \in T PROVE Vm[Len(L)].fields[f] = Vm[fork].fields[f]
      OBVIOUS
  <2>1. fork \in Nat /\ fork <= Len(L) /\ Len(L) <= Len(L)
        /\ \A i \in fork + 1..Len(L) : i \in 1..Len(L) /\ fork < i
        BY <1>2
  <2>2. \A i \in fork + 1..Len(L) : i \in Pm => \A e \in L[i].events : f \notin Touches(e)
        BY <1>5, <2>1 DEF Crosses
  <2> QED BY <1>2, <1>3, <2>1, <2>2, FoldsLeave
<1>9. fork \in 0..fork /\ fork \in 0..Len(L) /\ Len(L) \in 0..Len(L)
    BY <1>2
<1>10. Vc[fork] = Vm[fork]
    BY <1>7, <1>9
<1>11. <<Vc[fork], Vm[Len(L)]>> \in Alike(T, Vm[Len(L)].fields)
  <2>1. Vc[fork] \in ViewType /\ Vm[Len(L)] \in ViewType
        BY <1>3, <1>9, <1>10
  <2>2. \A f \in Field : f \in T => Vm[Len(L)].fields[f] = Vc[fork].fields[f]
        BY <1>8, <1>10
  <2> QED BY <1>6, <2>1, <2>2 DEF Alike
<1> QED BY <1>1, <1>2, <1>6, <1>11 DEF Carried, Vc, Pc

\* The log a merge leaves when k of its layers have landed.
After(L, r, k) == L \o [i \in 1..k |-> Replayed(r[i])]

\* One more layer is appended to what has landed.
LEMMA AfterOne ==
    ASSUME NEW L \in Seq(LayerRec), NEW r \in Seq(LayerRec), NEW k \in Nat, k + 1 <= Len(r)
    PROVE  After(L, r, k + 1) = Append(After(L, r, k), Replayed(r[k + 1]))
<1> DEFINE s == [i \in 1..k |-> Replayed(r[i])]
           t == [i \in 1..k + 1 |-> Replayed(r[i])]
<1>1. \A l \in LayerRec : Replayed(l) \in LayerRec
    BY DEF Replayed, Layer, LayerRec, Branch
<1>2. \A i \in 1..k + 1 : Replayed(r[i]) \in LayerRec
  <2>1. \A i \in 1..k + 1 : i \in 1..Len(r)
        OBVIOUS
  <2> QED BY <1>1, <2>1
<1>3. s \in Seq(LayerRec) /\ Len(s) = k /\ \A i \in 1..k : s[i] = Replayed(r[i])
    BY <1>2
<1>4. t \in Seq(LayerRec) /\ Len(t) = k + 1 /\ \A i \in 1..k + 1 : t[i] = Replayed(r[i])
    BY <1>2
<1>5. k + 1 \in 1..k + 1 /\ \A i \in 1..k : i \in 1..k + 1
    OBVIOUS
<1> DEFINE a == Replayed(r[k + 1])
<1>6. a \in LayerRec /\ t[k + 1] = a /\ \A i \in 1..k : t[i] = s[i]
    BY <1>2, <1>3, <1>4, <1>5
<1> HIDE DEF s, t, a
<1>7. t = Append(s, a)
    BY <1>3, <1>4, <1>6
<1>8. L \o Append(s, a) = Append(L \o s, a)
    BY <1>3, <1>6
<1>9. After(L, r, k + 1) = L \o t /\ After(L, r, k) = L \o s
    BY DEF After, s, t
<1> QED BY <1>7, <1>8, <1>9 DEF a

\* The log M says nothing that L did not say, and nothing new to the child.
Repeated(L, fork, M) ==
    /\ \A i \in 1..Len(M) : \E k \in 1..Len(L) : M[i].events = L[k].events
    /\ HeadOf(M, fork, "child") = HeadOf(L, fork, "child")

(* However far a merge gets, it leaves a log whose views fold; and where it  *)
(* lands whole, the parent stands as the child does.                        *)
LEMMA CarryMany ==
    ASSUME NEW L, NEW fork, NEW C, NEW T, NEW r, Crosses(L, fork, C, T, r), NEW k \in 0..Len(r)
    PROVE  /\ LogOK(After(L, r, k), fork) /\ ViewsOK(After(L, r, k), fork)
           /\ Len(L) <= Len(After(L, r, k))
           /\ Repeated(L, fork, After(L, r, k))
           /\ k = Len(r) => <<HeadOf(L, fork, "child"), HeadOf(After(L, r, k), fork, "main")>>
                                \in Alike(T, HeadOf(L, fork, "main").fields)
<1> DEFINE n == Len(L)
           Pc == PathOf(L, fork, "child")
           Vc == ViewsOf(L, Pc)
<1>1. LogOK(L, fork) /\ L \in Seq(LayerRec) /\ n \in Nat /\ fork \in Nat /\ fork <= n
      /\ \A i \in 1..n : LayerOK(L, fork, i)
    BY DEF Crosses, LogOK
<1>2. r \in Seq(LayerRec) /\ Len(r) \in Nat
    BY DEF Crosses, Keeps
<1>3. PICK ix \in [1..Len(r) -> 1..n] :
          /\ \A i, j \in 1..Len(r) : i < j => ix[i] < ix[j]
          /\ \A i \in 1..Len(r) : r[i] = L[ix[i]]
          /\ \A i \in 1..n : i \in C <=> \E m \in 1..Len(r) : ix[m] = i
    BY DEF Crosses, Keeps
<1>4. \A i \in 1..n : i \in C => fork < i
    BY <1>1 DEF Crosses, LayerOK
<1> DEFINE Place(m) == IF m = 0 THEN fork ELSE ix[m]
<1>5. \A m \in 0..Len(r) : Place(m) \in Nat /\ fork <= Place(m) /\ Place(m) <= n
  <2>1. \A m \in 1..Len(r) : ix[m] \in 1..n /\ fork < ix[m]
        BY <1>3, <1>4
  <2> QED BY <1>1, <2>1
<1>6. \A m \in 1..Len(r) : ix[m] \in C /\ ix[m] \in 1..n /\ r[m] = L[ix[m]]
    BY <1>3
<1>7. ASSUME NEW m \in Nat, m + 1 <= Len(r)
      PROVE  Place(m) < ix[m + 1] /\ \A i \in Place(m) + 1..ix[m + 1] - 1 : i \notin C
  <2>1. m + 1 \in 1..Len(r) /\ m \in 0..Len(r) /\ (m # 0 => m \in 1..Len(r) /\ m < m + 1)
        BY <1>2, <1>7
  <2>2. ix[m + 1] \in 1..n /\ fork < ix[m + 1]
        BY <1>4, <1>6, <2>1
  <2>3. Place(m) < ix[m + 1]
        BY <1>3, <2>1, <2>2
  <2>4. ASSUME NEW i \in Place(m) + 1..ix[m + 1] - 1, i \in C PROVE FALSE
    <3>1. i \in 1..n /\ Place(m) < i /\ i < ix[m + 1] /\ Place(m) \in Nat
          BY <1>1, <1>5, <2>1, <2>2
    <3>2. PICK l \in 1..Len(r) : ix[l] = i
          BY <1>3, <2>4, <3>1
    <3>3. ~(m + 1 < l) /\ l # m + 1
          BY <1>3, <2>1, <2>2, <3>1, <3>2
    <3>4. l < m + 1 /\ m # 0 /\ l \in Nat
          BY <1>2, <2>1, <3>2, <3>3
    <3>5. Place(m) = ix[m]
          BY <3>4
    <3>6. ~(l < m) /\ l # m
          BY <1>3, <1>6, <2>1, <3>1, <3>2, <3>4, <3>5
    <3> QED BY <3>4, <3>6
  <2> QED BY <2>3, <2>4
<1>8. \A m \in Nat : m + 1 <= Len(r) => Place(m + 1) = ix[m + 1]
    OBVIOUS
<1>9. Place(0) = fork
    OBVIOUS
<1>10. \A m \in 0..Len(r) : \A i \in 1..n : (i \in C /\ m = Len(r)) => i <= Place(m)
  <2> SUFFICES ASSUME NEW i \in 1..n, i \in C PROVE i <= Place(Len(r))
      OBVIOUS
  <2>1. PICK l \in 1..Len(r) : ix[l] = i
        BY <1>3
  <2>2. Len(r) \in 1..Len(r) /\ (l = Len(r) \/ l < Len(r))
        BY <1>2, <2>1
  <2>3. ix[l] = ix[Len(r)] \/ ix[l] < ix[Len(r)]
        BY <1>3, <2>1, <2>2
  <2>4. ix[Len(r)] \in 1..n
        BY <1>3, <2>2
  <2>5. Place(Len(r)) = ix[Len(r)]
        BY <2>2
  <2> QED BY <1>1, <2>1, <2>3, <2>4, <2>5
<1> HIDE DEF Place
<1> DEFINE Far == {m \in Nat : m <= Len(r) => Carried(L, fork, T, After(L, r, m), Place(m))}
<1>11. 0 \in Far
  <2>1. After(L, r, 0) = L
    <3>1. [i \in 1..0 |-> Replayed(r[i])] = <<>>
          OBVIOUS
    <3>2. L \o <<>> = L
          BY <1>1
    <3> QED BY <3>1, <3>2 DEF After
  <2> QED BY <1>9, <2>1, CarryNone
<1>12. ASSUME NEW m \in Nat, m \in Far PROVE m + 1 \in Far
  <2> SUFFICES ASSUME m + 1 <= Len(r)
               PROVE  Carried(L, fork, T, After(L, r, m + 1), Place(m + 1))
      OBVIOUS
  <2>1. m + 1 \in 1..Len(r) /\ m \in 0..Len(r) /\ m <= Len(r)
        BY <1>2
  <2>2. Carried(L, fork, T, After(L, r, m), Place(m))
        BY <1>12, <2>1
  <2>3. /\ Place(m) \in Nat /\ fork <= Place(m) /\ ix[m + 1] \in 1..Len(L) /\ ix[m + 1] \in C
        /\ Place(m) < ix[m + 1] /\ \A i \in Place(m) + 1..ix[m + 1] - 1 : i \notin C
        BY <1>5, <1>6, <1>7, <2>1
  <2>4. Carried(L, fork, T, Append(After(L, r, m), Replayed(L[ix[m + 1]])), ix[m + 1])
        BY <2>2, <2>3, CarryOne
  <2>5. After(L, r, m + 1) = Append(After(L, r, m), Replayed(L[ix[m + 1]]))
        BY <1>1, <1>2, <1>6, <2>1, AfterOne
  <2> QED BY <1>8, <2>4, <2>5
<1> HIDE DEF Far
<1>13. k \in Far
    BY <1>11, <1>12, EveryNumber
<1>14. Carried(L, fork, T, After(L, r, k), Place(k))
    BY <1>2, <1>13 DEF Far
<1>15. ASSUME k = Len(r) PROVE Vc[Place(k)] = HeadOf(L, fork, "child")
  <2>1. Folds(Vc, L, Pc)
        BY <1>1, LogViews
  <2>2. \A i \in 1..n : i \in Pc /\ fork < i => L[i].on = "child"
        BY <1>1 DEF PathOf
  <2>3. Place(k) \in Nat /\ Place(k) <= n /\ n <= Len(L) /\ fork <= Place(k)
        /\ \A i \in Place(k) + 1..n : i \in 1..n /\ fork < i /\ ~(i <= Place(k))
        BY <1>1, <1>5
  <2>4. \A i \in Place(k) + 1..n : i \notin C
        BY <1>10, <1>15, <2>3
  <2>5. \A i \in Place(k) + 1..n : i \in Pc => L[i].events = {}
        BY <2>2, <2>3, <2>4 DEF Crosses
  <2>6. \A m \in {Place(k)} : Vc[n] = Vc[m]
    <3> SUFFICES ASSUME NEW m \in {Place(k)} PROVE Vc[n] = Vc[m]
        OBVIOUS
    <3>1. Quiet(L, Pc, m, n)
          BY <1>1, <2>3, <2>5 DEF Quiet
    <3> HIDE DEF Vc, Pc, n
    <3> QED BY <2>1, <3>1, FoldsStay
  <2> QED BY <2>6 DEF Vc, Pc, HeadOf
<1> QED BY <1>14, <1>15 DEF Carried, Repeated

\* The fields the child's events are about.
MovedIn(L) ==
    UNION {UNION {Touches(e) : e \in L[i].events} : i \in {i \in DOMAIN L : L[i].on = "child"}}

(* What a merge carries may cross.                                          *)
LEMMA MergeCrosses ==
    ASSUME IInv, Free, Exists("child"), NEW mode \in left.modes, ~Diverged(Replayable(mode))
    PROVE  Crosses(log, forkAt, Crossing(mode), MovedIn(log), Replayable(mode))
<1> DEFINE C == Crossing(mode)
           r == Replayable(mode)
           T == MovedIn(log)
<1>1. LogOK(log, forkAt) /\ ViewsOK(log, forkAt) /\ forkAt # 0
    BY DEF IInv, Exists
<1>2. log \in Seq(LayerRec) /\ DOMAIN log = 1..Len(log) /\ \A i \in 1..Len(log) : LayerOK(log, forkAt, i)
    BY <1>1 DEF LogOK
<1>3. mode \in {"DefOnly", "DefAndData"}
    BY DEF IInv, Budget
<1>4. Keeps(r, LayerRec, log, C, Len(log))
    BY <1>2, FilteredKeeps DEF Replayable
<1>5. \A i \in 1..Len(log) : i \in C => log[i].on = "child"
    BY DEF Crossing
<1>6. \A i \in 1..Len(log) : log[i].on = "child" /\ i \notin C => log[i].events = {}
  <2>1. \A i \in 1..Len(log) : log[i].on = "child" /\ i \notin C => log[i].kind # "def"
        BY <1>2 DEF Crossing
  <2> QED BY <1>2, <2>1 DEF LayerOK
<1>7. \A i \in 1..Len(log) : \A e \in log[i].events : log[i].on = "child" => Touches(e) \subseteq T
    BY <1>2 DEF MovedIn
<1> HIDE DEF C, T
<1>8. ASSUME NEW i \in 1..Len(log), NEW e \in log[i].events, log[i].on = "main", forkAt < i
      PROVE  Touches(e) \cap T = {}
  <2> SUFFICES ASSUME NEW f \in Touches(e), f \in T PROVE FALSE
      OBVIOUS
  <2>0. PICK j \in 1..Len(log) : log[j].on = "child" /\ \E d \in log[j].events : f \in Touches(d)
        BY <1>2 DEF T, MovedIn
  <2>1. PICK d \in log[j].events : log[j].on = "child" /\ f \in Touches(d)
        BY <2>0
  <2>2. j \in C
        BY <1>6, <2>1
  <2>3. PICK m \in 1..Len(r) : r[m] = log[j]
    <3>1. PICK ix \in [1..Len(r) -> 1..Len(log)] :
             /\ \A k \in 1..Len(r) : r[k] = log[ix[k]]
             /\ \A k \in 1..Len(log) : k \in C <=> \E l \in 1..Len(r) : ix[l] = k
          BY <1>4 DEF Keeps
    <3>2. PICK l \in 1..Len(r) : ix[l] = j
          BY <2>2, <3>1
    <3> QED BY <3>1, <3>2
  <2>4. m \in DOMAIN r /\ d \in r[m].events
    <3>1. DOMAIN r = 1..Len(r)
          BY <1>4 DEF Keeps
    <3> QED BY <2>1, <2>3, <3>1
  <2>5. f \in DefsTouchedSince(forkAt)
    <3>1. i \in forkAt + 1..Len(log)
          BY <1>1, <1>8 DEF LogOK
    <3> QED BY <1>8, <3>1 DEF DefsTouchedSince
  <2>6. Diverged(r)
        BY <2>1, <2>4, <2>5 DEF Diverged
  <2> QED BY <2>6
<1>9. Crosses(log, forkAt, C, T, r)
    BY <1>1, <1>4, <1>5, <1>6, <1>7, <1>8 DEF Crosses
<1> QED BY <1>9 DEF C, T

(* The log that a merge leaves.                                             *)
LEMMA MergeLands ==
    ASSUME IInv, NEW mode \in left.modes, NEW landed, Merge(mode, landed)
    PROVE  /\ Crosses(log, forkAt, Crossing(mode), MovedIn(log), Replayable(mode))
           /\ log' = After(log, Replayable(mode), landed)
           /\ landed \in 0..Len(Replayable(mode)) /\ Len(Replayable(mode)) \in Nat
<1>1. /\ Free /\ Exists("child") /\ ~Diverged(Replayable(mode)) /\ landed \in 1..Len(Replayable(mode))
      /\ log' = After(log, Replayable(mode), landed)
    BY Zenon DEF Merge, After
<1>2. Crosses(log, forkAt, Crossing(mode), MovedIn(log), Replayable(mode))
    BY <1>1, MergeCrosses
<1>3. Replayable(mode) \in Seq(LayerRec)
    BY <1>2 DEF Crosses, Keeps
<1>4. Len(Replayable(mode)) \in Nat
    BY <1>3
<1> QED BY <1>1, <1>2, <1>4

\* A merge lands, whole or in part.
LEMMA InvMerge ==
    ASSUME IInv, NEW mode \in left.modes, NEW landed, Merge(mode, landed)
    PROVE  IInv'
<1>1. /\ Free /\ left.merges > 0 /\ forkAt' = forkAt /\ mark' = mark /\ round' = round
      /\ landed < Len(Replayable(mode)) => left.crashes > 0
      /\ left' = [left EXCEPT !.merges = @ - 1,
                              !.crashes = IF landed < Len(Replayable(mode)) THEN @ - 1 ELSE @]
    BY DEF Merge
<1>2. MarksOK(log, mark) /\ round = Idle /\ left \in Budget /\ Len(log) \in Nat
    BY <1>1 DEF IInv, Free, RoundOK, LogOK
<1> DEFINE M == After(log, Replayable(mode), landed)
<1>3. LogOK(M, forkAt) /\ ViewsOK(M, forkAt) /\ Len(log) <= Len(M) /\ log' = M
    BY MergeLands, CarryMany
<1> HIDE DEF M
<1>4. MarksOK(M, mark)
  <2>1. Len(M) \in Nat
        BY <1>3 DEF LogOK
  <2> QED BY <1>2, <1>3, <2>1 DEF MarksOK
<1>5. left' \in Budget
  <2> DEFINE k == IF landed < Len(Replayable(mode)) THEN left.crashes - 1 ELSE left.crashes
  <2>1. k \in Nat
        BY <1>1, <1>2 DEF Budget
  <2>2. left' = [left EXCEPT !.merges = @ - 1, !.crashes = k]
        BY <1>1
  <2> HIDE DEF k
  <2> QED BY <1>1, <1>2, <2>1, <2>2, BudgetFalls
<1> QED BY <1>1, <1>2, <1>3, <1>4, <1>5, IdleOK DEF IInv

(* A step preserves the invariant.                                          *)
LEMMA InvStep ==
    ASSUME IInv, [Next]_vars
    PROVE  IInv'
<1>1. CASE UNCHANGED vars
    BY <1>1 DEF vars, IInv
<1>2. ASSUME NEW b \in Branch, NEW e \in left.vocabulary, DefPush(b, e) PROVE IInv'
    BY <1>2, InvDefPush
<1>3. ASSUME NEW b \in Branch, NEW d \in Descriptions, RepoPush(b, d) PROVE IInv'
    BY <1>3, InvRepoPush
<1>4. ASSUME NEW at \in DOMAIN log, Fork(at) PROVE IInv'
    BY <1>4, InvFork
<1>5. ASSUME NEW mode \in left.modes, NEW landed, Merge(mode, landed) PROVE IInv'
    BY <1>5, InvMerge
<1>6. ASSUME NEW b \in Branch, NEW f \in Field, NEW c \in DOMAIN log, Write(b, f, c) PROVE IInv'
    BY <1>6, InvWrite
<1>7. ASSUME NEW b \in Branch, BeginRound(b) PROVE IInv'
    BY <1>7, InvBeginRound
<1>8. ASSUME NEW role \in round.pending, Consume(role) PROVE IInv'
    BY <1>8, InvConsume
<1>9. ASSUME NEW run \in round.reading, Produce(run) PROVE IInv'
    BY <1>9, InvProduce
<1>10. CASE NextWave
    BY <1>10, InvNextWave
<1>11. CASE EndRound
    BY <1>11, InvEndRound
<1> QED BY <1>1, <1>2, <1>3, <1>4, <1>5, <1>6, <1>7, <1>8, <1>9, <1>10, <1>11 DEF Next

(* What the parent reads after a step, by the log alone.                    *)
LEMMA ParentReadsNext == View("main")' = HeadOf(log', forkAt', "main")
BY Zenon DEF View, ViewAt, ViewsAt, OnPath, HeadOf, ViewsOf, ViewStep, PathOf

(* A merge that lands whole carries the schema.                             *)
LEMMA CarriesAll ==
    ASSUME IInv, NEW mode \in left.modes, Merge(mode, Len(Replayable(mode))), NEW f \in Field
    PROVE  Shape(View("main")'.fields[f]) =
               Shape(IF f \in MovedIn(log) THEN View("child").fields[f] ELSE View("main").fields[f])
<1> DEFINE r == Replayable(mode)
           M == After(log, r, Len(r))
           x == HeadOf(log, forkAt, "child")
           y == HeadOf(M, forkAt, "main")
<1>1. /\ Crosses(log, forkAt, Crossing(mode), MovedIn(log), r) /\ log' = M /\ Len(r) \in 0..Len(r)
    BY MergeLands
<1>2. forkAt' = forkAt
    BY DEF Merge
<1>3. View("main")' = HeadOf(log', forkAt', "main")
    BY ParentReadsNext
<1>4. <<x, y>> \in Alike(MovedIn(log), HeadOf(log, forkAt, "main").fields)
  <2> HIDE DEF x, y, M
  <2> QED BY <1>1, CarryMany DEF x, y, M
<1>5. x.ok
  <2>1. ViewsOK(log, forkAt) /\ Len(log) \in 0..Len(log) /\ "child" \in Branch
        BY DEF IInv, LogOK, Branch
  <2> QED BY <2>1 DEF ViewsOK, HeadOf
<1>6. x = View("child") /\ HeadOf(log, forkAt, "main") = View("main") /\ y = View("main")'
    BY <1>1, <1>2, <1>3, ReadsIs
<1> HIDE DEF x, y
<1>7. IF f \in MovedIn(log) THEN Shape(y.fields[f]) = Shape(x.fields[f])
      ELSE y.fields[f] = View("main").fields[f]
    BY <1>4, <1>5, <1>6 DEF Alike
<1> QED BY <1>6, <1>7

(* Only a merge that lands whole uses up a merge and no crash.              *)
LEMMA OnlyMerges ==
    ASSUME IInv, [Next]_vars, left'.merges < left.merges, left'.crashes = left.crashes
    PROVE  \E mode \in left.modes : Merge(mode, Len(Replayable(mode)))
<1>1. left \in Budget /\ left.merges \in Nat /\ left.crashes \in Nat
    BY DEF IInv, Budget
<1>2. left' # left
    BY <1>1
<1>3. ASSUME NEW b \in Branch, NEW e, DefPush(b, e) PROVE FALSE
  <2>1. left' = [left EXCEPT !.events = @ - 1]
        BY <1>3 DEF DefPush
  <2> QED BY <1>1, <2>1 DEF Budget
<1>4. ASSUME NEW b \in Branch, NEW d, RepoPush(b, d) PROVE FALSE
  <2>1. left' = [left EXCEPT !.pushes = @ - 1]
        BY <1>4 DEF RepoPush
  <2> QED BY <1>1, <2>1 DEF Budget
<1>5. ASSUME NEW at, Fork(at) PROVE FALSE
  <2>1. left' = [left EXCEPT !.forks = @ - 1]
        BY <1>5 DEF Fork
  <2> QED BY <1>1, <2>1 DEF Budget
<1>6. ASSUME NEW b, NEW f, NEW c, Write(b, f, c) PROVE FALSE
  <2>1. left' = [left EXCEPT !.writes = @ - 1]
        BY <1>6 DEF Write
  <2> QED BY <1>1, <2>1 DEF Budget
<1>7. ASSUME NEW mode \in left.modes, NEW landed, Merge(mode, landed)
      PROVE  \E m \in left.modes : Merge(m, Len(Replayable(m)))
  <2>1. /\ landed \in 0..Len(Replayable(mode)) /\ Len(Replayable(mode)) \in Nat
        BY <1>7, MergeLands
  <2>2. left' = [left EXCEPT !.merges = @ - 1,
                             !.crashes = IF landed < Len(Replayable(mode)) THEN @ - 1 ELSE @]
        BY <1>7 DEF Merge
  <2>3. ~(landed < Len(Replayable(mode)))
        BY <1>1, <2>2 DEF Budget
  <2>4. landed = Len(Replayable(mode))
        BY <2>1, <2>3
  <2> QED BY <1>7, <2>4
<1>8. (\E b \in Branch : BeginRound(b)) \/ (\E role \in round.pending : Consume(role))
      \/ (\E run \in round.reading : Produce(run)) \/ NextWave \/ EndRound \/ UNCHANGED vars => left' = left
    BY DEF BeginRound, Consume, Produce, NextWave, EndRound, vars
<1> QED BY <1>2, <1>3, <1>4, <1>5, <1>6, <1>7, <1>8 DEF Next

---------------------------------------------------------------------------

\* Every reachable state satisfies the inductive invariant.
THEOREM Inductive == Spec => []IInv
<1>1. Init => IInv
    BY InvInit
<1>2. IInv /\ [Next]_vars => IInv'
    BY InvStep
<1> QED BY <1>1, <1>2, PTL DEF Spec

\* Every view folds at every ClientVersion on every branch, through pushes by hand and by repos,
\* forks, and merges that die half-way; every record has the shape its version names; producers
\* see themselves; and the hops between two versions of a field's life leave no gap (defs.rs
\* apply, push, path and migration_role; branch.rs replay).
THEOREM SpecDefsInv == Spec => []DefsInv
<1> QED BY Inductive, InvGivesDefsInv, PTL

\* A merge that lands whole gives the parent the child's definition of every field the child
\* moved and leaves the others as they were (branch.rs replay).
THEOREM SpecMergeCarries == Spec => MergeCarriesTheSchema
<1> DEFINE Carries ==
             \A mode \in {"DefOnly", "DefAndData"} :
                (left'.merges < left.merges /\ left'.crashes = left.crashes /\ mode \in left.modes) =>
                  LET moved == UNION {UNION {Touches(e) : e \in log[i].events} :
                                         i \in {i \in DOMAIN log : log[i].on = "child"}}
                  IN  \A f \in Field :
                        Shape(View("main")'.fields[f]) =
                            Shape(IF f \in moved THEN View("child").fields[f] ELSE View("main").fields[f])
<1>1. IInv /\ [Next]_vars => Carries
  <2> SUFFICES ASSUME IInv, [Next]_vars, left'.merges < left.merges, left'.crashes = left.crashes,
                      NEW f \in Field
               PROVE  Shape(View("main")'.fields[f]) =
                          Shape(IF f \in MovedIn(log) THEN View("child").fields[f]
                                ELSE View("main").fields[f])
      BY DEF MovedIn
  <2> QED BY OnlyMerges, CarriesAll
<1>2. IInv /\ [Next]_vars => [Carries]_vars
    BY <1>1
<1> QED BY <1>2, Inductive, PTL DEF Spec, MergeCarriesTheSchema

---------------------------------------------------------------------------
(* A repeated push                                                          *)

\* An event has taken effect.
Done(x, e) ==
    CASE e.kind = "declare" -> /\ x.fields[e.field].version # 0
                               /\ Shape(x.fields[e.field]) = <<e.type, e.repo, e.owner>>
      [] e.kind = "mutate" -> /\ x.fields[e.field].version # 0
                              /\ Shape(x.fields[e.field]) = <<e.type, e.repo, Source>>
      [] e.kind = "producer" -> Unchanged(x.producers[e.name], e)
      [] OTHER -> TRUE

\* A view says what a description says.
Says(x, d) ==
    /\ \A s \in d.fields : /\ x.fields[s.field].version # 0
                           /\ Shape(x.fields[s.field]) = <<s.type, d.repo, s.owner>>
    /\ \A e \in Described(d) : Unchanged(x.producers[e.name], e)

\* Every field in force was declared to its owner.
OwnersDeclared(x) ==
    \A f \in Field : x.fields[f].version # 0 =>
        \E e \in Declared : /\ e.field = f /\ e.repo = x.fields[f].repo
                            /\ e.owner = x.fields[f].owner

(* A fold, by the events it has taken.                                      *)
LEMMA FoldGrows ==
    ASSUME NEW v, NEW a, NEW events, IsFiniteSet(events), NEW S, <<{}, v>> \in S,
           \A s, x : <<s, x>> \in S =>
               \A e \in events : e \notin s => <<s \cup {e}, Joined(x, e, a)>> \in S
    PROVE  <<events, FoldLayer(v, events, a)>> \in S
<1> DEFINE f == CHOOSE f : f = [s \in SUBSET events |-> FoldStep(f, v, a, s)]
           Far == {n \in Nat : \A s \in SUBSET events : Cardinality(s) = n => <<s, f[s]>> \in S}
<1>0. FoldLayer(v, events, a) = f[events]
    BY Zenon DEF FoldLayer, FoldSet, MapThenFoldSet, FoldStep, Joined
<1>1. \A s \in SUBSET events : f[s] = FoldStep(f, v, a, s)
  <2>1. f = [s \in SUBSET events |-> FoldStep(f, v, a, s)]
        BY FoldEnds
  <2> HIDE DEF f
  <2> DEFINE h == [s \in SUBSET events |-> FoldStep(f, v, a, s)]
  <2>2. \A s \in SUBSET events : h[s] = FoldStep(f, v, a, s)
        OBVIOUS
  <2>3. f = h
        BY <2>1
  <2> HIDE DEF h
  <2> QED BY <2>2, <2>3, Zenon
<1> HIDE DEF f
<1>2. \A s \in SUBSET events : IsFiniteSet(s) /\ Cardinality(s) \in Nat
    BY FS_Subset, FS_CardinalityType
<1>3. 0 \in Far
  <2>1. ASSUME NEW s \in SUBSET events, Cardinality(s) = 0 PROVE <<s, f[s]>> \in S
    <3>1. s = {}
          BY <1>2, <2>1, FS_EmptySet
    <3>2. f[s] = v
          BY <1>1, <3>1 DEF FoldStep
    <3> QED BY <3>1, <3>2
  <2> QED BY <2>1
<1>4. ASSUME NEW n \in Nat, n \in Far PROVE n + 1 \in Far
  <2>1. ASSUME NEW s \in SUBSET events, Cardinality(s) = n + 1 PROVE <<s, f[s]>> \in S
    <3>1. s # {}
          BY <1>2, <2>1, FS_EmptySet
    <3> DEFINE e == CHOOSE e \in s : TRUE
    <3>2. e \in s
          BY <3>1
    <3>3. f[s] = Joined(f[s \ {e}], e, a)
          BY <1>1, <3>1 DEF FoldStep
    <3> HIDE DEF e
    <3>4. s \ {e} \in SUBSET events /\ Cardinality(s \ {e}) = n
      <4>1. Cardinality(s \ {e}) = Cardinality(s) - 1
            BY <1>2, <3>2, FS_RemoveElement
      <4> QED BY <2>1, <4>1
    <3>5. <<s \ {e}, f[s \ {e}]>> \in S
          BY <1>4, <3>4
    <3>6. e \in events /\ e \notin s \ {e} /\ (s \ {e}) \cup {e} = s
          BY <3>2
    <3>7. <<(s \ {e}) \cup {e}, Joined(f[s \ {e}], e, a)>> \in S
          BY <3>5, <3>6
    <3> QED BY <3>3, <3>6, <3>7
  <2> QED BY <2>1
<1> HIDE DEF Far
<1>5. Cardinality(events) \in Far
    BY <1>2, <1>3, <1>4, EveryNumber
<1>6. <<events, f[events]>> \in S
    BY <1>5 DEF Far
<1> QED BY <1>0, <1>6

(* An event that is taken has taken effect, and of what no other event is   *)
(* about nothing changes.                                                   *)
LEMMA JoinedDone ==
    ASSUME NEW x \in ViewType, NEW e \in DefEvent, e.kind # "delete", NEW a \in Nat \ {0}
    PROVE  /\ Joined(x, e, a) \in ViewType
           /\ Joined(x, e, a).ok => x.ok /\ Done(Joined(x, e, a), e)
           /\ \A f \in Field : (e.kind = "producer" \/ f # e.field) =>
                 Joined(x, e, a).fields[f] = x.fields[f]
           /\ \A n \in Name : (e.kind # "producer" \/ n # e.name) =>
                 Joined(x, e, a).producers[n] = x.producers[n]
<1> DEFINE u == Joined(x, e, a)
<1>1. /\ u \in ViewType
      /\ \/ ~u.ok /\ SameBut(x, u) /\ (~x.ok \/ Refused(x, e))
         \/ /\ x.ok /\ ~Refused(x, e) /\ e.kind = "declare"
            /\ x.fields[e.field].version # 0 /\ u = x
         \/ /\ x.ok /\ ~Refused(x, e) /\ e.kind = "declare"
            /\ x.fields[e.field].version = 0 /\ Declares(x, e, a, u)
         \/ x.ok /\ ~Refused(x, e) /\ e.kind = "mutate" /\ Mutates(x, e, a, u)
         \/ x.ok /\ ~Refused(x, e) /\ e.kind = "delete" /\ Deletes(x, e, u)
         \/ x.ok /\ ~Refused(x, e) /\ e.kind = "producer" /\ Produces(x, e, a, u)
    BY JoinedIs
<1> HIDE DEF u
<1>2. /\ e.kind \in {"declare", "mutate", "producer"}
      /\ e.kind # "producer" => e.field \in Field
      /\ e.kind = "producer" => e.name \in Name
    BY EventKinds
<1>3. u.ok => x.ok /\ ~Refused(x, e)
    BY <1>1
<1>4. /\ \A f \in Field : (e.kind = "producer" \/ f # e.field) => u.fields[f] = x.fields[f]
      /\ \A n \in Name : (e.kind # "producer" \/ n # e.name) => u.producers[n] = x.producers[n]
    BY <1>1, <1>2 DEF SameBut, Declares, Mutates, Produces
<1>5. ASSUME u.ok PROVE Done(u, e)
  <2>1. CASE e.kind = "declare"
    <3>1. CASE x.fields[e.field].version # 0
      <4>1. u = x
            BY <1>1, <1>3, <1>5, <2>1, <3>1
      <4> QED BY <1>3, <1>5, <2>1, <3>1, <4>1 DEF Refused, Done, Shape
    <3>2. CASE x.fields[e.field].version = 0
      <4>1. Declares(x, e, a, u)
            BY <1>1, <1>3, <1>5, <2>1, <3>2
      <4>2. u.fields[e.field] = [type |-> e.type, repo |-> e.repo, owner |-> e.owner, version |-> a]
            BY <1>2, <2>1, <4>1 DEF Declares
      <4> QED BY <2>1, <4>2 DEF Done, Shape
    <3> QED BY <3>1, <3>2
  <2>2. CASE e.kind = "mutate"
    <3>1. Mutates(x, e, a, u)
          BY <1>1, <1>3, <1>5, <2>2
    <3>2. u.fields[e.field] = [type |-> e.type, repo |-> x.fields[e.field].repo,
                               owner |-> x.fields[e.field].owner, version |-> a]
          BY <3>1 DEF Mutates
    <3>3. x.fields[e.field].repo = e.repo /\ x.fields[e.field].owner = Source
          BY <1>3, <1>5, <2>2 DEF Refused
    <3> QED BY <2>2, <3>2, <3>3 DEF Done, Shape
  <2>3. CASE e.kind = "producer"
    <3>1. Produces(x, e, a, u)
          BY <1>1, <1>3, <1>5, <2>3
    <3>2. u.producers[e.name] = [role |-> e.role, field |-> e.field, repo |-> e.repo,
                                 print |-> e.print, version |-> a]
          BY <1>2, <2>3, <3>1 DEF Produces
    <3> QED BY <2>3, <3>2 DEF Done, Unchanged
  <2> QED BY <1>2, <2>1, <2>2, <2>3
<1> QED BY <1>1, <1>3, <1>4, <1>5 DEF u

(* A push whose events are about different things leaves them all done.     *)
LEMMA FoldDone ==
    ASSUME NEW v \in ViewType, NEW events, events \subseteq DefEvent, IsFiniteSet(events),
           \A e \in events : e.kind # "delete",
           \A e, g \in events : e.kind # "producer" /\ g.kind # "producer" /\ e.field = g.field => e = g,
           \A e, g \in events : e.kind = "producer" /\ g.kind = "producer" /\ e.name = g.name => e = g,
           NEW a \in Nat \ {0}, NEW w, w = FoldLayer(v, events, a), w.ok
    PROVE  /\ w \in ViewType /\ \A e \in events : Done(w, e)
           /\ \A f \in Field : (\A e \in events : e.kind = "producer" \/ e.field # f) =>
                 w.fields[f] = v.fields[f]
           /\ \A n \in Name : (\A e \in events : e.kind # "producer" \/ e.name # n) =>
                 w.producers[n] = v.producers[n]
<1> DEFINE Q(s, x) ==
             /\ s \subseteq events
             /\ x.ok => \A e \in s : Done(x, e)
             /\ \A f \in Field : (\A e \in events : e.kind = "producer" \/ e.field # f) =>
                   x.fields[f] = v.fields[f]
             /\ \A n \in Name : (\A e \in events : e.kind # "producer" \/ e.name # n) =>
                   x.producers[n] = v.producers[n]
           S == {p \in (SUBSET events) \X ViewType : Q(p[1], p[2])}
<1>1. \A s, x : <<s, x>> \in S <=> x \in ViewType /\ Q(s, x)
    OBVIOUS
<1>2. <<{}, v>> \in S
    BY <1>1
<1>3. ASSUME NEW s, NEW x, <<s, x>> \in S, NEW e \in events, e \notin s
      PROVE  <<s \cup {e}, Joined(x, e, a)>> \in S
  <2> DEFINE u == Joined(x, e, a)
  <2>1. x \in ViewType /\ Q(s, x)
        BY <1>1, <1>3
  <2>2. e \in DefEvent /\ e.kind # "delete"
        OBVIOUS
  <2>3. /\ u \in ViewType
        /\ u.ok => x.ok /\ Done(u, e)
        /\ \A f \in Field : (e.kind = "producer" \/ f # e.field) => u.fields[f] = x.fields[f]
        /\ \A n \in Name : (e.kind # "producer" \/ n # e.name) => u.producers[n] = x.producers[n]
        BY <2>1, <2>2, JoinedDone
  <2> HIDE DEF u
  <2>4. ASSUME u.ok, NEW g \in s PROVE Done(u, g)
    <3>1. Done(x, g) /\ g \in events /\ g # e
          BY <1>3, <2>1, <2>3, <2>4
    <3>2. /\ g.kind \in {"declare", "mutate", "producer"}
          /\ g.kind # "producer" => g.field \in Field
          /\ g.kind = "producer" => g.name \in Name
      <4>1. g \in DefEvent /\ g.kind # "delete"
            BY <3>1
      <4> QED BY <4>1, EventKinds
    <3>3. g.kind # "producer" => e.kind = "producer" \/ g.field # e.field
          BY <3>1
    <3>4. g.kind = "producer" => e.kind # "producer" \/ g.name # e.name
          BY <3>1
    <3>5. g.kind # "producer" => u.fields[g.field] = x.fields[g.field]
          BY <2>3, <3>2, <3>3
    <3>6. g.kind = "producer" => u.producers[g.name] = x.producers[g.name]
          BY <2>3, <3>2, <3>4
    <3>7. CASE g.kind = "declare"
          BY <3>1, <3>5, <3>7 DEF Done
    <3>8. CASE g.kind = "mutate"
          BY <3>1, <3>5, <3>8 DEF Done
    <3>9. CASE g.kind = "producer"
          BY <3>1, <3>6, <3>9 DEF Done
    <3> QED BY <3>2, <3>7, <3>8, <3>9
  <2>5. Q(s \cup {e}, u)
    <3>1. \A f \in Field : (\A g \in events : g.kind = "producer" \/ g.field # f) =>
             u.fields[f] = v.fields[f]
          BY <2>1, <2>3
    <3>2. \A n \in Name : (\A g \in events : g.kind # "producer" \/ g.name # n) =>
             u.producers[n] = v.producers[n]
          BY <2>1, <2>3
    <3>3. u.ok => \A g \in s \cup {e} : Done(u, g)
          BY <2>3, <2>4
    <3> QED BY <2>1, <3>1, <3>2, <3>3
  <2> HIDE DEF Q, S
  <2> QED BY <1>1, <2>3, <2>5 DEF u
<1> HIDE DEF Q, S
<1>4. <<events, w>> \in S
    BY <1>2, <1>3, FoldGrows
<1> QED BY <1>1, <1>4 DEF Q

(* The events of a push, and what they are about.                           *)
LEMMA PushIs ==
    ASSUME NothingShared, NEW d \in Descriptions, NEW view
    PROVE  /\ \A e \in PushEvents(view, d) : e.repo = d.repo
           /\ \A e \in PushEvents(view, d) : e.kind = "producer" =>
                 e \in Described(d) /\ ~Unchanged(view.producers[e.name], e)
           /\ \A e \in PushEvents(view, d) : e.kind # "producer" =>
                 \E s \in d.fields :
                    /\ e.field = s.field
                    /\ \/ Moved(view, s) /\ e = Mutate(s.field, s.type, d.repo, s.up, s.down)
                       \/ /\ ~Moved(view, s) /\ ~Repeats(view, d, s)
                          /\ e = Declare(s.field, s.type, d.repo, s.owner)
           /\ \A s \in d.fields : Moved(view, s) =>
                 Mutate(s.field, s.type, d.repo, s.up, s.down) \in PushEvents(view, d)
           /\ \A s \in d.fields : ~Moved(view, s) /\ ~Repeats(view, d, s) =>
                 Declare(s.field, s.type, d.repo, s.owner) \in PushEvents(view, d)
           /\ \A e \in Described(d) : ~Unchanged(view.producers[e.name], e) => e \in PushEvents(view, d)
<1> DEFINE A == {e \in Described(d) : ~Unchanged(view.producers[e.name], e)}
           Ms == {s \in d.fields : Moved(view, s)}
           Ds == {s \in d.fields : ~Moved(view, s) /\ ~Repeats(view, d, s)}
           B == {Mutate(s.field, s.type, d.repo, s.up, s.down) : s \in Ms}
           C == {Declare(s.field, s.type, d.repo, s.owner) : s \in Ds}
<1>1. PushEvents(view, d) = A \cup B \cup C
    BY Zenon DEF PushEvents
<1>2. \A e \in Described(d) : e.repo = d.repo /\ e.kind = "producer"
    BY DEF Described, PushProducer
<1>3. \A e \in B : /\ e.kind = "mutate" /\ e.repo = d.repo
                   /\ \E s \in d.fields : /\ e.field = s.field /\ Moved(view, s)
                                          /\ e = Mutate(s.field, s.type, d.repo, s.up, s.down)
  <2> SUFFICES ASSUME NEW e \in B
               PROVE  /\ e.kind = "mutate" /\ e.repo = d.repo
                      /\ \E s \in d.fields : /\ e.field = s.field /\ Moved(view, s)
                                             /\ e = Mutate(s.field, s.type, d.repo, s.up, s.down)
      OBVIOUS
  <2>1. PICK s \in Ms : e = Mutate(s.field, s.type, d.repo, s.up, s.down)
        OBVIOUS
  <2>2. e.kind = "mutate" /\ e.repo = d.repo /\ e.field = s.field
        BY <2>1 DEF Mutate
  <2> QED BY <2>1, <2>2
<1>4. \A e \in C : /\ e.kind = "declare" /\ e.repo = d.repo
                   /\ \E s \in d.fields : /\ e.field = s.field /\ ~Moved(view, s) /\ ~Repeats(view, d, s)
                                          /\ e = Declare(s.field, s.type, d.repo, s.owner)
  <2> SUFFICES ASSUME NEW e \in C
               PROVE  /\ e.kind = "declare" /\ e.repo = d.repo
                      /\ \E s \in d.fields : /\ e.field = s.field /\ ~Moved(view, s) /\ ~Repeats(view, d, s)
                                             /\ e = Declare(s.field, s.type, d.repo, s.owner)
      OBVIOUS
  <2>1. PICK s \in Ds : e = Declare(s.field, s.type, d.repo, s.owner)
        OBVIOUS
  <2>2. e.kind = "declare" /\ e.repo = d.repo /\ e.field = s.field
        BY <2>1 DEF Declare
  <2> QED BY <2>1, <2>2
<1>5. /\ \A s \in Ms : Mutate(s.field, s.type, d.repo, s.up, s.down) \in B
      /\ \A s \in Ds : Declare(s.field, s.type, d.repo, s.owner) \in C
    OBVIOUS
<1>6. \A e \in A : e.kind = "producer" /\ e.repo = d.repo
    BY <1>2
<1>7. \A s \in d.fields : /\ Moved(view, s) => s \in Ms
                          /\ ~Moved(view, s) /\ ~Repeats(view, d, s) => s \in Ds
    OBVIOUS
<1>8. \A e \in A : e \in Described(d) /\ ~Unchanged(view.producers[e.name], e)
    OBVIOUS
<1>9. \A e \in Described(d) : ~Unchanged(view.producers[e.name], e) => e \in A
    OBVIOUS
<1> HIDE DEF A, B, C, Ms, Ds
<1> QED BY <1>1, <1>3, <1>4, <1>5, <1>6, <1>7, <1>8, <1>9

(* A push that lands leaves a view that says what was pushed.               *)
LEMMA PushSays ==
    ASSUME NothingShared, NEW d \in Descriptions, NEW view \in ViewType, ~Unpushable(view, d),
           OwnersDeclared(view), NEW a \in Nat \ {0}, NEW w, w = FoldLayer(view, PushEvents(view, d), a),
           w.ok
    PROVE  Says(w, d)
<1> DEFINE events == PushEvents(view, d)
<1>1. events \subseteq DefEvent /\ IsFiniteSet(events) /\ \A e \in events : e.kind # "delete"
    BY PushTyped
<1>2. \A s, t \in d.fields : s.field = t.field => s = t
    BY DEF NothingShared
<1>3. \A e, g \in Described(d) : e.name = g.name => e = g
    BY DEF NothingShared
<1> HIDE DEF events
<1>4. \A e, g \in events : e.kind # "producer" /\ g.kind # "producer" /\ e.field = g.field => e = g
  <2> SUFFICES ASSUME NEW e \in events, NEW g \in events, e.kind # "producer", g.kind # "producer",
                      e.field = g.field
               PROVE  e = g
      OBVIOUS
  <2>1. PICK s \in d.fields :
           /\ e.field = s.field
           /\ \/ Moved(view, s) /\ e = Mutate(s.field, s.type, d.repo, s.up, s.down)
              \/ /\ ~Moved(view, s) /\ ~Repeats(view, d, s)
                 /\ e = Declare(s.field, s.type, d.repo, s.owner)
        BY PushIs DEF events
  <2>2. PICK t \in d.fields :
           /\ g.field = t.field
           /\ \/ Moved(view, t) /\ g = Mutate(t.field, t.type, d.repo, t.up, t.down)
              \/ /\ ~Moved(view, t) /\ ~Repeats(view, d, t)
                 /\ g = Declare(t.field, t.type, d.repo, t.owner)
        BY PushIs DEF events
  <2>3. s = t
        BY <1>2, <2>1, <2>2
  <2> QED BY <2>1, <2>2, <2>3
<1>5. \A e \in events : e.kind = "producer" => e \in Described(d)
    BY PushIs DEF events
<1>6. \A e, g \in events : e.kind = "producer" /\ g.kind = "producer" /\ e.name = g.name => e = g
    BY <1>3, <1>5
<1>7. /\ w \in ViewType /\ \A e \in events : Done(w, e)
      /\ \A f \in Field : (\A e \in events : e.kind = "producer" \/ e.field # f) =>
            w.fields[f] = view.fields[f]
      /\ \A n \in Name : (\A e \in events : e.kind # "producer" \/ e.name # n) =>
            w.producers[n] = view.producers[n]
  <2>1. w = FoldLayer(view, events, a)
        BY DEF events
  <2> QED BY <1>1, <1>4, <1>6, <2>1, FoldDone
<1>8. ASSUME NEW s \in d.fields
      PROVE  /\ w.fields[s.field].version # 0
             /\ Shape(w.fields[s.field]) = <<s.type, d.repo, s.owner>>
  <2>0. s.field \in Field /\ d.repo \in Repo
        BY DescriptionsAre
  <2>1. CASE Moved(view, s)
    <3> DEFINE e == Mutate(s.field, s.type, d.repo, s.up, s.down)
    <3>1. e \in events
          BY <2>1, PushIs DEF events
    <3>2. e.kind = "mutate" /\ e.field = s.field /\ e.type = s.type /\ e.repo = d.repo
          BY DEF Mutate
    <3> HIDE DEF e
    <3>3. w.fields[s.field].version # 0 /\ Shape(w.fields[s.field]) = <<s.type, d.repo, Source>>
          BY <1>7, <3>1, <3>2 DEF Done
    <3>4. view.fields[s.field].owner = Source /\ view.fields[s.field].version # 0
          BY <2>1 DEF Unpushable, Moved
    <3>5. view.fields[s.field].repo = d.repo
      <4>1. SUFFICES ASSUME view.fields[s.field].repo # d.repo PROVE FALSE
            OBVIOUS
      <4> DEFINE R == {x \in ViewType : x.ok => x.fields[s.field].repo = view.fields[s.field].repo}
      <4>2. view \in R
            OBVIOUS
      <4>3. \A x \in R : \A g \in events : Joined(x, g, a) \in R
        <5> SUFFICES ASSUME NEW x \in R, NEW g \in events PROVE Joined(x, g, a) \in R
            OBVIOUS
        <5>1. g \in DefEvent /\ g.kind # "delete" /\ x \in ViewType
              BY <1>1
        <5>2. /\ Joined(x, g, a) \in ViewType
              /\ \A f \in Field : (g.kind = "producer" \/ f # g.field) =>
                    Joined(x, g, a).fields[f] = x.fields[f]
              /\ Joined(x, g, a).ok => x.ok
              BY <5>1, JoinedDone
        <5>3. CASE g = e
          <6> DEFINE u == Joined(x, g, a)
          <6>1. \/ ~u.ok
                \/ Mutates(x, g, a, u)
                BY <3>2, <5>1, <5>3, JoinedIs
          <6> HIDE DEF u
          <6>2. u.ok => u.fields[s.field].repo = x.fields[s.field].repo
                BY <3>2, <5>3, <6>1 DEF Mutates
          <6>3. u.ok => x.ok
                BY <5>2 DEF u
          <6>4. u.ok => u.fields[s.field].repo = view.fields[s.field].repo
                BY <6>2, <6>3
          <6> QED BY <5>2, <6>4 DEF u
        <5>4. CASE g # e
          <6>1. g.kind = "producer" \/ s.field # g.field
                BY <1>4, <3>1, <3>2, <5>4
          <6> QED BY <2>0, <5>2, <6>1
        <5> QED BY <5>3, <5>4
      <4> HIDE DEF R
      <4>4. FoldLayer(view, events, a) \in R
            BY <1>1, <4>2, <4>3, FoldKeeps
      <4>5. w.fields[s.field].repo = view.fields[s.field].repo
            BY <4>4 DEF R, events
      <4>6. w.fields[s.field].repo = d.repo
            BY <3>3 DEF Shape
      <4> QED BY <4>1, <4>5, <4>6
    <3>6. s.owner = Source
      <4>1. PICK g \in Declared : g.field = s.field /\ g.repo = d.repo /\ g.owner = Source
            BY <2>0, <3>4, <3>5 DEF OwnersDeclared
      <4>2. Declare(s.field, s.type, d.repo, s.owner) \in Declared
            BY DEF Declared
      <4>3. \A h \in Declared : h.repo = d.repo /\ h.field = s.field => h.owner = Source
            BY <4>1 DEF NothingShared
      <4> QED BY <4>2, <4>3 DEF Declare
    <3> QED BY <3>3, <3>6
  <2>2. CASE ~Moved(view, s) /\ ~Repeats(view, d, s)
    <3> DEFINE e == Declare(s.field, s.type, d.repo, s.owner)
    <3>1. e \in events
          BY <2>2, PushIs DEF events
    <3>2. e.kind = "declare" /\ e.field = s.field /\ e.type = s.type /\ e.repo = d.repo /\ e.owner = s.owner
          BY DEF Declare
    <3> HIDE DEF e
    <3> QED BY <1>7, <3>1, <3>2 DEF Done
  <2>3. CASE ~Moved(view, s) /\ Repeats(view, d, s)
    <3>1. \A e \in events : e.kind = "producer" \/ e.field # s.field
      <4> SUFFICES ASSUME NEW e \in events, e.kind # "producer", e.field = s.field PROVE FALSE
          OBVIOUS
      <4>1. PICK t \in d.fields : e.field = t.field /\ (Moved(view, t) \/ ~Repeats(view, d, t))
            BY PushIs DEF events
      <4> QED BY <1>2, <2>3, <4>1
    <3>2. w.fields[s.field] = view.fields[s.field]
          BY <1>7, <2>0, <3>1
    <3> QED BY <2>3, <3>2 DEF Repeats, Shape
  <2> QED BY <2>1, <2>2, <2>3
<1>9. ASSUME NEW e \in Described(d) PROVE Unchanged(w.producers[e.name], e)
  <2>1. e.kind = "producer" /\ e.name \in Name
    <3>1. e \in DefEvent /\ e.kind = "producer"
          BY DescribedTyped
    <3> QED BY <3>1, EventKinds
  <2>2. CASE e \in events
        BY <1>7, <2>1, <2>2 DEF Done
  <2>3. CASE e \notin events
    <3>1. Unchanged(view.producers[e.name], e)
          BY <2>3, PushIs DEF events
    <3>2. \A g \in events : g.kind # "producer" \/ g.name # e.name
          BY <1>3, <1>5, <2>3
    <3>3. w.producers[e.name] = view.producers[e.name]
          BY <1>7, <2>1, <3>2
    <3> QED BY <3>1, <3>3
  <2> QED BY <2>2, <2>3
<1> QED BY <1>8, <1>9 DEF Says

(* A push by another repo leaves what a view says of this one's.            *)
LEMMA OthersKeep ==
    ASSUME NothingShared, NEW d \in Descriptions, NEW c \in Descriptions, c.repo # d.repo,
           NEW view \in ViewType, ~Unpushable(view, c), Says(view, d),
           NEW a \in Nat \ {0}, FoldLayer(view, PushEvents(view, c), a).ok
    PROVE  Says(FoldLayer(view, PushEvents(view, c), a), d)
<1> DEFINE events == PushEvents(view, c)
           S == {x \in ViewType : x.ok => Says(x, d)}
<1>1. events \subseteq DefEvent /\ IsFiniteSet(events) /\ \A e \in events : e.kind # "delete"
    BY PushTyped
<1>2. \A e \in events : e.repo = c.repo
    BY PushIs
<1>3. \A e \in events : e.kind = "producer" => \A g \in Described(d) : g.name # e.name
  <2>1. \A e \in events : e.kind = "producer" => e \in Described(c)
        BY PushIs
  <2> QED BY <2>1 DEF NothingShared
<1> HIDE DEF events
<1>4. ASSUME NEW x \in S, NEW e \in events PROVE Joined(x, e, a) \in S
  <2> DEFINE u == Joined(x, e, a)
  <2>1. x \in ViewType /\ e \in DefEvent /\ e.kind # "delete" /\ (x.ok => Says(x, d))
        BY <1>1
  <2>2. /\ u \in ViewType
        /\ u.ok => x.ok /\ Done(u, e)
        /\ \A f \in Field : (e.kind = "producer" \/ f # e.field) => u.fields[f] = x.fields[f]
        /\ \A n \in Name : (e.kind # "producer" \/ n # e.name) => u.producers[n] = x.producers[n]
        BY <2>1, JoinedDone
  <2>3. u.ok => ~Refused(x, e)
        BY <2>1, JoinedIs
  <2> HIDE DEF u
  <2>4. ASSUME u.ok PROVE Says(u, d)
    <3>1. Says(x, d) /\ ~Refused(x, e)
          BY <2>1, <2>2, <2>3, <2>4
    <3>2. ASSUME NEW s \in d.fields
          PROVE  u.fields[s.field] = x.fields[s.field]
      <4>0. s.field \in Field
            BY DescriptionsAre
      <4>1. x.fields[s.field].version # 0 /\ x.fields[s.field].repo = d.repo
            BY <3>1 DEF Says, Shape
      <4>2. e.repo # d.repo /\ e.kind \in {"declare", "mutate", "producer"}
            BY <1>2, <2>1, EventKinds
      <4>3. e.kind = "producer" \/ s.field # e.field
            BY <3>1, <4>1, <4>2 DEF Refused
      <4> QED BY <2>2, <4>0, <4>3
    <3>3. ASSUME NEW g \in Described(d) PROVE u.producers[g.name] = x.producers[g.name]
      <4>1. g.name \in Name
        <5>1. g \in DefEvent /\ g.kind = "producer"
              BY DescribedTyped
        <5> QED BY <5>1, EventKinds
      <4> QED BY <1>3, <2>2, <4>1
    <3> QED BY <3>1, <3>2, <3>3 DEF Says
  <2> QED BY <2>2, <2>4 DEF u
<1>5. view \in S
    OBVIOUS
<1> HIDE DEF S
<1>6. FoldLayer(view, events, a) \in S
    BY <1>1, <1>4, <1>5, FoldKeeps
<1> QED BY <1>6 DEF S, events

(* Owners stay the declared ones.                                           *)
LEMMA JoinedOwners ==
    ASSUME NEW x \in ViewType, OwnersDeclared(x), NEW e \in DefEvent,
           e.kind = "declare" => e \in Declared, NEW a \in Nat
    PROVE  Joined(x, e, a) \in ViewType /\ OwnersDeclared(Joined(x, e, a))
<1> DEFINE u == Joined(x, e, a)
<1>1. /\ u \in ViewType
      /\ \/ ~u.ok /\ SameBut(x, u) /\ (~x.ok \/ Refused(x, e))
         \/ /\ x.ok /\ ~Refused(x, e) /\ e.kind = "declare"
            /\ x.fields[e.field].version # 0 /\ u = x
         \/ /\ x.ok /\ ~Refused(x, e) /\ e.kind = "declare"
            /\ x.fields[e.field].version = 0 /\ Declares(x, e, a, u)
         \/ x.ok /\ ~Refused(x, e) /\ e.kind = "mutate" /\ Mutates(x, e, a, u)
         \/ x.ok /\ ~Refused(x, e) /\ e.kind = "delete" /\ Deletes(x, e, u)
         \/ x.ok /\ ~Refused(x, e) /\ e.kind = "producer" /\ Produces(x, e, a, u)
    BY JoinedIs
<1> HIDE DEF u
<1>2. ASSUME NEW f \in Field, u.fields[f].version # 0
      PROVE  \E g \in Declared : g.field = f /\ g.repo = u.fields[f].repo /\ g.owner = u.fields[f].owner
  <2>1. CASE u.fields[f] = x.fields[f]
        BY <1>2, <2>1 DEF OwnersDeclared
  <2>2. CASE /\ e.kind = "declare" /\ f = e.field
             /\ u.fields[f] = [type |-> e.type, repo |-> e.repo, owner |-> e.owner, version |-> a]
        BY <2>2
  <2>3. CASE /\ u.fields[f].repo = x.fields[f].repo /\ u.fields[f].owner = x.fields[f].owner
             /\ x.fields[f].version # 0
        BY <2>3 DEF OwnersDeclared
  <2>4. CASE u.fields[f] = NoField
        BY <1>2, <2>4 DEF NoField
  <2>5. e.kind = "mutate" /\ f = e.field /\ ~Refused(x, e) => x.fields[f].version # 0
        BY DEF Refused
  <2>6. Mutates(x, e, a, u) /\ f = e.field =>
           u.fields[f].repo = x.fields[f].repo /\ u.fields[f].owner = x.fields[f].owner
        BY DEF Mutates
  <2>7. Mutates(x, e, a, u) /\ f # e.field => u.fields[f] = x.fields[f]
        BY DEF Mutates
  <2>8. SameBut(x, u) \/ Produces(x, e, a, u) \/ u = x => u.fields[f] = x.fields[f]
        BY DEF SameBut, Produces
  <2>9. Deletes(x, e, u) => u.fields[f] = x.fields[f] \/ u.fields[f] = NoField
        BY DEF Deletes
  <2>10. Declares(x, e, a, u) =>
            \/ u.fields[f] = x.fields[f]
            \/ f = e.field
               /\ u.fields[f] = [type |-> e.type, repo |-> e.repo, owner |-> e.owner, version |-> a]
        BY DEF Declares
  <2> QED BY <1>1, <2>1, <2>2, <2>3, <2>4, <2>5, <2>6, <2>7, <2>8, <2>9, <2>10
<1> QED BY <1>1, <1>2 DEF OwnersDeclared, u

\* Every declaration of a log is one of those that there are.
DeclaresIn(L) == \A i \in 1..Len(L) : \A e \in L[i].events : e.kind = "declare" => e \in Declared

\* What a log declares is whom its views say a field belongs to.
LEMMA HeadOwners ==
    ASSUME NEW L, NEW fork, LogOK(L, fork), DeclaresIn(L), NEW b
    PROVE  HeadOf(L, fork, b) \in ViewType /\ OwnersDeclared(HeadOf(L, fork, b))
<1> DEFINE P == PathOf(L, fork, b)
           V == ViewsOf(L, P)
           Far == {i \in Nat : i <= Len(L) => OwnersDeclared(V[i])}
<1>1. Folds(V, L, P) /\ Legible(L, P) /\ (\A i \in 0..Len(L) : V[i] \in ViewType) /\ Len(L) \in Nat
    BY LogViews, LogLegible DEF LogOK
<1>2. HeadOf(L, fork, b) = V[Len(L)]
    BY DEF HeadOf
<1> HIDE DEF P, V
<1>3. 0 \in Far
  <2>1. \A f \in Field : EmptyView.fields[f].version = 0
        BY DEF EmptyView, NoField
  <2> QED BY <1>1, <2>1 DEF Folds, OwnersDeclared
<1>4. ASSUME NEW i \in Nat, i \in Far PROVE i + 1 \in Far
  <2> SUFFICES ASSUME i + 1 <= Len(L) PROVE OwnersDeclared(V[i + 1])
      OBVIOUS
  <2>1. i + 1 \in 1..Len(L) /\ i \in 0..Len(L) /\ (i + 1) - 1 = i /\ i + 1 \in Nat /\ OwnersDeclared(V[i])
        BY <1>1, <1>4
  <2>2. V[i + 1] = IF i + 1 \in P THEN FoldLayer(V[i], L[i + 1].events, i + 1) ELSE V[i]
        BY <1>1, <2>1 DEF Folds
  <2> DEFINE S == {x \in ViewType : OwnersDeclared(x)}
             E == L[i + 1].events
  <2>3. E \subseteq DefEvent /\ IsFiniteSet(E) /\ \A e \in E : e.kind = "declare" => e \in Declared
        BY <1>1, <2>1 DEF Legible, DeclaresIn
  <2>4. V[i] \in S
        BY <1>1, <2>1
  <2> HIDE DEF E
  <2>5. \A x \in S : \A e \in E : Joined(x, e, i + 1) \in S
        BY <2>1, <2>3, JoinedOwners
  <2> HIDE DEF S
  <2>6. FoldLayer(V[i], E, i + 1) \in S
        BY <2>3, <2>4, <2>5, FoldKeeps
  <2> QED BY <2>1, <2>2, <2>6 DEF S, E
<1> HIDE DEF Far
<1>5. Len(L) \in Far
    BY <1>1, <1>3, <1>4, EveryNumber
<1>6. Len(L) \in 0..Len(L)
    BY <1>1
<1> QED BY <1>1, <1>2, <1>5, <1>6 DEF Far

\* A branch says what it last took of every repo.
Stands(L, fork, acc) ==
    \A b \in Branch, d \in Descriptions : acc[b][d.repo] = d.id => Says(HeadOf(L, fork, b), d)

AcceptedOK(fork, acc) ==
    /\ acc \in [Branch -> [Repo -> Nat]]
    /\ fork = 0 => \A r \in Repo : acc["child"][r] = Nobody

SaysInv ==
    /\ DeclaresIn(log)
    /\ \E l \in Scenarios : left.vocabulary = l.vocabulary
    /\ AcceptedOK(forkAt, accepted)
    /\ Stands(log, forkAt, accepted)

(* The views after a layer has landed.                                      *)
LEMMA HeadAppends ==
    ASSUME NEW L, NEW fork, LogOK(L, fork), NEW lay, Lands(L, fork, lay), NEW b \in Branch
    PROVE  HeadOf(Append(L, lay), fork, b) =
               IF b = lay.on THEN FoldLayer(HeadOf(L, fork, b), lay.events, Len(L) + 1)
               ELSE HeadOf(L, fork, b)
<1>1. L \in Seq(LayerRec) /\ lay \in LayerRec
    BY DEF LogOK, Lands
<1>2. Len(Append(L, lay)) = Len(L) + 1
    BY <1>1
<1> QED BY <1>2, AppendFolds DEF HeadOf

(* The declarations after a layer has landed.                               *)
LEMMA DeclaresAppends ==
    ASSUME NEW L, NEW fork, LogOK(L, fork), NEW lay, Lands(L, fork, lay), DeclaresIn(L),
           \A e \in lay.events : e.kind = "declare" => e \in Declared
    PROVE  DeclaresIn(Append(L, lay))
<1> DEFINE M == Append(L, lay)
<1>1. L \in Seq(LayerRec) /\ lay \in LayerRec /\ Len(L) \in Nat
    BY DEF LogOK, Lands
<1>2. Len(M) = Len(L) + 1 /\ M[Len(L) + 1] = lay /\ \A i \in 1..Len(L) : M[i] = L[i]
    BY <1>1
<1>3. \A i \in 1..Len(L) + 1 : i \in 1..Len(L) \/ i = Len(L) + 1
    BY <1>1
<1> HIDE DEF M
<1>4. DeclaresIn(M)
    BY <1>2, <1>3 DEF DeclaresIn
<1> QED BY <1>4 DEF M

(* Nobody is no description.                                                *)
LEMMA NobodyIsNone == \A d \in Descriptions : d.id # Nobody /\ d.repo \in Repo
BY DescriptionsAre DEF Nobody

(* A layer without events leaves what is said.                              *)
LEMMA QuietStands ==
    ASSUME NEW L, NEW fork, LogOK(L, fork), NEW lay, lay.events = {}, LogOK(Append(L, lay), fork),
           NEW acc, Stands(L, fork, acc), DeclaresIn(L)
    PROVE  Stands(Append(L, lay), fork, acc) /\ DeclaresIn(Append(L, lay))
<1> DEFINE M == Append(L, lay)
           n == Len(L)
<1>1. L \in Seq(LayerRec) /\ n \in Nat
    BY DEF LogOK
<1>2. L \in Seq(LayerRec \cup {lay}) /\ lay \in LayerRec \cup {lay}
    BY <1>1
<1>3. Len(M) = n + 1 /\ M[n + 1] = lay /\ \A i \in 1..n : M[i] = L[i]
    BY <1>2
<1>4. LogOK(M, fork)
    OBVIOUS
<1> HIDE DEF M
<1>5. ASSUME NEW b \in Branch PROVE HeadOf(M, fork, b) = HeadOf(L, fork, b)
  <2> DEFINE P == PathOf(M, fork, b)
             V == ViewsOf(M, P)
  <2>1. Folds(V, M, P)
        BY <1>4, LogViews
  <2>2. V[n] = HeadOf(L, fork, b)
    <3>1. Len(L) <= Len(M) /\ n \in 0..Len(L)
          BY <1>1, <1>3
    <3>2. \A i \in 0..Len(L) : ViewsOf(M, PathOf(M, fork, b))[i] = ViewsOf(L, PathOf(L, fork, b))[i]
          BY <1>3, <1>4, <3>1, ViewsStay
    <3> QED BY <3>1, <3>2 DEF HeadOf
  <2>3. \A i \in n + 1..n + 1 : i = n + 1
        BY <1>1
  <2> HIDE DEF V, P
  <2>4. V[n + 1] = V[n]
    <3>1. Quiet(M, P, n, n + 1)
          BY <1>1, <1>3, <2>3 DEF Quiet
    <3> HIDE DEF n
    <3> QED BY <1>1, <2>1, <3>1, FoldsStay
  <2> QED BY <1>3, <2>2, <2>4 DEF HeadOf, V, P
<1>6. Stands(M, fork, acc)
    BY <1>5 DEF Stands
<1>7. \A i \in 1..n + 1 : i \in 1..n \/ i = n + 1
    BY <1>1
<1>8. DeclaresIn(M)
    BY <1>3, <1>7 DEF DeclaresIn
<1> QED BY <1>6, <1>8 DEF M

\* A scenario counts down, and nothing else.
LEMMA VocabularyStays ==
    ASSUME left \in Budget, NEW k
    PROVE  /\ [left EXCEPT !.pushes = k].vocabulary = left.vocabulary
           /\ [left EXCEPT !.events = k].vocabulary = left.vocabulary
           /\ [left EXCEPT !.writes = k].vocabulary = left.vocabulary
           /\ [left EXCEPT !.forks = k].vocabulary = left.vocabulary
           /\ \A c : [left EXCEPT !.merges = k, !.crashes = c].vocabulary = left.vocabulary
BY DEF Budget

(* Nothing has been pushed at first.                                        *)
LEMMA SaysInit ==
    ASSUME Init
    PROVE  SaysInv
<1>1. /\ log = <<>> /\ forkAt = 0 /\ left \in Scenarios
      /\ accepted = [b \in Branch |-> [r \in Repo |-> Nobody]]
    BY DEF Init
<1>2. DeclaresIn(log)
  <2>1. Len(log) = 0
        BY <1>1
  <2> QED BY <2>1 DEF DeclaresIn
<1>3. accepted \in [Branch -> [Repo -> Nat]] /\ \A b \in Branch, r \in Repo : accepted[b][r] = Nobody
    BY <1>1 DEF Nobody
<1>4. AcceptedOK(forkAt, accepted)
    BY <1>3 DEF AcceptedOK, Branch
<1>5. Stands(log, forkAt, accepted)
    BY <1>3, NobodyIsNone DEF Stands
<1> QED BY <1>1, <1>2, <1>4, <1>5 DEF SaysInv

(* A hand's push unsays the branch it lands on, and no other.               *)
LEMMA SaysDefPush ==
    ASSUME IInv, SaysInv, NEW b \in Branch, NEW e \in left.vocabulary, DefPush(b, e)
    PROVE  SaysInv'
<1> DEFINE lay == Layer(b, "def", {e}, {})
<1>1. /\ Free /\ Exists(b)
      /\ log' = Append(log, lay) /\ forkAt' = forkAt
      /\ accepted' = [accepted EXCEPT ![b] = [r \in Repo |-> Nobody]]
      /\ left' = [left EXCEPT !.events = left.events - 1]
    BY DEF DefPush
<1>2. LogOK(log, forkAt) /\ left \in Budget
    BY DEF IInv
<1>3. e \in DefEvent
  <2>1. left.vocabulary \subseteq ByHand
        BY <1>2 DEF Budget
  <2> QED BY <2>1 DEF DefEvent
<1>4. forkAt \in Nat /\ (b = "child" => 0 < forkAt)
    BY <1>1, <1>2 DEF LogOK, Exists
<1>5. Lands(log, forkAt, lay) /\ lay.on = b /\ lay.events = {e}
    BY <1>3, <1>4, FS_Singleton DEF Lands, Layer, LayerRec
<1>6. PICK l \in Scenarios : left.vocabulary = l.vocabulary
    BY DEF SaysInv
<1>7. e.kind = "declare" => e \in Declared
    BY <1>6 DEF Declared
<1> HIDE DEF lay
<1>8. DeclaresIn(log')
    BY <1>1, <1>2, <1>5, <1>7, DeclaresAppends DEF SaysInv
<1>9. left'.vocabulary = l.vocabulary
    BY <1>1, <1>2, <1>6, VocabularyStays
<1>10. /\ accepted \in [Branch -> [Repo -> Nat]]
       /\ forkAt = 0 => \A r \in Repo : accepted["child"][r] = Nobody
    BY DEF SaysInv, AcceptedOK
<1>11. /\ accepted' \in [Branch -> [Repo -> Nat]]
       /\ \A r \in Repo : accepted'[b][r] = Nobody
       /\ \A o \in Branch : o # b => accepted'[o] = accepted[o]
    BY <1>1, <1>10 DEF Nobody
<1>12. AcceptedOK(forkAt', accepted')
    BY <1>1, <1>4, <1>10, <1>11 DEF AcceptedOK, Branch
<1>13. Stands(log', forkAt', accepted')
  <2> SUFFICES ASSUME NEW o \in Branch, NEW d \in Descriptions, accepted'[o][d.repo] = d.id
               PROVE  Says(HeadOf(log', forkAt', o), d)
      BY DEF Stands
  <2>1. o # b
        BY <1>11, NobodyIsNone
  <2>2. HeadOf(Append(log, lay), forkAt, o) = HeadOf(log, forkAt, o)
        BY <1>2, <1>5, <2>1, HeadAppends
  <2>3. accepted[o][d.repo] = d.id
        BY <1>11, <2>1
  <2> QED BY <1>1, <2>2, <2>3 DEF SaysInv, Stands
<1> QED BY <1>8, <1>9, <1>12, <1>13 DEF SaysInv

(* A repo's push says what it describes, and leaves what the others said.   *)
LEMMA SaysRepoPush ==
    ASSUME NothingShared, IInv, SaysInv, NEW b \in Branch, NEW d \in Descriptions, RepoPush(b, d)
    PROVE  SaysInv'
<1> DEFINE view == HeadOf(log, forkAt, b)
           events == PushEvents(view, d)
           lay == Layer(b, "def", events, {})
           w == FoldLayer(view, events, Len(log) + 1)
<1>0. View(b) = view
    BY ReadsIs
<1>1. /\ Free /\ Exists(b) /\ ~Unpushable(view, d) /\ w.ok
      /\ log' = (IF events = {} THEN log ELSE Append(log, lay))
      /\ forkAt' = forkAt
      /\ accepted' = [accepted EXCEPT ![b][d.repo] = d.id]
      /\ left' = [left EXCEPT !.pushes = left.pushes - 1]
  <2> HIDE DEF view
  <2> QED BY <1>0 DEF RepoPush
<1>2. LogOK(log, forkAt) /\ left \in Budget /\ Len(log) + 1 \in Nat \ {0}
    BY DEF IInv, LogOK
<1>3. events \subseteq DefEvent /\ IsFiniteSet(events) /\ \A e \in events : e.kind # "delete"
    BY <1>1, PushTyped
<1>4. forkAt \in Nat /\ (b = "child" => 0 < forkAt)
    BY <1>1, <1>2 DEF LogOK, Exists
<1>5. view \in ViewType /\ OwnersDeclared(view)
    BY <1>2, HeadOwners DEF SaysInv
<1>6. \A e \in events : e.kind = "declare" => e \in Declared
  <2> SUFFICES ASSUME NEW e \in events, e.kind = "declare" PROVE e \in Declared
      OBVIOUS
  <2>1. PICK s \in d.fields : \/ e = Mutate(s.field, s.type, d.repo, s.up, s.down)
                              \/ e = Declare(s.field, s.type, d.repo, s.owner)
        BY PushIs
  <2>2. e = Declare(s.field, s.type, d.repo, s.owner)
        BY <2>1 DEF Mutate
  <2> QED BY <2>2 DEF Declared
<1>7. Says(w, d)
  <2> HIDE DEF view
  <2> QED BY <1>1, <1>2, <1>5, PushSays
<1>8. ASSUME NEW c \in Descriptions, c.repo # d.repo, Says(view, c) PROVE Says(w, c)
  <2> HIDE DEF view
  <2> QED BY <1>1, <1>2, <1>5, <1>8, OthersKeep
<1> HIDE DEF events
<1>9. Lands(log, forkAt, lay) /\ lay.on = b /\ lay.events = events
    BY <1>3, <1>4 DEF Lands, Layer, LayerRec
<1> HIDE DEF lay
<1>10. \A o \in Branch : HeadOf(log', forkAt', o) = IF o = b THEN w ELSE HeadOf(log, forkAt, o)
  <2>1. CASE events = {}
        BY <1>1, <2>1, FoldFew
  <2>2. CASE events # {}
        BY <1>1, <1>2, <1>9, <2>2, HeadAppends
  <2> QED BY <2>1, <2>2
<1>11. DeclaresIn(log')
  <2>1. DeclaresIn(Append(log, lay))
        BY <1>2, <1>6, <1>9, DeclaresAppends DEF SaysInv
  <2> QED BY <1>1, <2>1 DEF SaysInv
<1>12. PICK l \in Scenarios : left.vocabulary = l.vocabulary
    BY DEF SaysInv
<1>13. left'.vocabulary = l.vocabulary
    BY <1>1, <1>2, <1>12, VocabularyStays
<1>14. /\ accepted \in [Branch -> [Repo -> Nat]] /\ d.repo \in Repo /\ d.id \in Nat
       /\ forkAt = 0 => \A r \in Repo : accepted["child"][r] = Nobody
    BY DescriptionsAre DEF SaysInv, AcceptedOK
<1>15. /\ accepted' \in [Branch -> [Repo -> Nat]]
       /\ \A o \in Branch, r \in Repo :
             accepted'[o][r] = IF o = b /\ r = d.repo THEN d.id ELSE accepted[o][r]
  <2>1. accepted[b] \in [Repo -> Nat]
        BY <1>14
  <2>2. [accepted[b] EXCEPT ![d.repo] = d.id] \in [Repo -> Nat]
        BY <1>14, <2>1
  <2>3. accepted' = [accepted EXCEPT ![b] = [accepted[b] EXCEPT ![d.repo] = d.id]]
        BY <1>1
  <2> QED BY <1>14, <2>1, <2>2, <2>3
<1>16. AcceptedOK(forkAt', accepted')
    BY <1>1, <1>4, <1>14, <1>15 DEF AcceptedOK, Branch
<1>17. Stands(log', forkAt', accepted')
  <2> SUFFICES ASSUME NEW o \in Branch, NEW c \in Descriptions, accepted'[o][c.repo] = c.id
               PROVE  Says(HeadOf(log', forkAt', o), c)
      BY DEF Stands
  <2>0. c.repo \in Repo
        BY NobodyIsNone
  <2>1. CASE o = b /\ c.repo = d.repo
    <3>1. c.id = d.id
          BY <1>15, <2>0, <2>1
    <3>2. c = d
          BY <3>1, DefinitionsAssumption DEF DefinitionsAssumption
    <3> HIDE DEF w
    <3> QED BY <1>7, <1>10, <2>1, <3>2
  <2>2. CASE ~(o = b /\ c.repo = d.repo)
    <3>1. accepted[o][c.repo] = c.id
          BY <1>15, <2>0, <2>2
    <3>2. Says(HeadOf(log, forkAt, o), c)
          BY <3>1 DEF SaysInv, Stands
    <3>3. o = b => Says(w, c)
          BY <1>8, <2>2, <3>2
    <3> HIDE DEF w
    <3> QED BY <1>10, <3>2, <3>3
  <2> QED BY <2>1, <2>2
<1> QED BY <1>11, <1>13, <1>16, <1>17 DEF SaysInv

(* A client's layer says nothing of definitions.                            *)
LEMMA SaysWrite ==
    ASSUME IInv, SaysInv, NEW b \in Branch, NEW f \in Field, NEW c \in DOMAIN log, Write(b, f, c)
    PROVE  SaysInv'
<1> DEFINE lay == Layer(b, "source", {}, WrittenBy(f, ViewAt(b, c), Len(log) + 1))
<1>1. /\ log' = Append(log, lay) /\ forkAt' = forkAt /\ accepted' = accepted
      /\ left' = [left EXCEPT !.writes = left.writes - 1]
    BY DEF Write
<1>2. LogOK(log, forkAt) /\ left \in Budget
    BY DEF IInv
<1>3. LogOK(log', forkAt')
  <2>1. IInv'
        BY InvWrite
  <2> QED BY <2>1 DEF IInv
<1>4. lay.events = {}
    BY DEF Layer
<1> HIDE DEF lay
<1>5. Stands(log', forkAt', accepted') /\ DeclaresIn(log')
    BY <1>1, <1>2, <1>3, <1>4, QuietStands DEF SaysInv
<1>6. left'.vocabulary = left.vocabulary
    BY <1>1, <1>2, VocabularyStays
<1> QED BY <1>1, <1>5, <1>6 DEF SaysInv

(* Nor does a round's.                                                      *)
LEMMA SaysEndRound ==
    ASSUME IInv, SaysInv, EndRound
    PROVE  SaysInv'
<1> DEFINE lay == Layer(round.on, "derived", {}, round.out)
<1>1. /\ log' = log \/ log' = Append(log, lay)
      /\ forkAt' = forkAt /\ accepted' = accepted /\ left' = left
    BY DEF EndRound
<1>2. LogOK(log, forkAt)
    BY DEF IInv
<1>3. LogOK(log', forkAt')
  <2>1. IInv'
        BY InvEndRound
  <2> QED BY <2>1 DEF IInv
<1>4. lay.events = {}
    BY DEF Layer
<1> HIDE DEF lay
<1>5. Stands(log', forkAt', accepted') /\ DeclaresIn(log')
  <2>1. CASE log' = log
        BY <1>1, <2>1 DEF SaysInv
  <2>2. CASE log' = Append(log, lay)
        BY <1>1, <1>2, <1>3, <1>4, <2>2, QuietStands DEF SaysInv
  <2> QED BY <1>1, <2>1, <2>2
<1> QED BY <1>1, <1>5 DEF SaysInv

(* A fork at the parent's head says what the parent does; another says      *)
(* nothing yet.                                                             *)
LEMMA SaysFork ==
    ASSUME IInv, SaysInv, NEW at \in DOMAIN log, Fork(at)
    PROVE  SaysInv'
<1>1. /\ forkAt = 0 /\ log' = log /\ forkAt' = at
      /\ accepted' = [accepted EXCEPT !["child"] = IF at = Len(log) THEN accepted["main"]
                                                   ELSE accepted["child"]]
      /\ left' = [left EXCEPT !.forks = left.forks - 1]
    BY DEF Fork
<1>2. LogOK(log, 0) /\ left \in Budget /\ Len(log) \in Nat /\ DOMAIN log = 1..Len(log)
    BY <1>1 DEF IInv, LogOK
<1>3. left'.vocabulary = left.vocabulary
    BY <1>1, <1>2, VocabularyStays
<1>4. /\ accepted \in [Branch -> [Repo -> Nat]]
      /\ \A r \in Repo : accepted["child"][r] = Nobody
    BY <1>1 DEF SaysInv, AcceptedOK
<1>5. /\ accepted' \in [Branch -> [Repo -> Nat]]
      /\ accepted'["main"] = accepted["main"]
      /\ accepted'["child"] = IF at = Len(log) THEN accepted["main"] ELSE accepted["child"]
    BY <1>1, <1>4 DEF Branch
<1>6. PathOf(log, at, "main") = PathOf(log, 0, "main")
    BY DEF PathOf
<1>7. at = Len(log) => PathOf(log, at, "child") = PathOf(log, 0, "main")
  <2>1. \A i \in 1..Len(log) : log[i].on # "child" /\ i <= Len(log)
        BY <1>2 DEF LogOK, LayerOK
  <2> QED BY <1>2, <2>1 DEF PathOf
<1>8. Stands(log, at, accepted')
  <2> SUFFICES ASSUME NEW o \in Branch, NEW d \in Descriptions, accepted'[o][d.repo] = d.id
               PROVE  Says(HeadOf(log, at, o), d)
      BY DEF Stands
  <2>1. \A e \in Descriptions : accepted["main"][e.repo] = e.id => Says(HeadOf(log, 0, "main"), e)
        BY <1>1 DEF SaysInv, Stands, Branch
  <2>2. CASE o = "main"
    <3>1. HeadOf(log, at, "main") = HeadOf(log, 0, "main")
          BY <1>6 DEF HeadOf
    <3> QED BY <1>5, <2>1, <2>2, <3>1
  <2>3. CASE o = "child" /\ at = Len(log)
    <3>1. HeadOf(log, at, "child") = HeadOf(log, 0, "main")
          BY <1>7, <2>3 DEF HeadOf
    <3> QED BY <1>5, <2>1, <2>3, <3>1
  <2>4. CASE o = "child" /\ at # Len(log)
        BY <1>4, <1>5, <2>4, NobodyIsNone
  <2> QED BY <2>2, <2>3, <2>4 DEF Branch
<1>9. at # 0
    BY <1>2
<1> QED BY <1>1, <1>3, <1>5, <1>8, <1>9 DEF SaysInv, AcceptedOK

(* A merge unsays the parent, and leaves the child.                         *)
LEMMA SaysMerge ==
    ASSUME IInv, SaysInv, NEW mode \in left.modes, NEW landed, Merge(mode, landed)
    PROVE  SaysInv'
<1> DEFINE M == After(log, Replayable(mode), landed)
<1>1. /\ forkAt' = forkAt /\ Exists("child")
      /\ accepted' = [accepted EXCEPT !["main"] = [r \in Repo |-> Nobody]]
      /\ left' = [left EXCEPT !.merges = left.merges - 1,
                              !.crashes = IF landed < Len(Replayable(mode)) THEN left.crashes - 1
                                          ELSE left.crashes]
    BY DEF Merge
<1>2. /\ log' = M
      /\ \A i \in 1..Len(M) : \E m \in 1..Len(log) : M[i].events = log[m].events
      /\ HeadOf(M, forkAt, "child") = HeadOf(log, forkAt, "child")
  <2>1. Repeated(log, forkAt, M) /\ log' = M
        BY MergeLands, CarryMany
  <2> QED BY <2>1 DEF Repeated
<1> HIDE DEF M
<1>3. left \in Budget /\ forkAt # 0
    BY <1>1 DEF IInv, Exists
<1>4. left'.vocabulary = left.vocabulary
    BY <1>1, <1>3, VocabularyStays
<1>5. DeclaresIn(log')
    BY <1>2 DEF SaysInv, DeclaresIn
<1>6. accepted \in [Branch -> [Repo -> Nat]]
    BY DEF SaysInv, AcceptedOK
<1>7. /\ accepted' \in [Branch -> [Repo -> Nat]]
      /\ accepted'["child"] = accepted["child"]
      /\ \A r \in Repo : accepted'["main"][r] = Nobody
    BY <1>1, <1>6 DEF Branch, Nobody
<1>8. Stands(log', forkAt', accepted')
  <2> SUFFICES ASSUME NEW o \in Branch, NEW d \in Descriptions, accepted'[o][d.repo] = d.id
               PROVE  Says(HeadOf(log', forkAt', o), d)
      BY DEF Stands
  <2>1. o = "child"
        BY <1>7, NobodyIsNone DEF Branch
  <2>2. accepted["child"][d.repo] = d.id
        BY <1>7, <2>1
  <2>3. Says(HeadOf(log, forkAt, "child"), d)
        BY <2>2 DEF SaysInv, Stands, Branch
  <2> QED BY <1>1, <1>2, <2>1, <2>3
<1> QED BY <1>1, <1>3, <1>4, <1>5, <1>7, <1>8 DEF SaysInv, AcceptedOK

(* A step keeps what is said.                                               *)
LEMMA SaysStep ==
    ASSUME NothingShared, IInv, SaysInv, [Next]_vars
    PROVE  SaysInv'
<1>1. CASE UNCHANGED <<log, forkAt, accepted, left>>
    BY <1>1 DEF SaysInv
<1>2. ASSUME NEW b \in Branch, NEW e \in left.vocabulary, DefPush(b, e) PROVE SaysInv'
    BY <1>2, SaysDefPush
<1>3. ASSUME NEW b \in Branch, NEW d \in Descriptions, RepoPush(b, d) PROVE SaysInv'
    BY <1>3, SaysRepoPush
<1>4. ASSUME NEW at \in DOMAIN log, Fork(at) PROVE SaysInv'
    BY <1>4, SaysFork
<1>5. ASSUME NEW mode \in left.modes, NEW landed, Merge(mode, landed) PROVE SaysInv'
    BY <1>5, SaysMerge
<1>6. ASSUME NEW b \in Branch, NEW f \in Field, NEW c \in DOMAIN log, Write(b, f, c) PROVE SaysInv'
    BY <1>6, SaysWrite
<1>7. CASE EndRound
    BY <1>7, SaysEndRound
<1>8. (\E b \in Branch : BeginRound(b)) \/ (\E role \in round.pending : Consume(role))
      \/ (\E run \in round.reading : Produce(run)) \/ NextWave \/ UNCHANGED vars
      => UNCHANGED <<log, forkAt, accepted, left>>
    BY DEF BeginRound, Consume, Produce, NextWave, vars
<1> QED BY <1>1, <1>2, <1>3, <1>4, <1>5, <1>6, <1>7, <1>8 DEF Next

(* What a view says, a push need not.                                       *)
LEMMA SaysIsSilent ==
    ASSUME NothingShared, IInv, SaysInv
    PROVE  RepeatIsSilent
<1> SUFFICES ASSUME NEW b \in Branch, NEW d \in Descriptions, accepted[b][d.repo] = d.id
             PROVE  PushEvents(View(b), d) = {}
    BY DEF RepeatIsSilent
<1>1. Says(View(b), d)
    BY ReadsIs DEF SaysInv, Stands
<1> DEFINE view == View(b)
<1> HIDE DEF view
<1>2. \A s \in d.fields : ~Moved(view, s) /\ Repeats(view, d, s)
    BY <1>1 DEF Says, Shape, Moved, Repeats, view
<1>3. ASSUME NEW e \in PushEvents(view, d) PROVE FALSE
  <2>1. CASE e.kind = "producer"
        BY <1>1, <2>1, PushIs DEF Says, view
  <2>2. CASE e.kind # "producer"
        BY <1>2, <2>2, PushIs
  <2> QED BY <2>1, <2>2
<1> QED BY <1>3 DEF view

\* A repo that pushes what it last pushed emits nothing, whatever other repos have pushed since,
\* as long as descriptions agree on who owns what (push.rs repo_push, "idempotent now").
THEOREM SpecRepeatIsSilent == ASSUME NothingShared PROVE Spec => []RepeatIsSilent
<1>1. Init => SaysInv
    BY SaysInit
<1>2. IInv /\ SaysInv /\ [Next]_vars => SaysInv'
    BY SaysStep
<1>3. IInv /\ SaysInv => RepeatIsSilent
    BY SaysIsSilent
<1> QED BY <1>1, <1>2, <1>3, Inductive, PTL DEF Spec
==============================================================================
