--------------------------- MODULE LayerLogProofs ---------------------------
(***************************************************************************)
(* Theorems about LayerLog for every set of branches and cells and every   *)
(* bound on layer ids.  All of them rest on LogInv, the inductive          *)
(* invariant: alone, HeadIsHighest and VisibleIsListed are not inductive,  *)
(* because they do not say where the owner of a layer stands.              *)
(*                                                                         *)
(* A step of a handle touches one layer.  HandleMoves says, value by       *)
(* value, how; the invariants are then argued from those values.           *)
(***************************************************************************)
EXTENDS LayerLog, WellFoundedInduction, TLAPS

---------------------------------------------------------------------------
(* Induction over the numbers, for a predicate given as a set.              *)

(* A set of numbers has a least one. *)
LEMMA LeastNumber ==
    ASSUME NEW S, S \subseteq Nat, S # {}
    PROVE  \E m \in S : \A k \in S : m <= k
<1> DEFINE Below == {pair \in Nat \X Nat : pair[1] < pair[2]}
<1>1. IsWellFoundedOn(Below, Nat)
    BY NatLessThanWellFounded, Zenon DEF OpToRel
<1>2. \A k, m \in Nat : k < m => <<k, m>> \in Below
    OBVIOUS
<1> HIDE DEF Below
<1>3. PICK m \in S : \A k \in S : ~ (<<k, m>> \in Below)
    BY <1>1, WFMin, Zenon
<1>4. \A k \in S : ~ (k < m)
    BY <1>2, <1>3
<1>5. \A k \in S : m <= k
    BY <1>4
<1> QED BY <1>5

---------------------------------------------------------------------------
USE DEF LayerId, Author, LayerState, Stage

(* Every variable keeps its type through one step of the log. *)
LEMMA TypeStep == TypeOK /\ [Next]_vars => TypeOK'
<1> SUFFICES ASSUME TypeOK, [Next]_vars PROVE TypeOK'
    OBVIOUS
<1> USE LogAssumption DEF LogAssumption
<1>t. /\ up \in BOOLEAN /\ next \in 0..(MaxLayer + 1) /\ (up => next > 0)
      /\ lstate \in [LayerId -> LayerState] /\ branchOf \in [LayerId -> Branch]
      /\ author \in [LayerId -> Author] /\ guards \in [LayerId -> SUBSET Guard]
      /\ head \in [Branch -> 0..MaxLayer] /\ touched \subseteq Branch \X Cell \X LayerId
      /\ highest \in [Branch -> 0..MaxLayer] /\ stage \in [LayerId -> Stage]
      /\ rounds \subseteq Branch /\ origin \in [Branch -> 0..MaxLayer]
      /\ row \in [LayerId -> {"none", "open", "sealed", "committed"}]
      /\ meta \in [LayerId -> BOOLEAN] /\ writes \in [LayerId -> SUBSET Cell]
    BY DEF TypeOK
<1>r. ASSUME NEW b \in Branch, NEW a \in Author, NEW to \in Stage, Reserve(b, a, to)
      PROVE  /\ up /\ next \in LayerId /\ next' \in 0..(MaxLayer + 1) /\ next' > 0
             /\ stage' \in [LayerId -> Stage] /\ branchOf' \in [LayerId -> Branch]
             /\ author' \in [LayerId -> Author] /\ guards' \in [LayerId -> SUBSET Guard]
  <2>1. up /\ next \in LayerId /\ next' = next + 1
        BY <1>r, <1>t DEF Reserve
  <2>2. next' \in 0..(MaxLayer + 1) /\ next' > 0
        BY <2>1
  <2>3. stage' \in [LayerId -> Stage]
        BY <1>r, <1>t DEF Reserve
  <2>4. branchOf' \in [LayerId -> Branch]
        BY <1>r, <1>t DEF Reserve
  <2>5. author' \in [LayerId -> Author]
        BY <1>r, <1>t DEF Reserve
  <2>6. guards' \in [LayerId -> SUBSET Guard]
        BY <1>r, <1>t DEF Reserve
  <2> QED BY <2>1, <2>2, <2>3, <2>4, <2>5, <2>6
<1>m. ASSUME NEW heads \in [Branch -> 0..MaxLayer], NEW id \in LayerId
      PROVE  Raise(heads, id) \in [Branch -> 0..MaxLayer]
    BY <1>t DEF Raise
<1>1. ASSUME NEW b \in Branch, NEW a \in Author, Open(b, a) PROVE TypeOK'
  <2>1. Reserve(b, a, "inserted")
        BY <1>1 DEF Open
  <2>2. lstate' \in [LayerId -> LayerState]
        BY <1>1, <1>t DEF Open
  <2>3. UNCHANGED <<up, head, touched, highest, rounds, durable, writes>>
        BY <1>1 DEF Open
  <2>4. /\ up' /\ next' \in 0..(MaxLayer + 1) /\ next' > 0
        /\ stage' \in [LayerId -> Stage] /\ branchOf' \in [LayerId -> Branch]
        /\ author' \in [LayerId -> Author] /\ guards' \in [LayerId -> SUBSET Guard]
        BY <1>r, <2>1, <2>3
  <2> QED BY <1>t, <2>2, <2>3, <2>4 DEF TypeOK, durable
<1>2. ASSUME NEW b \in Branch, NEW a \in Author, OpenReserve(b, a) PROVE TypeOK'
  <2>1. Reserve(b, a, "reserved")
        BY <1>2 DEF OpenReserve
  <2>2. UNCHANGED <<up, lstate, head, touched, highest, rounds, durable, writes>>
        BY <1>2 DEF OpenReserve
  <2> QED BY <1>t, <1>r, <2>1, <2>2 DEF TypeOK, durable
<1>3. ASSUME NEW id \in LayerId, HandleStep(id) PROVE TypeOK'
  <2> USE <1>t DEF TypeOK, memory, durable
  <2>1. CASE OpenInsert(id)   BY <2>1 DEF OpenInsert
  <2>2. CASE StoreOpen(id)
    <3>1. /\ row' = row \/ row' = [row EXCEPT ![id] = "open"]
          /\ \E to \in Stage : stage' = [stage EXCEPT ![id] = to]
          /\ writes' = writes \/ writes' = [writes EXCEPT ![id] = {}]
          /\ UNCHANGED <<up, next, lstate, branchOf, author, guards, head, touched,
                         highest, rounds, origin, meta>>
          BY <2>2, ZenonT(60) DEF StoreOpen
    <3>2. row' \in [LayerId -> {"none", "open", "sealed", "committed"}]
          BY <3>1
    <3>3. stage' \in [LayerId -> Stage]
          BY <3>1
    <3>4. writes' \in [LayerId -> SUBSET Cell]
      <4>1. CASE writes' = writes
            BY <4>1
      <4>2. CASE writes' = [writes EXCEPT ![id] = {}]
            BY <4>2
      <4> QED BY <3>1, <4>1, <4>2
    <3> QED BY <3>1, <3>2, <3>3, <3>4
  <2>3. ASSUME NEW c \in Cell, Put(id, c) PROVE TypeOK'
        BY <2>3 DEF Put
  <2>4. ASSUME NEW g \in Guard, AddGuard(id, g) PROVE TypeOK'
        BY <2>4 DEF AddGuard
  <2>5. CASE Abort(id)        BY <2>5 DEF Abort
  <2>6. CASE Abandon(id)      BY <2>6 DEF Abandon
  <2>7. CASE Seal(id)         BY <2>7 DEF Seal
  <2>8. CASE Validate(id)
    <3>1. CASE GuardsHold(id)
          BY <2>8, <3>1 DEF Validate
    <3>2. CASE ~GuardsHold(id)
      <4>1. /\ row' = [row EXCEPT ![id] = "none"] /\ lstate' = [lstate EXCEPT ![id] = "aborted"]
            /\ stage' = [stage EXCEPT ![id] = "idle"] /\ guards' = [guards EXCEPT ![id] = {}]
            /\ writes' = [writes EXCEPT ![id] = {}]
            /\ UNCHANGED <<up, next, branchOf, author, head, touched, highest,
                           rounds, origin, meta>>
            BY <2>8, <3>2 DEF Validate
      <4>2. stage' \in [LayerId -> Stage] /\ lstate' \in [LayerId -> LayerState]
            BY <4>1
      <4>3. row' \in [LayerId -> {"none", "open", "sealed", "committed"}]
            BY <4>1
      <4>4. guards' \in [LayerId -> SUBSET Guard] /\ writes' \in [LayerId -> SUBSET Cell]
            BY <4>1
      <4> QED BY <4>1, <4>2, <4>3, <4>4
    <3> QED BY <3>1, <3>2
  <2>9. CASE StoreSeal(id)    BY <2>9 DEF StoreSeal
  <2>10. CASE StoreMeta(id)   BY <2>10 DEF StoreMeta
  <2>11. CASE StoreCommit(id) BY <2>11 DEF StoreCommit
  <2>12. CASE Publish(id)
    <3>1. head' \in [Branch -> 0..MaxLayer]
          BY <1>m, <2>12 DEF Publish
    <3>2. lstate' \in [LayerId -> LayerState] /\ stage' \in [LayerId -> Stage]
          BY <2>12 DEF Publish
    <3> QED BY <2>12, <3>1, <3>2 DEF Publish
  <2>13. CASE Project(id)
    <3>1. touched' \subseteq Branch \X Cell \X LayerId
          BY <2>13, SMTT(60) DEF Project, Touches
    <3>2. highest' \in [Branch -> 0..MaxLayer]
          BY <1>m, <2>13 DEF Project
    <3>3. stage' \in [LayerId -> Stage]
          BY <2>13 DEF Project
    <3> QED BY <2>13, <3>1, <3>2, <3>3 DEF Project
  <2>14. CASE ProjectFails(id) BY <2>14 DEF ProjectFails
  <2> QED
      BY <1>3, <2>1, <2>2, <2>3, <2>4, <2>5, <2>6, <2>7, <2>8, <2>9, <2>10,
         <2>11, <2>12, <2>13, <2>14 DEF HandleStep
<1>4. ASSUME NEW b \in Branch, NEW at \in LayerId, Fork(b, at) PROVE TypeOK'
  <2>1. origin' = [origin EXCEPT ![b] = at]
        BY <1>4 DEF Fork
  <2>2. at \in 0..MaxLayer
        OBVIOUS
  <2>3. origin' \in [Branch -> 0..MaxLayer]
        BY <1>t, <2>1, <2>2
  <2>4. UNCHANGED <<up, memory, branchOf, author, guards, row, meta, writes>>
        BY <1>4 DEF Fork
  <2> QED BY <1>t, <2>3, <2>4 DEF TypeOK, memory
<1>5. ASSUME NEW b \in Branch, NEW r \in Branch, SpanFork(b, r) PROVE TypeOK'
  <2>1. PICK at \in LayerId : origin' = [origin EXCEPT ![r] = at]
        BY <1>5 DEF SpanFork
  <2>2. at \in 0..MaxLayer
        OBVIOUS
  <2>3. origin' \in [Branch -> 0..MaxLayer]
        BY <1>t, <2>1, <2>2
  <2>4. rounds' \subseteq Branch
        BY <1>5, <1>t DEF SpanFork
  <2>5. UNCHANGED <<up, next, lstate, branchOf, author, guards, head, touched,
                    highest, stage, row, meta, writes>>
        BY <1>5 DEF SpanFork
  <2> QED BY <1>t, <2>3, <2>4, <2>5 DEF TypeOK
<1>6. CASE Crash
  <2>1. /\ head' \in [Branch -> 0..MaxLayer] /\ highest' \in [Branch -> 0..MaxLayer]
        /\ lstate' \in [LayerId -> LayerState] /\ stage' \in [LayerId -> Stage]
        /\ guards' \in [LayerId -> SUBSET Guard]
        BY <1>6 DEF Crash
  <2>2. next' \in 0..(MaxLayer + 1) /\ up' = FALSE /\ touched' = {} /\ rounds' = {}
        BY <1>6 DEF Crash
  <2>3. UNCHANGED <<branchOf, author, durable, writes>>
        BY <1>6 DEF Crash
  <2> QED BY <1>t, <2>1, <2>2, <2>3 DEF TypeOK, durable
<1>7. CASE Reopen
  <2>1. up' = TRUE /\ next' \in 0..(MaxLayer + 1) /\ next' > 0
        BY <1>7 DEF Reopen, ResumeAfter
  <2>2. lstate' \in [LayerId -> LayerState]
        BY <1>7 DEF Reopen
  <2>3. touched' \subseteq Branch \X Cell \X LayerId
        BY <1>7, <1>t DEF Reopen, Touches, Listed
  <2>4. head' \in [Branch -> 0..MaxLayer] /\ highest' \in [Branch -> 0..MaxLayer]
        BY <1>7 DEF Reopen
  <2>5. UNCHANGED <<branchOf, author, guards, stage, rounds, durable, writes>>
        BY <1>7 DEF Reopen
  <2> QED BY <1>t, <2>1, <2>2, <2>3, <2>4, <2>5 DEF TypeOK, durable
<1>8. CASE UNCHANGED vars
    BY <1>8, <1>t DEF vars, memory, durable, TypeOK
<1> QED
    BY <1>1, <1>2, <1>3, <1>4, <1>5, <1>6, <1>7, <1>8 DEF Next

(* Type correctness of the log, for every value of the constants. *)
THEOREM TypeCorrect == Spec => []TypeOK
<1>1. Init => TypeOK
    BY LogAssumption DEF Init, TypeOK, LogAssumption
<1> QED
    BY <1>1, TypeStep, PTL DEF Spec

(* A step of a handle leaves every other layer as it is. *)
LEMMA OthersStay ==
    ASSUME TypeOK, NEW id \in LayerId, HandleStep(id)
    PROVE  /\ up /\ UNCHANGED <<up, next, branchOf, author, rounds, origin>>
           /\ \A l \in LayerId \ {id} :
                 /\ stage'[l] = stage[l] /\ lstate'[l] = lstate[l]
                 /\ row'[l] = row[l] /\ meta'[l] = meta[l] /\ writes'[l] = writes[l]
<1> DEFINE Others ==
        /\ up /\ UNCHANGED <<up, next, branchOf, author, rounds, origin>>
        /\ \A l \in LayerId \ {id} :
              /\ stage'[l] = stage[l] /\ lstate'[l] = lstate[l]
              /\ row'[l] = row[l] /\ meta'[l] = meta[l] /\ writes'[l] = writes[l]
<1> USE DEF TypeOK, memory, durable
<1>1. CASE OpenInsert(id)
    BY <1>1 DEF OpenInsert
<1>2. CASE StoreOpen(id)
  <2>1. CASE row[id] = "none"
    <3>1. /\ row' = [row EXCEPT ![id] = "open"] /\ stage' = [stage EXCEPT ![id] = "writing"]
          /\ writes' = [writes EXCEPT ![id] = {}] /\ up
          /\ UNCHANGED <<up, next, lstate, branchOf, author, rounds, origin, meta>>
          BY <1>2, <2>1 DEF StoreOpen
    <3> QED BY <3>1
  <2>2. CASE row[id] # "none"
        BY <1>2, <2>2 DEF StoreOpen
  <2> QED BY <2>1, <2>2
<1>3. ASSUME NEW c \in Cell, Put(id, c) PROVE Others
    BY <1>3 DEF Put
<1>4. ASSUME NEW g \in Guard, AddGuard(id, g) PROVE Others
    BY <1>4 DEF AddGuard
<1>5. CASE Abort(id)
    BY <1>5 DEF Abort
<1>6. CASE Abandon(id)
    BY <1>6 DEF Abandon
<1>7. CASE Seal(id)
    BY <1>7 DEF Seal
<1>8. CASE Validate(id)
  <2>1. up /\ UNCHANGED <<up, next, branchOf, author, rounds, origin, meta>>
        BY <1>8 DEF Validate
  <2>2. CASE GuardsHold(id)
        BY <1>8, <2>1, <2>2 DEF Validate
  <2>3. CASE ~GuardsHold(id)
    <3>1. /\ row' = [row EXCEPT ![id] = "none"] /\ lstate' = [lstate EXCEPT ![id] = "aborted"]
          /\ stage' = [stage EXCEPT ![id] = "idle"] /\ writes' = [writes EXCEPT ![id] = {}]
          BY <1>8, <2>3 DEF Validate
    <3> QED BY <2>1, <3>1
  <2> QED BY <2>2, <2>3
<1>9. CASE StoreSeal(id)
    BY <1>9 DEF StoreSeal
<1>10. CASE StoreMeta(id)
    BY <1>10 DEF StoreMeta
<1>11. CASE StoreCommit(id)
    BY <1>11 DEF StoreCommit
<1>12. CASE Publish(id)
    BY <1>12 DEF Publish
<1>13. CASE Project(id)
    BY <1>13 DEF Project
<1>14. CASE ProjectFails(id)
    BY <1>14 DEF ProjectFails
<1> QED
    BY <1>1, <1>2, <1>3, <1>4, <1>5, <1>6, <1>7,
       <1>8, <1>9, <1>10, <1>11, <1>12, <1>13, <1>14 DEF HandleStep

(* What a step of a handle does to its own layer: where it stands, what    *)
(* the table says of it, whether readers see it.                           *)
Moved(id) ==
    \/ /\ stage[id] = "reserved" /\ stage'[id] = "inserted" /\ lstate'[id] = "open"
       /\ row'[id] = row[id] /\ meta'[id] = meta[id]
    \/ /\ stage[id] # "idle" /\ lstate'[id] = lstate[id] /\ meta'[id] = meta[id]
       /\ row'[id] = "committed" <=> row[id] = "committed"
       /\ \/ stage'[id] = stage[id]
          \/ stage[id] = "inserted" /\ stage'[id] = "writing"
          \/ stage[id] = "sealing" /\ stage'[id] = "valid"
          \/ stage[id] = "valid" /\ stage'[id] = "stored"
          \/ stage[id] \notin {"visible", "unfolded"} /\ stage'[id] = "idle"
          \/ stage[id] = "visible" /\ author[id] = "derived" /\ stage'[id] = "idle"
          \/ stage[id] = "published" /\ stage'[id] = "unfolded"
    \/ /\ stage[id] \in {"writing", "sealing"} /\ stage'[id] = "idle"
       /\ lstate'[id] = "aborted" /\ row'[id] = "none" /\ meta'[id] = meta[id]
    \/ /\ stage[id] = "writing" /\ stage'[id] = "sealing" /\ lstate'[id] = "sealed"
       /\ row'[id] = row[id] /\ meta'[id] = meta[id]
    \/ /\ stage[id] = "stored" /\ stage'[id] = "recorded" /\ lstate'[id] = lstate[id]
       /\ row'[id] = row[id] /\ meta'[id]
    \/ /\ stage[id] = "recorded" /\ stage'[id] = "visible" /\ lstate'[id] = lstate[id]
       /\ row'[id] = "committed" /\ meta'[id] = meta[id]

(* Publishing raises the head; every other step of a handle leaves it. *)
LEMMA HandleMoves ==
    ASSUME TypeOK, NEW id \in LayerId, HandleStep(id)
    PROVE  \/ head' = head /\ Moved(id)
           \/ /\ stage[id] = "visible" /\ stage'[id] = "published"
              /\ lstate'[id] = "committed" /\ row'[id] = row[id] /\ meta'[id] = meta[id]
              /\ head' = Raise(head, id)
<1> DEFINE Moves == head' = head /\ Moved(id)
<1> USE DEF TypeOK, memory, durable, Moved
<1>1. CASE OpenInsert(id)
    BY <1>1 DEF OpenInsert
<1>2. CASE StoreOpen(id)
  <2>1. CASE row[id] = "none"
    <3>1. /\ row' = [row EXCEPT ![id] = "open"] /\ stage' = [stage EXCEPT ![id] = "writing"]
          /\ stage[id] = "inserted" /\ UNCHANGED <<lstate, meta, head>>
          BY <1>2, <2>1 DEF StoreOpen
    <3> QED BY <2>1, <3>1
  <2>2. CASE row[id] # "none"
        BY <1>2, <2>2 DEF StoreOpen
  <2> QED BY <2>1, <2>2
<1>3. ASSUME NEW c \in Cell, Put(id, c) PROVE Moves
    BY <1>3 DEF Put
<1>4. ASSUME NEW g \in Guard, AddGuard(id, g) PROVE Moves
    BY <1>4 DEF AddGuard
<1>5. CASE Abort(id)
    BY <1>5 DEF Abort
<1>6. CASE Abandon(id)
    BY <1>6 DEF Abandon
<1>7. CASE Seal(id)
    BY <1>7 DEF Seal
<1>8. CASE Validate(id)
  <2>1. CASE GuardsHold(id)
        BY <1>8, <2>1 DEF Validate
  <2>2. CASE ~GuardsHold(id)
        BY <1>8, <2>2, ZenonT(60) DEF Validate
  <2> QED BY <2>1, <2>2
<1>9. CASE StoreSeal(id)
    BY <1>9 DEF StoreSeal
<1>10. CASE StoreMeta(id)
    BY <1>10 DEF StoreMeta
<1>11. CASE StoreCommit(id)
    BY <1>11 DEF StoreCommit
<1>12. CASE Publish(id)
    BY <1>12 DEF Publish
<1>13. CASE Project(id)
    BY <1>13 DEF Project
<1>14. CASE ProjectFails(id)
    BY <1>14 DEF ProjectFails
<1> QED
    BY <1>1, <1>2, <1>3, <1>4, <1>5, <1>6, <1>7,
       <1>8, <1>9, <1>10, <1>11, <1>12, <1>13, <1>14 DEF HandleStep

(* The invariant without the types. *)
Rest == /\ StagesAgree /\ SequenceAhead /\ VisibleIsListed
        /\ HeadIsHighest /\ ("source" \notin Preempted => RoundsSettled)

(* Handles preserve the invariant: each of the five parts is argued from   *)
(* the values HandleMoves gives for the handle's layer.                    *)
LEMMA HandleKeeps ==
    ASSUME TypeOK, TypeOK', Rest, NEW id \in LayerId, HandleStep(id)
    PROVE  Rest'
<1>o. /\ up /\ up' /\ next' = next /\ branchOf' = branchOf /\ author' = author
      /\ rounds' = rounds /\ origin' = origin
      /\ \A l \in LayerId \ {id} :
            /\ stage'[l] = stage[l] /\ lstate'[l] = lstate[l]
            /\ row'[l] = row[l] /\ meta'[l] = meta[l]
    BY OthersStay
<1>m. \/ head' = head /\ Moved(id)
      \/ /\ stage[id] = "visible" /\ stage'[id] = "published"
         /\ lstate'[id] = "committed" /\ row'[id] = row[id] /\ meta'[id] = meta[id]
         /\ head' = Raise(head, id)
    BY HandleMoves
<1>a. LayerAgrees(id) /\ stage[id] # "idle" /\ (meta[id] => meta'[id])
  <2>1. LayerAgrees(id)
        BY DEF Rest, StagesAgree
  <2>2. stage[id] # "idle"
        BY <1>m DEF Moved
  <2>3. meta[id] => meta'[id]
        BY <1>m DEF Moved
  <2> QED BY <2>1, <2>2, <2>3
<1>1. StagesAgree'
  <2>1. LayerAgrees(id)'
        BY <1>o, <1>m, <1>a DEF LayerAgrees, Moved, Visible
  <2>2. ASSUME NEW l \in LayerId \ {id} PROVE LayerAgrees(l)'
    <3>1. LayerAgrees(l)
          BY DEF Rest, StagesAgree
    <3> QED BY <1>o, <3>1 DEF LayerAgrees, Visible
  <2> QED BY <2>1, <2>2 DEF StagesAgree
<1>2. SequenceAhead'
  <2>1. ~(id >= next)
        BY <1>o, <1>a DEF Rest, SequenceAhead
  <2> QED BY <1>o, <2>1 DEF Rest, SequenceAhead
<1>3. VisibleIsListed'
  <2>1. /\ Visible(id) => meta[id]
        /\ lstate[id] = "committed" => Visible(id)
        /\ lstate[id] = "aborted" => ~Visible(id)
        BY DEF Rest, VisibleIsListed
  <2>2. /\ Visible(id)' => meta'[id]
        /\ lstate'[id] = "committed" => Visible(id)'
        /\ lstate'[id] = "aborted" => ~Visible(id)'
        BY <1>o, <1>m, <1>a, <2>1 DEF LayerAgrees, Moved, Visible
  <2> QED BY <1>o, <2>2 DEF Rest, VisibleIsListed, Visible
<1>c. ASSUME lstate[id] = "committed" PROVE lstate'[id] = "committed"
    BY <1>m, <1>a, <1>c DEF LayerAgrees, Moved
<1>4. HeadIsHighest'
  <2>0. HeadIsHighest
        BY DEF Rest
  <2>1. CASE head' = head /\ Moved(id)
    <3>1. lstate'[id] = "committed" => lstate[id] = "committed"
          BY <2>1 DEF Moved
    <3>2. \A l \in LayerId : lstate'[l] = "committed" <=> lstate[l] = "committed"
          BY <1>o, <1>c, <3>1
    <3>3. \A b \in Branch : head[b] # 0 => head[b] \in LayerId
          BY DEF TypeOK
    <3> QED BY <1>o, <2>0, <2>1, <3>2, <3>3 DEF HeadIsHighest
  <2>2. CASE lstate'[id] = "committed" /\ head' = Raise(head, id)
    <3>1. ASSUME NEW b \in Branch, b # branchOf[id] PROVE head'[b] = head[b]
          BY <2>2, <3>1 DEF TypeOK, Raise
    <3>2. head'[branchOf[id]] = IF id > head[branchOf[id]] THEN id ELSE head[branchOf[id]]
          BY <2>2 DEF TypeOK, Raise
    <3>3. ASSUME NEW b \in Branch PROVE head[b] \in 0..MaxLayer
          BY DEF TypeOK
    <3>3a. id \in 1..MaxLayer /\ MaxLayer \in Nat /\ branchOf[id] \in Branch
          BY LogAssumption DEF LogAssumption, TypeOK
    <3>4. ASSUME NEW b \in Branch, NEW l \in LayerId,
                 lstate'[l] = "committed", branchOf'[l] = b
          PROVE  l <= head'[b]
      <4>1. CASE l = id
            BY <1>o, <3>2, <3>3, <3>3a, <3>4, <4>1
      <4>2. CASE l # id
        <5>1. l <= head[b]
              BY <1>o, <2>0, <3>4, <4>2 DEF HeadIsHighest
        <5> QED BY <3>1, <3>2, <3>3, <3>3a, <5>1
      <4> QED BY <4>1, <4>2
    <3>5. ASSUME NEW b \in Branch, head'[b] # 0
          PROVE  lstate'[head'[b]] = "committed" /\ branchOf'[head'[b]] = b
      <4>1. CASE head'[b] = id /\ b = branchOf[id]
            BY <1>o, <2>2, <4>1
      <4>2. CASE head'[b] = head[b]
        <5>1. lstate[head[b]] = "committed" /\ branchOf[head[b]] = b
              BY <1>o, <2>0, <3>5, <4>2 DEF HeadIsHighest
        <5>2. head[b] \in LayerId
              BY <3>3, <3>5, <4>2
        <5> QED BY <1>o, <1>c, <4>2, <5>1, <5>2
      <4> QED BY <3>1, <3>2, <4>1, <4>2
    <3> QED BY <3>4, <3>5 DEF HeadIsHighest
  <2> QED BY <1>m, <2>1, <2>2
<1>5. ASSUME "source" \notin Preempted PROVE RoundsSettled'
  <2>1. ~Unsettled(id) => ~Unsettled(id)'
        BY <1>o, <1>m, <1>a, <1>5 DEF LayerAgrees, Moved, Unsettled
  <2>2. ASSUME NEW l \in LayerId, ~Unsettled(l) PROVE ~Unsettled(l)'
        BY <1>o, <2>1, <2>2 DEF Unsettled
  <2>3. RoundsSettled
        BY <1>5 DEF Rest
  <2>4. \A l \in LayerId : lstate[l] = "committed" => lstate'[l] = "committed"
        BY <1>o, <1>c
  <2> QED BY <1>o, <2>2, <2>3, <2>4 DEF RoundsSettled
<1> QED BY <1>1, <1>2, <1>3, <1>4, <1>5 DEF Rest

(* Reserving an id touches a layer nothing is known about, above every     *)
(* head and every fork point.                                              *)
LEMMA ReserveKeeps ==
    ASSUME TypeOK, TypeOK', Rest, NEW b \in Branch, NEW a \in Author,
           Open(b, a) \/ OpenReserve(b, a)
    PROVE  Rest'
<1> USE LogAssumption DEF LogAssumption
<1>t. /\ next \in 0..(MaxLayer + 1)
      /\ lstate \in [LayerId -> LayerState] /\ branchOf \in [LayerId -> Branch]
      /\ author \in [LayerId -> Author] /\ stage \in [LayerId -> Stage]
      /\ head \in [Branch -> 0..MaxLayer] /\ origin \in [Branch -> 0..MaxLayer]
    BY DEF TypeOK
<1>r. /\ up /\ up' /\ next \in LayerId /\ next' = next + 1
      /\ UNCHANGED <<head, rounds, origin, row, meta>>
    BY <1>t DEF Open, OpenReserve, Reserve, TypeOK, durable
<1>o. \A l \in LayerId \ {next} :
         /\ stage'[l] = stage[l] /\ lstate'[l] = lstate[l]
         /\ branchOf'[l] = branchOf[l] /\ author'[l] = author[l]
  <2>1. \A l \in LayerId \ {next} : lstate'[l] = lstate[l]
        BY <1>t DEF Open, OpenReserve
  <2>2. /\ branchOf' = [branchOf EXCEPT ![next] = b] /\ author' = [author EXCEPT ![next] = a]
        /\ \E to \in Stage : stage' = [stage EXCEPT ![next] = to]
        BY DEF Open, OpenReserve, Reserve
  <2> QED BY <1>t, <2>1, <2>2
<1>n. \/ stage'[next] = "inserted" /\ lstate'[next] = "open"
      \/ /\ stage'[next] = "reserved" /\ lstate'[next] = lstate[next]
         /\ author'[next] = a /\ a \in Preempted
    BY <1>t, <1>r DEF Open, OpenReserve, Reserve
<1>f. lstate[next] = "absent" /\ ~meta[next] /\ ~Visible(next)
  <2>1. lstate[next] = "absent" /\ ~meta[next]
        BY <1>r DEF Rest, SequenceAhead
  <2> QED BY <1>r, <2>1 DEF Rest, VisibleIsListed
<1>1. StagesAgree'
  <2>n. PICK n \in LayerId : n = next
        BY <1>r
  <2>1. LayerAgrees(n)'
        BY <1>r, <1>n, <1>f, <2>n DEF LayerAgrees, Visible
  <2>2. ASSUME NEW l \in LayerId \ {next} PROVE LayerAgrees(l)'
    <3>1. LayerAgrees(l)
          BY DEF Rest, StagesAgree
    <3> QED BY <1>r, <1>o, <3>1 DEF LayerAgrees, Visible
  <2> QED BY <2>n, <2>1, <2>2 DEF StagesAgree
<1>2. SequenceAhead'
  <2>1. ASSUME NEW l \in LayerId, l >= next + 1 PROVE l # next /\ l >= next
        BY <1>r, <2>1
  <2> QED BY <1>r, <1>o, <2>1 DEF Rest, SequenceAhead
<1>3. VisibleIsListed'
  <2>1. ASSUME NEW l \in LayerId
        PROVE  /\ Visible(l)' => meta'[l]
               /\ lstate'[l] = "committed" => Visible(l)'
               /\ lstate'[l] = "aborted" => ~Visible(l)'
        BY <1>r, <1>o, <1>n, <1>f DEF Rest, VisibleIsListed, Visible
  <2> QED BY <2>1 DEF VisibleIsListed
<1>c. /\ \A l \in LayerId : lstate'[l] = "committed" <=> lstate[l] = "committed"
      /\ \A l \in LayerId : lstate[l] = "committed" => branchOf'[l] = branchOf[l]
    BY <1>r, <1>o, <1>n, <1>f
<1>4. HeadIsHighest'
  <2>1. HeadIsHighest
        BY DEF Rest
  <2>2. \A c \in Branch : head[c] # 0 => head[c] \in LayerId
        BY <1>t
  <2>3. ASSUME NEW c \in Branch, NEW l \in LayerId, lstate'[l] = "committed", branchOf'[l] = c
        PROVE  l <= head'[c]
        BY <1>r, <1>c, <2>1, <2>3 DEF HeadIsHighest
  <2>4. ASSUME NEW c \in Branch, head'[c] # 0
        PROVE  lstate'[head'[c]] = "committed" /\ branchOf'[head'[c]] = c
        BY <1>r, <1>c, <2>1, <2>2, <2>4 DEF HeadIsHighest
  <2> QED BY <2>3, <2>4 DEF HeadIsHighest
<1>5. ASSUME "source" \notin Preempted PROVE RoundsSettled'
  <2>1. ASSUME NEW r \in rounds'
        PROVE  /\ up' /\ origin'[r] \in LayerId
               /\ lstate'[origin'[r]] = "committed"
               /\ \A l \in LayerId :
                     (l <= origin'[r] /\ branchOf'[l] = branchOf'[origin'[r]])
                         => ~Unsettled(l)'
    <3>1. /\ origin[r] \in LayerId /\ lstate[origin[r]] = "committed" /\ origin' = origin
          /\ \A l \in LayerId :
                (l <= origin[r] /\ branchOf[l] = branchOf[origin[r]]) => ~Unsettled(l)
          BY <1>r, <1>5, <2>1 DEF Rest, RoundsSettled
    <3>2. ~(origin[r] >= next)
          BY <1>f, <1>r, <3>1 DEF Rest, SequenceAhead
    <3>3. ASSUME NEW l \in LayerId, l <= origin[r], branchOf'[l] = branchOf'[origin[r]]
          PROVE  ~Unsettled(l)'
      <4>1. l # next /\ origin[r] # next
            BY <1>r, <3>1, <3>2, <3>3
      <4>2. ~Unsettled(l)
            BY <1>o, <3>1, <3>3, <4>1
      <4> QED BY <1>o, <4>1, <4>2 DEF Unsettled
    <3> QED BY <1>r, <1>c, <3>1, <3>3
  <2> QED BY <2>1 DEF RoundsSettled
<1> QED BY <1>1, <1>2, <1>3, <1>4, <1>5 DEF Rest

(* A step that changes neither layers nor heads keeps all but the rounds. *)
LEMMA QuietKeeps ==
    ASSUME TypeOK, Rest, UNCHANGED <<up, memory, branchOf, author, row, meta>>
           \/ UNCHANGED <<up, next, lstate, branchOf, author, head, stage, row, meta>>
    PROVE  StagesAgree' /\ SequenceAhead' /\ VisibleIsListed' /\ HeadIsHighest'
<1>1. UNCHANGED <<up, next, lstate, branchOf, author, head, stage, row, meta>>
    BY DEF memory
<1>2. StagesAgree'
    BY <1>1 DEF Rest, StagesAgree, LayerAgrees, Visible
<1>3. SequenceAhead'
    BY <1>1 DEF Rest, SequenceAhead
<1>4. VisibleIsListed'
    BY <1>1 DEF Rest, VisibleIsListed, Visible
<1>5. HeadIsHighest'
    BY <1>1 DEF Rest, HeadIsHighest
<1> QED BY <1>2, <1>3, <1>4, <1>5

(* The range a round forks from holds no unsettled client layer. *)
LEMMA SpanForkSettles ==
    ASSUME TypeOK, Rest, NEW b \in Branch, NEW r \in Branch, SpanFork(b, r),
           "source" \notin Preempted
    PROVE  RoundsSettled'
<1>1. /\ up /\ ~Registered(r) /\ rounds' = rounds \cup {r}
      /\ UNCHANGED <<up, lstate, branchOf, author>>
    BY DEF SpanFork
<1>2. PICK at \in LayerId : InSpan(b, at) /\ origin' = [origin EXCEPT ![r] = at]
    BY DEF SpanFork
<1>3. ASSUME NEW q \in rounds'
      PROVE  /\ up' /\ origin'[q] \in LayerId
             /\ lstate'[origin'[q]] = "committed"
             /\ \A l \in LayerId :
                   (l <= origin'[q] /\ branchOf'[l] = branchOf'[origin'[q]]) => ~Unsettled(l)'
  <2>1. CASE q = r
    <3>1. origin'[q] = at
          BY <1>2, <2>1 DEF TypeOK
    <3>2. \A l \in LayerId : (l <= at /\ branchOf[l] = branchOf[at]) => ~Unsettled(l)
          BY <1>2 DEF InSpan
    <3> QED BY <1>1, <1>2, <3>1, <3>2 DEF InSpan, Unsettled
  <2>2. CASE q # r
    <3>1. q \in rounds /\ q \in Branch
          BY <1>1, <2>2 DEF TypeOK
    <3>2. origin'[q] = origin[q]
          BY <1>2, <2>2, <3>1 DEF TypeOK
    <3>3. /\ origin[q] \in LayerId /\ lstate[origin[q]] = "committed"
          /\ \A l \in LayerId :
                (l <= origin[q] /\ branchOf[l] = branchOf[origin[q]]) => ~Unsettled(l)
          BY <3>1 DEF Rest, RoundsSettled
    <3> QED BY <1>1, <3>2, <3>3 DEF Unsettled
  <2> QED BY <2>1, <2>2
<1> QED BY <1>3 DEF RoundsSettled

(* Reopening rebuilds the table, the heads and the sequence from the rows. *)
LEMMA ReopenKeeps ==
    ASSUME TypeOK, TypeOK', Rest, Reopen
    PROVE  Rest'
<1> USE LogAssumption DEF LogAssumption
<1>r. /\ ~up /\ up' /\ UNCHANGED <<branchOf, author, row, meta, stage, rounds>>
      /\ lstate' = [id \in LayerId |-> IF ~meta[id] THEN "absent"
                                      ELSE IF Visible(id) THEN "committed" ELSE "aborted"]
    BY DEF Reopen, durable
<1>i. \A id \in LayerId : stage[id] = "idle"
    BY <1>r DEF Rest, StagesAgree, LayerAgrees
<1>v. \A id \in LayerId : Visible(id) => meta[id]
    BY DEF Rest, VisibleIsListed
<1>1. StagesAgree'
  <2>1. ASSUME NEW id \in LayerId PROVE LayerAgrees(id)'
        BY <1>r, <1>i, <1>v DEF LayerAgrees, Visible
  <2> QED BY <2>1 DEF StagesAgree
<1>2. SequenceAhead'
  <2>1. PICK h \in 0..MaxLayer : IsHighestOf(h, Listed) /\ next' = h + 1
        BY DEF Reopen, ResumeAfter
  <2>2. ASSUME NEW id \in LayerId, id >= next' PROVE ~meta[id]
    <3>1. meta[id] => id \in Listed
          BY DEF Listed
    <3>2. id \in Listed => id <= h
          BY <2>1 DEF IsHighestOf
    <3>3. ~(id <= h)
          BY <2>1, <2>2
    <3> QED BY <3>1, <3>2, <3>3
  <2> QED BY <1>r, <1>i, <2>2 DEF SequenceAhead
<1>3. VisibleIsListed'
    BY <1>r, <1>v DEF VisibleIsListed, Visible
<1>4. HeadIsHighest'
  <2> DEFINE On(b) == {id \in Listed : Visible(id) /\ branchOf[id] = b}
  <2>1. \A b \in Branch : IsHighestOf(head'[b], On(b))
        BY DEF Reopen
  <2>2. \A id \in LayerId : lstate'[id] = "committed" <=> id \in On(branchOf[id])
        BY <1>r DEF Listed
  <2>3. \A b \in Branch : On(b) \subseteq LayerId /\ \A id \in On(b) : branchOf[id] = b
        BY DEF Listed
  <2> HIDE DEF On
  <2>4. ASSUME NEW b \in Branch, NEW id \in LayerId,
               lstate'[id] = "committed", branchOf[id] = b
        PROVE  id <= head'[b]
    <3>1. id \in On(b)
          BY <2>2, <2>4
    <3> QED BY <2>1, <3>1 DEF IsHighestOf
  <2>5. ASSUME NEW b \in Branch, head'[b] # 0
        PROVE  lstate'[head'[b]] = "committed" /\ branchOf[head'[b]] = b
    <3>1. head'[b] \in On(b)
          BY <2>1, <2>5 DEF IsHighestOf
    <3> QED BY <2>2, <2>3, <3>1
  <2> QED BY <1>r, <2>4, <2>5 DEF HeadIsHighest
<1>5. ASSUME "source" \notin Preempted PROVE RoundsSettled'
  <2>1. rounds = {}
        BY <1>r, <1>5 DEF Rest, RoundsSettled
  <2> QED BY <1>r, <2>1 DEF RoundsSettled
<1> QED BY <1>1, <1>2, <1>3, <1>4, <1>5 DEF Rest

(* One step of the log preserves the inductive invariant. *)
LEMMA LogStep == LogInv /\ [Next]_vars => LogInv'
<1> SUFFICES ASSUME LogInv, [Next]_vars PROVE LogInv'
    OBVIOUS
<1>t. TypeOK /\ TypeOK' /\ Rest
    BY TypeStep DEF LogInv, Rest
<1>1. ASSUME NEW b \in Branch, NEW a \in Author, Open(b, a) \/ OpenReserve(b, a)
      PROVE  Rest'
    BY <1>t, <1>1, ReserveKeeps
<1>2. ASSUME NEW id \in LayerId, HandleStep(id) PROVE Rest'
    BY <1>t, <1>2, HandleKeeps
<1>3. ASSUME NEW b \in Branch, NEW at \in LayerId, Fork(b, at) PROVE Rest'
  <2>1. /\ UNCHANGED <<up, memory, branchOf, author, row, meta>>
        /\ ~Registered(b) /\ origin' = [origin EXCEPT ![b] = at]
        BY <1>3 DEF Fork
  <2>2. ASSUME "source" \notin Preempted PROVE RoundsSettled'
    <3>1. RoundsSettled
          BY <1>t, <2>2 DEF Rest
    <3>2. rounds' = rounds /\ UNCHANGED <<up, lstate, branchOf, author>>
          BY <2>1 DEF memory
    <3>3. \A r \in rounds : origin'[r] = origin[r]
      <4>1. b \notin rounds
            BY <2>1, <3>1 DEF RoundsSettled, Registered
      <4> QED BY <1>t, <2>1, <4>1 DEF TypeOK
    <3> QED BY <3>1, <3>2, <3>3 DEF RoundsSettled, Unsettled
  <2> QED BY <1>t, <2>1, <2>2, QuietKeeps DEF Rest
<1>4. ASSUME NEW b \in Branch, NEW r \in Branch, SpanFork(b, r) PROVE Rest'
  <2>1. UNCHANGED <<up, next, lstate, branchOf, author, head, stage, row, meta>>
        BY <1>4 DEF SpanFork
  <2> QED BY <1>t, <1>4, <2>1, QuietKeeps, SpanForkSettles DEF Rest
<1>5. ASSUME Crash PROVE Rest'
  <2>1. /\ up' = FALSE /\ UNCHANGED <<row, meta>> /\ rounds' = {}
        /\ \A id \in LayerId : stage'[id] = "idle" /\ lstate'[id] = "absent"
        BY <1>5 DEF Crash, durable
  <2>2. StagesAgree'
        BY <2>1 DEF StagesAgree, LayerAgrees
  <2>3. SequenceAhead' /\ HeadIsHighest'
        BY <2>1 DEF SequenceAhead, HeadIsHighest
  <2>4. VisibleIsListed'
        BY <1>t, <2>1 DEF Rest, VisibleIsListed, Visible
  <2>5. RoundsSettled'
        BY <2>1 DEF RoundsSettled
  <2> QED BY <2>2, <2>3, <2>4, <2>5 DEF Rest
<1>6. ASSUME Reopen PROVE Rest'
    BY <1>t, <1>6, ReopenKeeps
<1>7. ASSUME UNCHANGED vars PROVE Rest'
  <2>1. UNCHANGED <<up, memory, branchOf, author, row, meta, origin>>
        BY <1>7 DEF vars, durable
  <2>2. StagesAgree' /\ SequenceAhead' /\ VisibleIsListed' /\ HeadIsHighest'
        BY <1>t, <2>1, QuietKeeps
  <2>3. RoundsSettled => RoundsSettled'
        BY <2>1 DEF memory, RoundsSettled, Unsettled
  <2> QED BY <1>t, <2>2, <2>3 DEF Rest
<1>8. Rest'
    BY <1>1, <1>2, <1>3, <1>4, <1>5, <1>6, <1>7 DEF Next
<1> QED BY <1>t, <1>8 DEF LogInv, Rest

(* LogInv is an invariant of the log. *)
THEOREM LogInvariant == Spec => []LogInv
<1>1. Init => LogInv
    BY LogAssumption
    DEF LogAssumption, Init, LogInv, TypeOK, StagesAgree, LayerAgrees, SequenceAhead, VisibleIsListed,
        HeadIsHighest, RoundsSettled, Visible
<1> QED
    BY <1>1, LogStep, PTL DEF Spec

(* The head of every branch is its highest committed layer, in whatever    *)
(* order layers commit and wherever the process dies (log.rs:466).         *)
THEOREM HeadTheorem == Spec => []HeadIsHighest
<1>1. LogInv => HeadIsHighest
    BY DEF LogInv
<1> QED
    BY <1>1, LogInvariant, PTL

(* No layer is visible without its metadata, and the in-memory table never *)
(* disagrees with the store about what committed (log.rs:459).             *)
THEOREM VisibleTheorem == Spec => []VisibleIsListed
<1>1. LogInv => VisibleIsListed
    BY DEF LogInv
<1> QED
    BY <1>1, LogInvariant, PTL

(* A visible layer stays visible and keeps its branch, author and cells. *)
LEMMA VisibleStays ==
    ASSUME LogInv, [Next]_vars, NEW l \in LayerId, Visible(l)
    PROVE  /\ Visible(l)' /\ branchOf'[l] = branchOf[l]
           /\ author'[l] = author[l] /\ writes'[l] = writes[l]
<1> DEFINE Kept == /\ row'[l] = "committed" /\ branchOf'[l] = branchOf[l]
                   /\ author'[l] = author[l] /\ writes'[l] = writes[l]
<1>a. TypeOK /\ LayerAgrees(l) /\ row[l] = "committed" /\ meta[l]
    BY DEF LogInv, StagesAgree, VisibleIsListed, Visible
<1>b. up => l # next
    BY <1>a DEF LogInv, SequenceAhead, TypeOK
<1>c. up => stage[l] \in {"idle", "visible", "published", "unfolded"}
    BY <1>a DEF TypeOK, LayerAgrees, Visible
<1>1. ASSUME NEW b \in Branch, NEW a \in Author, Open(b, a) \/ OpenReserve(b, a)
      PROVE  Kept
  <2>1. /\ up /\ row' = row /\ writes' = writes
        /\ branchOf' = [branchOf EXCEPT ![next] = b] /\ author' = [author EXCEPT ![next] = a]
        BY <1>1 DEF Open, OpenReserve, Reserve, durable
  <2> QED BY <1>a, <1>b, <2>1 DEF TypeOK
<1>2. ASSUME NEW id \in LayerId, HandleStep(id) PROVE Kept
  <2>1. CASE l # id
        BY <1>2, <1>a, <2>1, OthersStay
  <2>2. CASE l = id
    <3>1. up /\ UNCHANGED <<branchOf, author>>
          BY <1>2, <1>a, OthersStay
    <3>2. stage[l] \in {"visible", "published", "unfolded"}
      <4>1. stage[l] # "idle"
            BY <1>2, <1>a, <2>2, HandleMoves DEF Moved
      <4> QED BY <1>c, <3>1, <4>1
    <3>3. UNCHANGED <<row, writes>>
          BY <1>2, <2>2, <3>2 DEF HandleStep, OpenInsert, StoreOpen, Put, AddGuard, Abort,
             Abandon, Seal, Validate, StoreSeal, StoreMeta, StoreCommit, Publish, Project,
             ProjectFails, durable
    <3> QED BY <1>a, <3>1, <3>3
  <2> QED BY <2>1, <2>2
<1>3. ASSUME NEW b \in Branch, NEW at \in LayerId, Fork(b, at) PROVE Kept
    BY <1>3, <1>a DEF Fork
<1>4. ASSUME NEW b \in Branch, NEW r \in Branch, SpanFork(b, r) PROVE Kept
    BY <1>4, <1>a DEF SpanFork
<1>5. ASSUME Crash PROVE Kept
    BY <1>5, <1>a DEF Crash, durable
<1>6. ASSUME Reopen PROVE Kept
    BY <1>6, <1>a DEF Reopen, durable
<1>7. ASSUME UNCHANGED vars PROVE Kept
    BY <1>7, <1>a DEF vars, durable
<1>8. Kept
    BY <1>1, <1>2, <1>3, <1>4, <1>5, <1>6, <1>7 DEF Next
<1> QED BY <1>8 DEF Visible

(* Only commit_layer makes a layer visible. *)
LEMMA BecomesVisible ==
    ASSUME LogInv, [Next]_vars, NEW l \in LayerId, ~Visible(l), Visible(l)'
    PROVE  StoreCommit(l)
<1>a. TypeOK /\ row[l] # "committed" /\ row'[l] = "committed"
    BY DEF LogInv, Visible
<1>1. ASSUME NEW b \in Branch, NEW a \in Author, Open(b, a) \/ OpenReserve(b, a)
      PROVE  FALSE
    BY <1>1, <1>a DEF Open, OpenReserve, durable
<1>2. ASSUME NEW id \in LayerId, HandleStep(id) PROVE StoreCommit(l)
  <2>1. l = id
        BY <1>2, <1>a, OthersStay
  <2>2. ASSUME ~StoreCommit(id) PROVE row'[id] # "committed"
    <3>1. CASE StoreOpen(id)
          BY <1>a, <2>1, <3>1 DEF StoreOpen, TypeOK
    <3>2. CASE Abort(id)
          BY <1>a, <2>1, <3>2 DEF Abort, TypeOK
    <3>5. CASE StoreSeal(id)
          BY <1>a, <2>1, <3>5 DEF StoreSeal, TypeOK
    <3>3. CASE Validate(id)
      <4>1. row' = row \/ row' = [row EXCEPT ![id] = "none"]
            BY <3>3 DEF Validate
      <4> QED BY <1>a, <2>1, <4>1 DEF TypeOK
    <3>4. CASE UNCHANGED row
          BY <1>a, <2>1, <3>4
    <3> QED
        BY <1>2, <2>2, <3>1, <3>2, <3>3, <3>4, <3>5
        DEF HandleStep, OpenInsert, Put, AddGuard, Abandon, Seal, StoreMeta, Publish,
            Project, ProjectFails, durable
  <2> QED BY <1>a, <2>1, <2>2
<1>3. ASSUME NEW b \in Branch, NEW at \in LayerId, Fork(b, at) PROVE FALSE
    BY <1>3, <1>a DEF Fork
<1>4. ASSUME NEW b \in Branch, NEW r \in Branch, SpanFork(b, r) PROVE FALSE
    BY <1>4, <1>a DEF SpanFork
<1>5. ASSUME Crash PROVE FALSE
    BY <1>5, <1>a DEF Crash, durable
<1>6. ASSUME Reopen PROVE FALSE
    BY <1>6, <1>a DEF Reopen, durable
<1>7. ASSUME UNCHANGED vars PROVE FALSE
    BY <1>7, <1>a DEF vars, durable
<1> QED
    BY <1>1, <1>2, <1>3, <1>4, <1>5, <1>6, <1>7 DEF Next

(* Every step of the log is a step of AtomicLog or leaves it alone. *)
LEMMA LandStep ==
    ASSUME LogInv, [Next]_vars
    PROVE  [Landed!Next]_LandedLayers
<1> DEFINE Rec(l) == [id |-> l, branch |-> branchOf[l], holds |-> writes[l]]
           Seen   == {l \in LayerId : Visible(l)}
<1>a. TypeOK
    BY DEF LogInv
<1>b. LandedLayers = {Rec(l) : l \in Seen} /\ LandedLayers' = {Rec(l)' : l \in Seen'}
    BY DEF LandedLayers
<1>c. \A l \in Seen : l \in Seen' /\ Rec(l)' = Rec(l)
    BY VisibleStays
<1>1. CASE \E l \in LayerId : ~Visible(l) /\ Visible(l)'
  <2>1. PICK new \in LayerId : ~Visible(new) /\ Visible(new)'
        BY <1>1
  <2>2. StoreCommit(new)
        BY <2>1, BecomesVisible
  <2>3. /\ \A l \in LayerId : l # new => (Visible(l)' <=> Visible(l))
        /\ branchOf' = branchOf /\ writes' = writes
        BY <1>a, <2>2 DEF StoreCommit, Visible, TypeOK
  <2>4. Seen' = Seen \cup {new} /\ new \notin Seen
        BY <2>1, <2>3
  <2>5. Rec(new)' = Rec(new) /\ Rec(new) \in Landed!Landing
        BY <1>a, <2>3 DEF TypeOK, Landed!Landing
  <2>6. LandedLayers' = LandedLayers \cup {Rec(new)}
    <3>1. \A l \in Seen' : Rec(l)' = Rec(l)
          BY <1>c, <2>4, <2>5
    <3> HIDE DEF Rec, Seen
    <3>2. LandedLayers' = {Rec(l) : l \in Seen'}
          BY <1>b, <3>1
    <3> QED BY <1>b, <2>4, <3>2
  <2>7. \A other \in LandedLayers : other.id # new
        BY <1>b, <2>4
  <2>8. Landed!Land(Rec(new))
        BY <2>5, <2>6, <2>7 DEF Landed!Land
  <2>9. Rec(new) \in LandedLayers' \ LandedLayers
        BY <2>6, <2>7
  <2> QED BY <2>8, <2>9 DEF Landed!Next
<1>2. CASE \A l \in LayerId : Visible(l)' => Visible(l)
  <2>1. Seen' = Seen
        BY <1>2, <1>c
  <2>2. LandedLayers' = LandedLayers
        BY <1>b, <1>c, <2>1
  <2> QED BY <2>2
<1> QED BY <1>1, <1>2

(* The log implements AtomicLog: commits, however many awaits they take    *)
(* and whatever crash or abort cuts them short, are single atomic landings *)
(* that nothing undoes (log.rs commit, abort and restore).                 *)
THEOREM AtomicityTheorem == Spec => LandsAtomically
<1>1. Init => Landed!Init
    BY DEF Init, Landed!Init, LandedLayers, Visible
<1>2. LogInv /\ [Next]_vars => [Landed!Next]_LandedLayers
    BY LandStep
<1> QED
    BY <1>1, <1>2, LogInvariant, PTL DEF Spec, LandsAtomically, Landed!Spec

(* While a round is alive its fork point, and what is on record about the  *)
(* layers at or below it, stay as they are.                                *)
LEMMA RoundIsFixed ==
    ASSUME LogInv, [Next]_vars, "source" \notin Preempted, NEW r \in rounds, r \in rounds'
    PROVE  /\ origin'[r] = origin[r]
           /\ \A l \in LayerId : l <= origin[r] =>
                 branchOf'[l] = branchOf[l] /\ author'[l] = author[l]
<1> DEFINE Fixed == /\ origin'[r] = origin[r]
                    /\ \A l \in LayerId : l <= origin[r] =>
                          branchOf'[l] = branchOf[l] /\ author'[l] = author[l]
<1>a. TypeOK /\ RoundsSettled /\ SequenceAhead
    BY DEF LogInv
<1>b. /\ up /\ origin[r] \in LayerId /\ r \in Branch
      /\ \A l \in LayerId : l <= origin[r] => l # next
  <2>1. up /\ origin[r] \in LayerId /\ lstate[origin[r]] = "committed" /\ r \in Branch
        BY <1>a DEF RoundsSettled, TypeOK
  <2>2. ~(origin[r] >= next)
        BY <1>a, <2>1 DEF SequenceAhead
  <2> QED BY <2>1, <2>2
<1>c. ASSUME UNCHANGED <<origin, branchOf, author>> PROVE Fixed
    BY <1>c
<1>1. ASSUME NEW b \in Branch, NEW a \in Author, Open(b, a) \/ OpenReserve(b, a)
      PROVE  Fixed
  <2>1. /\ origin' = origin
        /\ branchOf' = [branchOf EXCEPT ![next] = b] /\ author' = [author EXCEPT ![next] = a]
        BY <1>1 DEF Open, OpenReserve, Reserve, durable
  <2> QED BY <1>a, <1>b, <2>1 DEF TypeOK
<1>2. ASSUME NEW id \in LayerId, HandleStep(id) PROVE Fixed
    BY <1>2, <1>a, <1>c, OthersStay
<1>3. ASSUME NEW b \in Branch, NEW at \in LayerId,
             Fork(b, at) \/ \E c \in Branch : SpanFork(c, b)
      PROVE  Fixed
  <2>1. /\ ~Registered(b) /\ UNCHANGED <<branchOf, author>>
        /\ \E o \in LayerId : origin' = [origin EXCEPT ![b] = o]
        BY <1>3 DEF Fork, SpanFork
  <2>2. b # r
        BY <1>b, <2>1 DEF Registered
  <2> QED BY <1>a, <1>b, <2>1, <2>2 DEF TypeOK
<1>4. ASSUME NEW c \in Branch, NEW b \in Branch, SpanFork(c, b) PROVE Fixed
    BY <1>3, <1>4, <1>b
<1>5. ASSUME Crash PROVE Fixed
    BY <1>5 DEF Crash
<1>6. ASSUME Reopen PROVE Fixed
    BY <1>6, <1>b DEF Reopen
<1>7. ASSUME UNCHANGED vars PROVE Fixed
    BY <1>7, <1>c DEF vars, durable
<1> QED
    BY <1>1, <1>2, <1>3, <1>4, <1>5, <1>6, <1>7 DEF Next

(* Where a task is never preempted between reserving an id and registering *)
(* the layer, the fork point of a round is a snapshot of its branch        *)
(* (derive.rs:577).                                                        *)
THEOREM SnapshotTheorem ==
    ASSUME "source" \notin Preempted
    PROVE  Spec => RoundSnapshotStable
<1>1. ASSUME LogInv, [Next]_vars, NEW r \in rounds, r \in rounds'
      PROVE  RoundSnapshot(r)' = RoundSnapshot(r)
  <2>1. /\ origin'[r] = origin[r] /\ origin[r] \in LayerId
        /\ \A l \in LayerId : l <= origin[r] =>
              branchOf'[l] = branchOf[l] /\ author'[l] = author[l]
        BY <1>1, RoundIsFixed DEF LogInv, RoundsSettled
  <2>2. branchOf'[origin'[r]] = branchOf[origin[r]]
        BY <2>1
  <2>3. ASSUME NEW l \in LayerId, l <= origin[r], author[l] = "source",
               branchOf[l] = branchOf[origin[r]]
        PROVE  Visible(l)' <=> Visible(l)
    <3>1. Visible(l) => Visible(l)'
          BY <1>1, VisibleStays
    <3>2. lstate[l] # "sealed"
          BY <1>1, <2>3 DEF LogInv, RoundsSettled, Unsettled
    <3>3. ~StoreCommit(l)
          BY <1>1, <3>2 DEF LogInv, StagesAgree, LayerAgrees, StoreCommit
    <3> QED BY <1>1, <3>1, <3>3, BecomesVisible
  <2> QED BY <2>1, <2>2, <2>3 DEF RoundSnapshot
<1>2. LogInv /\ [Next]_vars =>
          [\A r \in rounds : r \in rounds' => RoundSnapshot(r)' = RoundSnapshot(r)]_vars
    BY <1>1
<1> QED
    BY <1>2, LogInvariant, PTL DEF Spec, RoundSnapshotStable

-----------------------------------------------------------------------------
(* Guards                                                                  *)
(*                                                                         *)
(* What guards are judged by is the index of touched cells and the path a  *)
(* branch reads along (touch.rs, log.rs check_guards, branch.rs).  The     *)
(* path is a recursive walk over fork points.  It ends because every       *)
(* branch was forked at a layer older than its own, and what holds along   *)
(* it is argued from the least fork point at which it would not.           *)

(* A branch is older than its layers, and was forked at a layer the log has *)
(* on record, so ids handed out later are above its fork point.             *)
ForksAreOld ==
    /\ \A id \in LayerId : Registered(branchOf[id]) /\ origin[branchOf[id]] < id
    /\ \A b \in Branch : origin[b] # 0 => meta[origin[b]]
    /\ origin[Root] = 0

(* The mark the shortcut looks at is over everything touched on the branch *)
(* and under its head.                                                     *)
MarksAreRight ==
    up => \A b \in Branch :
              /\ \A c \in Cell, id \in LayerId : <<b, c, id>> \in touched => id <= highest[b]
              /\ highest[b] <= head[b]

(* A round was forked at a layer. *)
RoundsForked == \A r \in rounds : up /\ origin[r] \in LayerId

IndexInv == LogInv /\ ForksAreOld /\ TouchIndexIsTheFold /\ MarksAreRight /\ RoundsForked

-----------------------------------------------------------------------------
(* The walk *)

(* One step of read_path's walk: the rest of the path of a branch, given   *)
(* the rests w of the paths of the others.                                 *)
Segment == [branch : Branch, bound : LayerId]

Onward(w, b) ==
    IF origin[b] = 0 \/ lstate[origin[b]] = "absent"
    THEN <<>>
    ELSE <<[branch |-> branchOf[origin[b]], bound |-> origin[b]]>>
             \o w[branchOf[origin[b]]]

(* The branch a branch was forked from has an older fork point.            *)
LEMMA ParentsAreOlder ==
    ASSUME TypeOK, ForksAreOld, NEW b \in Branch, origin[b] # 0
    PROVE  /\ origin[b] \in LayerId /\ branchOf[origin[b]] \in Branch
           /\ origin[branchOf[origin[b]]] \in Nat
           /\ origin[branchOf[origin[b]]] < origin[b]
BY LogAssumption DEF LogAssumption, TypeOK, ForksAreOld

(* The walk steps on to a sequence of segments if the rests are sequences. *)
LEMMA OnwardIsPath ==
    ASSUME TypeOK, NEW b \in Branch, NEW w \in [Branch -> Seq(Segment)]
    PROVE  Onward(w, b) \in Seq(Segment)
<1>1. CASE origin[b] = 0 \/ lstate[origin[b]] = "absent"
    BY <1>1 DEF Onward
<1>2. CASE ~(origin[b] = 0 \/ lstate[origin[b]] = "absent")
  <2>1. origin[b] \in LayerId /\ branchOf[origin[b]] \in Branch
        BY <1>2, LogAssumption DEF TypeOK, LogAssumption
  <2>2. <<[branch |-> branchOf[origin[b]], bound |-> origin[b]]>> \in Seq(Segment)
        BY <2>1 DEF Segment
  <2>3. w[branchOf[origin[b]]] \in Seq(Segment)
        BY <2>1
  <2> QED BY <1>2, <2>2, <2>3 DEF Onward
<1> QED BY <1>1, <1>2

(* The walk ends on every branch: forked later than none of the others, it *)
(* would be the least that does not.                                       *)
LEMMA WalkEnds ==
    ASSUME TypeOK, ForksAreOld
    PROVE  \E w \in [Branch -> Seq(Segment)] : \A b \in Branch : w[b] = Onward(w, b)
<1> DEFINE Ends(n) == \E w \in [Branch -> Seq(Segment)] :
                          \A b \in Branch : origin[b] <= n => w[b] = Onward(w, b)
           Stuck == {n \in Nat : ~Ends(n)}
<1>t. MaxLayer \in Nat /\ \A b \in Branch : origin[b] \in Nat /\ origin[b] <= MaxLayer
    BY LogAssumption DEF LogAssumption, TypeOK
<1>1. Ends(0)
  <2> DEFINE w == [b \in Branch |-> <<>>]
  <2>1. w \in [Branch -> Seq(Segment)]
        OBVIOUS
  <2>2. \A b \in Branch : origin[b] <= 0 => w[b] = Onward(w, b)
        BY <1>t DEF Onward
  <2> QED BY <2>1, <2>2
<1>2. ASSUME NEW n \in Nat, Ends(n) PROVE Ends(n + 1)
  <2>1. PICK w \in [Branch -> Seq(Segment)] :
            \A b \in Branch : origin[b] <= n => w[b] = Onward(w, b)
        BY <1>2
  <2> DEFINE v == [b \in Branch |-> Onward(w, b)]
  <2>2. v \in [Branch -> Seq(Segment)]
        BY OnwardIsPath
  <2>3. ASSUME NEW b \in Branch, origin[b] <= n + 1
        PROVE  v[b] = Onward(v, b)
    <3>1. CASE origin[b] = 0 \/ lstate[origin[b]] = "absent"
          BY <3>1 DEF Onward
    <3>2. CASE ~(origin[b] = 0 \/ lstate[origin[b]] = "absent")
      <4> DEFINE parent == branchOf[origin[b]]
      <4>1. parent \in Branch /\ origin[parent] <= n
            BY <1>t, <2>3, <3>2, ParentsAreOlder
      <4>2. v[parent] = w[parent]
            BY <2>1, <4>1
      <4> QED BY <3>2, <4>2 DEF Onward
    <3> QED BY <3>1, <3>2
  <2> QED BY <2>2, <2>3
<1>3. Stuck = {}
  <2> HIDE DEF Ends
  <2>1. SUFFICES ASSUME Stuck # {} PROVE FALSE
        OBVIOUS
  <2>2. PICK m \in Stuck : \A k \in Stuck : m <= k
        BY <2>1, LeastNumber
  <2>3. m \in Nat /\ ~Ends(m) /\ m # 0
        BY <1>1, <2>2
  <2>4. m - 1 \in Nat /\ ~(m <= m - 1) /\ m = (m - 1) + 1
        BY <2>3
  <2>5. Ends(m - 1)
        BY <2>2, <2>4
  <2>6. Ends((m - 1) + 1)
        BY <1>2, <2>4, <2>5
  <2> QED BY <2>3, <2>4, <2>6
<1>4. Ends(MaxLayer)
    BY <1>3, <1>t
<1> QED BY <1>4, <1>t

(* What the walk finds for a branch is one step and the walk of its parent.*)
LEMMA AncestryStep ==
    ASSUME TypeOK, ForksAreOld
    PROVE  Ancestry = [b \in Branch |-> Onward(Ancestry, b)]
<1>1. \E w : w = [b \in Branch |-> Onward(w, b)]
    BY WalkEnds
<1>2. Ancestry = CHOOSE w : w = [b \in Branch |-> Onward(w, b)]
    BY Zenon DEF Ancestry, Onward
<1> QED BY <1>1, <1>2, Zenon

-----------------------------------------------------------------------------
(* The index *)

(* A layer the index holds: committed, and its commit has returned. *)
Indexed(l) == lstate[l] = "committed" /\ stage[l] = "idle" /\ author[l] = "source"

(* The index, entry by entry. *)
EntryWise ==
    \A b \in Branch, c \in Cell, l \in LayerId :
        <<b, c, l>> \in touched <=> Indexed(l) /\ branchOf[l] = b /\ c \in writes[l]

(* The index is the fold exactly when every entry is there for its layer   *)
(* and every such layer has its entries (touch.rs).                        *)
LEMMA FoldIsEntryWise == TypeOK => (TouchIndexIsTheFold <=> (up => EntryWise))
<1> SUFFICES ASSUME TypeOK PROVE TouchIndexIsTheFold <=> (up => EntryWise)
    OBVIOUS
<1>t. touched \subseteq Branch \X Cell \X LayerId
    BY DEF TypeOK
<1>1. ASSUME TouchIndexIsTheFold, up PROVE EntryWise
    BY <1>1 DEF TouchIndexIsTheFold, EntryWise, Indexed
<1>2. ASSUME up, EntryWise PROVE TouchIndexIsTheFold
  <2> DEFINE Fold == {t \in Branch \X Cell \X LayerId :
                        /\ lstate[t[3]] = "committed" /\ stage[t[3]] = "idle"
                        /\ author[t[3]] = "source"
                        /\ branchOf[t[3]] = t[1] /\ t[2] \in writes[t[3]]}
  <2>1. \A t \in Branch \X Cell \X LayerId : t \in touched <=> t \in Fold
    <3>1. SUFFICES ASSUME NEW b \in Branch, NEW c \in Cell, NEW l \in LayerId
                   PROVE  <<b, c, l>> \in touched <=> <<b, c, l>> \in Fold
          OBVIOUS
    <3> QED BY <1>2 DEF EntryWise, Indexed
  <2>2. Fold \subseteq Branch \X Cell \X LayerId
        OBVIOUS
  <2> HIDE DEF Fold
  <2>3. touched = Fold
        BY <1>t, <2>1, <2>2
  <2> QED BY <2>3 DEF TouchIndexIsTheFold, Fold
<1>3. ~up => TouchIndexIsTheFold
    BY DEF TouchIndexIsTheFold
<1> QED BY <1>1, <1>2, <1>3

(* Only Projections::committed touches the index, once per published       *)
(* layer; every other step of a handle leaves it.                          *)
LEMMA OnlyProjectIndexes ==
    ASSUME TypeOK, NEW id \in LayerId, HandleStep(id), ~Project(id)
    PROVE  /\ UNCHANGED <<touched, highest>>
           /\ stage[id] # "idle"
           /\ stage[id] = "published" => stage'[id] = "unfolded"
<1> USE DEF memory, durable
<1>1. CASE OpenInsert(id)
    BY <1>1 DEF OpenInsert
<1>2. CASE StoreOpen(id)
    BY <1>2 DEF StoreOpen
<1>3. ASSUME NEW c \in Cell, Put(id, c) PROVE UNCHANGED <<touched, highest>> /\ stage[id] = "writing"
    BY <1>3 DEF Put
<1>4. ASSUME NEW g \in Guard, AddGuard(id, g) PROVE UNCHANGED <<touched, highest>> /\ stage[id] = "writing"
    BY <1>4 DEF AddGuard
<1>5. CASE Abort(id)
    BY <1>5 DEF Abort
<1>6. CASE Abandon(id)
    BY <1>6 DEF Abandon
<1>7. CASE Seal(id)
    BY <1>7 DEF Seal
<1>8. CASE Validate(id)
    BY <1>8 DEF Validate
<1>9. CASE StoreSeal(id)
    BY <1>9 DEF StoreSeal
<1>10. CASE StoreMeta(id)
    BY <1>10 DEF StoreMeta
<1>11. CASE StoreCommit(id)
    BY <1>11 DEF StoreCommit
<1>12. CASE Publish(id)
    BY <1>12 DEF Publish
<1>13. CASE ProjectFails(id)
    BY <1>13 DEF ProjectFails, TypeOK
<1> QED
    BY <1>1, <1>2, <1>3, <1>4, <1>5, <1>6, <1>7,
       <1>8, <1>9, <1>10, <1>11, <1>12, <1>13 DEF HandleStep

(* What a step of a handle leaves of the rest of the invariant: fork points *)
(* stay, and what is on record stays on record.                            *)
LEMMA HandleForks ==
    ASSUME LogInv, ForksAreOld, RoundsForked, NEW id \in LayerId, HandleStep(id)
    PROVE  ForksAreOld' /\ RoundsForked'
<1>1. /\ UNCHANGED <<up, branchOf, rounds, origin>>
      /\ \A l \in LayerId \ {id} : meta'[l] = meta[l]
    BY OthersStay DEF LogInv
<1>2. meta[id] => meta'[id]
    BY HandleMoves DEF LogInv, Moved
<1>3. \A l \in LayerId : meta[l] => meta'[l]
    BY <1>1, <1>2
<1>4. \A b \in Branch : origin[b] # 0 => origin[b] \in LayerId
    BY LogAssumption DEF LogAssumption, LogInv, TypeOK
<1> QED BY <1>1, <1>3, <1>4 DEF ForksAreOld, RoundsForked, Registered

(* A handle keeps the index a fold and the marks right: until its commit   *)
(* returns its layer is in neither.                                        *)
LEMMA HandleIndexes ==
    ASSUME IndexInv, LogInv', NEW id \in LayerId, HandleStep(id)
    PROVE  TouchIndexIsTheFold' /\ MarksAreRight'
<1>t. /\ TypeOK /\ TypeOK' /\ LogInv /\ LayerAgrees(id) /\ up /\ EntryWise /\ MarksAreRight
      /\ touched \subseteq Branch \X Cell \X LayerId /\ touched' \subseteq Branch \X Cell \X LayerId
    BY FoldIsEntryWise, OthersStay DEF IndexInv, LogInv, StagesAgree, TypeOK
<1>o. /\ up' /\ UNCHANGED <<branchOf, author>>
      /\ \A l \in LayerId \ {id} :
            stage'[l] = stage[l] /\ lstate'[l] = lstate[l] /\ writes'[l] = writes[l]
    BY <1>t, OthersStay
<1>h. \A b \in Branch : head[b] \in Nat /\ head'[b] \in Nat /\ highest[b] \in Nat /\ head[b] <= head'[b]
  <2>1. head' = head \/ head' = Raise(head, id)
        BY <1>t, HandleMoves
  <2>2. MaxLayer \in Nat /\ head \in [Branch -> 0..MaxLayer] /\ head' \in [Branch -> 0..MaxLayer]
        /\ highest \in [Branch -> 0..MaxLayer]
        BY <1>t, LogAssumption DEF TypeOK, LogAssumption
  <2>3. ASSUME head' = Raise(head, id), NEW b \in Branch PROVE head[b] <= head'[b]
        BY <2>2, <2>3 DEF Raise
  <2> QED BY <2>1, <2>2, <2>3
<1>f. TouchIndexIsTheFold' <=> EntryWise'
  <2>1. TypeOK' => (TouchIndexIsTheFold' <=> (up' => EntryWise'))
        BY FoldIsEntryWise, PTL
  <2> QED BY <1>o, <1>t, <2>1
<1>1. CASE ~Project(id)
  <2>1. /\ touched' = touched /\ highest' = highest /\ stage[id] # "idle"
        /\ stage[id] = "published" => stage'[id] = "unfolded"
        BY <1>t, <1>1, OnlyProjectIndexes
  <2>2. ~Indexed(id) /\ ~Indexed(id)'
    <3>1. ~Indexed(id)
          BY <2>1 DEF Indexed
    <3>2. stage'[id] = "idle" => lstate'[id] # "committed"
          BY <1>t, <2>1, HandleMoves DEF Moved, LayerAgrees, TypeOK
    <3> QED BY <3>1, <3>2 DEF Indexed
  <2>3. ASSUME NEW b \in Branch, NEW c \in Cell, NEW l \in LayerId
        PROVE  <<b, c, l>> \in touched' <=> Indexed(l)' /\ branchOf'[l] = b /\ c \in writes'[l]
    <3>1. <<b, c, l>> \in touched <=> Indexed(l) /\ branchOf[l] = b /\ c \in writes[l]
          BY <1>t DEF EntryWise
    <3> QED BY <1>o, <2>1, <2>2, <3>1 DEF Indexed
  <2>4. MarksAreRight'
        BY <1>t, <1>h, <2>1 DEF MarksAreRight
  <2> QED BY <1>f, <2>3, <2>4 DEF EntryWise
<1>2. CASE Project(id)
  <2>1. /\ stage[id] = "published" /\ stage' = [stage EXCEPT ![id] = "idle"]
        /\ touched' = touched \cup Touches(id)
        /\ highest' = IF author[id] = "source" THEN Raise(highest, id) ELSE highest
        /\ UNCHANGED <<lstate, head, writes>>
        BY <1>2 DEF Project, durable
  <2>2. ~Indexed(id) /\ (Indexed(id)' <=> author[id] = "source") /\ lstate[id] = "committed"
        BY <1>t, <1>o, <2>1 DEF Indexed, LayerAgrees, TypeOK
  <2>3. \A b \in Branch, c \in Cell, l \in LayerId :
            <<b, c, l>> \in Touches(id)
               <=> l = id /\ author[id] = "source" /\ branchOf[id] = b /\ c \in writes[id]
    <3>1. branchOf[id] \in Branch /\ writes[id] \subseteq Cell
          BY <1>t DEF TypeOK
    <3>2. ASSUME author[id] = "source" PROVE Touches(id) = {<<branchOf[id], c, id>> : c \in writes[id]}
          BY <3>2 DEF Touches
    <3>3. ASSUME author[id] # "source" PROVE Touches(id) = {}
          BY <3>3 DEF Touches
    <3> QED BY <3>1, <3>2, <3>3, SMTT(60)
  <2>4. ASSUME NEW b \in Branch, NEW c \in Cell, NEW l \in LayerId
        PROVE  <<b, c, l>> \in touched' <=> Indexed(l)' /\ branchOf'[l] = b /\ c \in writes'[l]
    <3>1. <<b, c, l>> \in touched <=> Indexed(l) /\ branchOf[l] = b /\ c \in writes[l]
          BY <1>t DEF EntryWise
    <3>2. l # id => (Indexed(l)' <=> Indexed(l))
          BY <1>o DEF Indexed
    <3> QED BY <1>o, <2>1, <2>2, <2>3, <3>1, <3>2
  <2>5. branchOf[id] \in Branch /\ id <= head[branchOf[id]]
        BY ZenonT(60), <1>t, <2>2 DEF LogInv, HeadIsHighest, TypeOK
  <2>6. \A b \in Branch :
            /\ highest[b] <= highest'[b] /\ highest'[b] <= head[b]
            /\ author[id] = "source" /\ branchOf[id] = b => id <= highest'[b]
        BY <1>t, <1>h, <2>1, <2>5 DEF Raise, TypeOK, MarksAreRight
  <2>6a. \A b \in Branch : highest'[b] \in Nat
        BY <1>t, LogAssumption DEF TypeOK, LogAssumption
  <2>7. MarksAreRight'
        BY <1>t, <1>h, <2>1, <2>3, <2>6, <2>6a DEF MarksAreRight
  <2> QED BY <1>f, <2>4, <2>7 DEF EntryWise
<1> QED BY <1>1, <1>2

(* A layer that is being opened is younger than its branch, and in neither *)
(* the table nor the index.                                                *)
LEMMA ReserveIndexes ==
    ASSUME IndexInv, NEW b \in Branch, NEW a \in Author, Open(b, a) \/ OpenReserve(b, a)
    PROVE  ForksAreOld' /\ EntryWise' /\ MarksAreRight' /\ RoundsForked'
<1>t. /\ TypeOK /\ SequenceAhead /\ ForksAreOld /\ MarksAreRight /\ RoundsForked
    BY DEF IndexInv, LogInv
<1>r. /\ up /\ up' /\ Registered(b) /\ next \in LayerId
      /\ UNCHANGED <<touched, highest, head, rounds, origin, meta, writes>>
      /\ branchOf' = [branchOf EXCEPT ![next] = b]
  <2>1. up /\ up' /\ Registered(b) /\ next <= MaxLayer
        BY DEF Open, OpenReserve, Reserve
  <2>2. next \in LayerId
        BY <1>t, <2>1, LogAssumption DEF LogAssumption, TypeOK
  <2>3. UNCHANGED <<touched, highest, head, rounds, origin, meta, writes>>
        BY DEF Open, OpenReserve, durable
  <2>4. branchOf' = [branchOf EXCEPT ![next] = b]
        BY DEF Open, OpenReserve, Reserve
  <2> QED BY <2>1, <2>2, <2>3, <2>4
<1>o. \A l \in LayerId \ {next} :
            /\ stage'[l] = stage[l] /\ lstate'[l] = lstate[l] /\ author'[l] = author[l]
            /\ branchOf'[l] = branchOf[l]
    BY ZenonT(60), <1>t DEF Open, OpenReserve, Reserve, TypeOK
<1>n. stage[next] = "idle" /\ lstate[next] = "absent" /\ stage'[next] # "idle"
  <2>1. stage[next] = "idle" /\ lstate[next] = "absent"
        BY <1>t, <1>r DEF SequenceAhead
  <2>2. stage'[next] \in {"inserted", "reserved"}
        BY <1>t, <1>r DEF Open, OpenReserve, Reserve, TypeOK
  <2> QED BY <2>1, <2>2
<1>e. EntryWise
    BY <1>t, <1>r, FoldIsEntryWise DEF IndexInv
<1>1. ForksAreOld'
  <2>1. origin[b] < next
    <3>1. origin[b] # 0 => origin[b] \in LayerId /\ meta[origin[b]]
          BY <1>t, LogAssumption DEF LogAssumption, TypeOK, ForksAreOld
    <3>2. origin[b] # 0 => ~(origin[b] >= next)
          BY <1>t, <1>r, <3>1 DEF SequenceAhead
    <3> QED BY <1>r, <1>t, <3>1, <3>2
  <2>2. branchOf'[next] = b
        BY <1>t, <1>r DEF TypeOK
  <2>3. \A id \in LayerId : Registered(branchOf'[id]) /\ origin[branchOf'[id]] < id
        BY <1>t, <1>r, <1>o, <2>1, <2>2 DEF ForksAreOld
  <2> QED BY <1>t, <1>r, <2>3 DEF ForksAreOld, Registered
<1>2. ASSUME NEW d \in Branch, NEW c \in Cell, NEW l \in LayerId
      PROVE  <<d, c, l>> \in touched' <=> Indexed(l)' /\ branchOf'[l] = d /\ c \in writes'[l]
  <2>1. <<d, c, l>> \in touched <=> Indexed(l) /\ branchOf[l] = d /\ c \in writes[l]
        BY <1>e DEF EntryWise
  <2> QED BY <1>r, <1>o, <1>n, <2>1 DEF Indexed
<1>3. MarksAreRight'
    BY <1>t, <1>r DEF MarksAreRight
<1>4. RoundsForked'
    BY <1>t, <1>r DEF RoundsForked
<1> QED BY <1>1, <1>2, <1>3, <1>4 DEF EntryWise

(* A branch is made with a fork point the log has on record, and has no    *)
(* layers yet.                                                             *)
LEMMA NewBranch ==
    ASSUME TypeOK, ForksAreOld, RoundsForked, up, NEW b \in Branch, NEW at \in LayerId,
           ~Registered(b), meta[at], origin' = [origin EXCEPT ![b] = at],
           UNCHANGED <<up, branchOf, meta>>, rounds' \subseteq rounds \cup {b}
    PROVE  ForksAreOld' /\ RoundsForked'
<1>1. b # Root /\ origin[b] = 0 /\ origin'[b] = at /\ at # 0
    BY DEF Registered, TypeOK
<1>2. \A d \in Branch \ {b} : origin'[d] = origin[d]
    BY DEF TypeOK
<1>3. \A id \in LayerId : branchOf[id] # b /\ branchOf[id] \in Branch
    BY DEF ForksAreOld, TypeOK
<1>4. ForksAreOld'
    BY <1>1, <1>2, <1>3, LogAssumption DEF LogAssumption, ForksAreOld, Registered
<1>5. RoundsForked'
    BY <1>1, <1>2 DEF RoundsForked, TypeOK
<1> QED BY <1>4, <1>5

(* A fork changes nothing that is indexed. *)
LEMMA ForkIndexes ==
    ASSUME IndexInv, UNCHANGED <<up, lstate, branchOf, author, head, touched, highest, stage, writes>>
    PROVE  TouchIndexIsTheFold' /\ MarksAreRight'
BY DEF IndexInv, TouchIndexIsTheFold, MarksAreRight

(* Registry::open rebuilds the same index from the rows: nobody holds a    *)
(* layer, and what the table says is committed is what readers see.        *)
LEMMA ReopenIndexes ==
    ASSUME IndexInv, LogInv', Reopen
    PROVE  ForksAreOld' /\ EntryWise' /\ MarksAreRight' /\ RoundsForked'
<1>t. /\ TypeOK /\ TypeOK' /\ StagesAgree /\ ForksAreOld /\ RoundsForked /\ HeadIsHighest'
    BY DEF IndexInv, LogInv
<1>r. /\ ~up /\ up' /\ UNCHANGED <<branchOf, author, row, meta, stage, rounds, origin, writes>>
      /\ lstate' = [id \in LayerId |-> IF ~meta[id] THEN "absent"
                                      ELSE IF Visible(id) THEN "committed" ELSE "aborted"]
      /\ touched' = UNION {Touches(id) : id \in {l \in Listed : Visible(l)}}
      /\ highest' \in [Branch -> 0..MaxLayer]
      /\ \A b \in Branch :
          IsHighestOf(highest'[b], {id \in Listed : /\ Visible(id) /\ branchOf[id] = b
                                                    /\ author[id] = "source"})
    BY DEF Reopen, durable
<1>i. \A id \in LayerId : stage[id] = "idle"
    BY <1>t, <1>r DEF StagesAgree, LayerAgrees
<1>c. \A id \in LayerId : lstate'[id] = "committed" <=> (meta[id] /\ Visible(id))
    BY <1>r
<1>1. ForksAreOld' /\ RoundsForked'
    BY <1>t, <1>r DEF ForksAreOld, RoundsForked, Registered
<1>2. ASSUME NEW b \in Branch, NEW c \in Cell, NEW l \in LayerId
      PROVE  <<b, c, l>> \in touched' <=> Indexed(l)' /\ branchOf'[l] = b /\ c \in writes'[l]
  <2>1. \A id \in LayerId : <<b, c, l>> \in Touches(id)
            <=> l = id /\ author[id] = "source" /\ branchOf[id] = b /\ c \in writes[id]
        BY <1>t DEF Touches, TypeOK
  <2>2. <<b, c, l>> \in touched' <=> \E id \in LayerId :
            meta[id] /\ Visible(id) /\ <<b, c, l>> \in Touches(id)
        BY <1>r DEF Listed
  <2>3. <<b, c, l>> \in touched'
            <=> meta[l] /\ Visible(l) /\ author[l] = "source" /\ branchOf[l] = b /\ c \in writes[l]
        BY <2>1, <2>2
  <2> QED BY <1>r, <1>i, <1>c, <2>3 DEF Indexed
<1>3. MarksAreRight'
  <2>1. ASSUME NEW b \in Branch, NEW c \in Cell, NEW id \in LayerId, <<b, c, id>> \in touched'
        PROVE  id <= highest'[b]
    <3> DEFINE Mine == {l \in Listed : Visible(l) /\ branchOf[l] = b /\ author[l] = "source"}
    <3>1. id \in Mine
          BY <1>r, <1>c, <1>2, <2>1 DEF Indexed, Listed
    <3>2. IsHighestOf(highest'[b], Mine)
          BY <1>r
    <3> QED BY <3>1, <3>2 DEF IsHighestOf
  <2>2. ASSUME NEW b \in Branch PROVE highest'[b] <= head'[b]
    <3> DEFINE Mine == {l \in Listed : Visible(l) /\ branchOf[l] = b /\ author[l] = "source"}
    <3>1. highest'[b] = 0 \/ highest'[b] \in Mine
          BY <1>r DEF IsHighestOf
    <3>2. highest'[b] \in Mine => highest'[b] <= head'[b]
          BY <1>t, <1>r, <1>c DEF HeadIsHighest, Listed
    <3>3. head'[b] \in Nat
          BY <1>t, LogAssumption DEF TypeOK, LogAssumption
    <3> QED BY <3>1, <3>2, <3>3
  <2> QED BY <2>1, <2>2 DEF MarksAreRight
<1> QED BY <1>1, <1>2, <1>3 DEF EntryWise

(* Every step keeps the index right. *)
LEMMA IndexStep == IndexInv /\ [Next]_vars => IndexInv'
<1> SUFFICES ASSUME IndexInv, [Next]_vars PROVE IndexInv'
    OBVIOUS
<1>l. LogInv /\ LogInv' /\ TypeOK /\ TypeOK'
  <2>1. LogInv'
        BY LogStep DEF IndexInv
  <2> QED BY <2>1 DEF IndexInv, LogInv
<1>e. EntryWise' => TouchIndexIsTheFold'
  <2>1. TypeOK' => (TouchIndexIsTheFold' <=> (up' => EntryWise'))
        BY FoldIsEntryWise, PTL
  <2> QED BY <1>l, <2>1
<1>1. ASSUME NEW b \in Branch, NEW a \in Author, Open(b, a) \/ OpenReserve(b, a)
      PROVE  IndexInv'
    BY <1>1, <1>l, <1>e, ReserveIndexes DEF IndexInv
<1>2. ASSUME NEW id \in LayerId, HandleStep(id) PROVE IndexInv'
    BY <1>2, <1>l, HandleForks, HandleIndexes DEF IndexInv
<1>3. ASSUME NEW b \in Branch, NEW at \in LayerId, Fork(b, at) PROVE IndexInv'
  <2>1. /\ up /\ ~Registered(b) /\ meta[at] /\ origin' = [origin EXCEPT ![b] = at]
        /\ UNCHANGED <<up, lstate, branchOf, author, head, touched, highest, stage, writes,
                       rounds, meta>>
        BY <1>3 DEF Fork, memory
  <2>2. ForksAreOld' /\ RoundsForked'
        BY <1>l, <2>1, NewBranch DEF IndexInv
  <2>3. TouchIndexIsTheFold' /\ MarksAreRight'
        BY <2>1, ForkIndexes
  <2> QED BY <1>l, <2>2, <2>3 DEF IndexInv
<1>4. ASSUME NEW b \in Branch, NEW r \in Branch, SpanFork(b, r) PROVE IndexInv'
  <2>1. /\ up /\ ~Registered(r) /\ rounds' = rounds \cup {r}
        /\ UNCHANGED <<up, lstate, branchOf, author, head, touched, highest, stage, writes, meta>>
        BY <1>4 DEF SpanFork
  <2>2. PICK at \in LayerId : InSpan(b, at) /\ origin' = [origin EXCEPT ![r] = at]
        BY <1>4 DEF SpanFork
  <2>3. meta[at]
        BY <1>l, <2>2 DEF InSpan, LogInv, VisibleIsListed
  <2>4. ForksAreOld' /\ RoundsForked'
        BY <1>l, <2>1, <2>2, <2>3, NewBranch DEF IndexInv
  <2>5. TouchIndexIsTheFold' /\ MarksAreRight'
        BY <2>1, ForkIndexes
  <2> QED BY <1>l, <2>4, <2>5 DEF IndexInv
<1>5. CASE Crash
  <2>1. ~up' /\ rounds' = {} /\ UNCHANGED <<branchOf, origin, meta>>
        BY <1>5 DEF Crash, durable
  <2> QED BY <1>l, <2>1
      DEF IndexInv, ForksAreOld, Registered, TouchIndexIsTheFold, MarksAreRight, RoundsForked
<1>6. CASE Reopen
    BY <1>6, <1>l, <1>e, ReopenIndexes DEF IndexInv
<1>7. CASE UNCHANGED vars
    BY <1>7, <1>l
    DEF IndexInv, vars, memory, durable, ForksAreOld, Registered, TouchIndexIsTheFold, MarksAreRight,
        RoundsForked
<1> QED BY <1>1, <1>2, <1>3, <1>4, <1>5, <1>6, <1>7 DEF Next

(* The index invariant holds throughout. *)
LEMMA AlwaysIndexed == Spec => []IndexInv
<1>1. Init => IndexInv
  <2> SUFFICES ASSUME Init PROVE IndexInv
      OBVIOUS
  <2>1. LogInv
        BY LogAssumption
        DEF LogAssumption, Init, LogInv, TypeOK, StagesAgree, LayerAgrees, SequenceAhead,
            VisibleIsListed, HeadIsHighest, RoundsSettled, Visible
  <2>2. ForksAreOld /\ RoundsForked /\ MarksAreRight
        BY LogAssumption DEF LogAssumption, Init, ForksAreOld, Registered, RoundsForked, MarksAreRight
  <2>3. TouchIndexIsTheFold
        BY DEF Init, TouchIndexIsTheFold
  <2> QED BY <2>1, <2>2, <2>3 DEF IndexInv
<1> QED
    BY <1>1, IndexStep, PTL DEF Spec

-----------------------------------------------------------------------------
(* The path, and what is asked of the index along it *)

(* Every inherited segment of a path is bounded by the branch's own fork   *)
(* point: forked earliest of those where one was not, a branch would have  *)
(* it from a parent forked earlier still.                                  *)
LEMMA AncestryBelowOrigin ==
    ASSUME TypeOK, ForksAreOld, NEW b \in Branch
    PROVE  /\ Ancestry[b] \in Seq(Segment)
           /\ \A i \in 1..Len(Ancestry[b]) : Ancestry[b][i].bound <= origin[b]
<1> DEFINE Good(d) == /\ Ancestry[d] \in Seq(Segment)
                      /\ \A i \in 1..Len(Ancestry[d]) : Ancestry[d][i].bound <= origin[d]
           Bad == {n \in Nat : \E d \in Branch : origin[d] = n /\ ~Good(d)}
<1>t. \A d \in Branch : origin[d] \in Nat
    BY LogAssumption DEF LogAssumption, TypeOK
<1>s. \A d \in Branch : Ancestry[d] = Onward(Ancestry, d)
  <2>1. Ancestry = [d \in Branch |-> Onward(Ancestry, d)]
        BY AncestryStep
  <2> DEFINE step == [d \in Branch |-> Onward(Ancestry, d)]
  <2>2. \A d \in Branch : step[d] = Onward(Ancestry, d)
        OBVIOUS
  <2> HIDE DEF step
  <2>3. Ancestry = step
        BY <2>1 DEF step
  <2> QED BY <2>2, <2>3, Zenon
<1>1. ASSUME NEW d \in Branch, \A e \in Branch : origin[e] < origin[d] => Good(e)
      PROVE  Good(d)
  <2>1. CASE origin[d] = 0 \/ lstate[origin[d]] = "absent"
    <3>1. Ancestry[d] = <<>>
          BY <1>s, <2>1 DEF Onward
    <3> QED BY <3>1
  <2>2. CASE ~(origin[d] = 0 \/ lstate[origin[d]] = "absent")
    <3> DEFINE parent == branchOf[origin[d]]
               rest   == Ancestry[parent]
               first  == [branch |-> parent, bound |-> origin[d]]
    <3>1. /\ origin[d] \in LayerId /\ parent \in Branch
          /\ origin[parent] \in Nat /\ origin[parent] < origin[d]
          BY <2>2, ParentsAreOlder
    <3>2. Good(parent)
          BY <1>1, <3>1
    <3>3. Ancestry[d] = <<first>> \o rest
          BY <1>s, <2>2 DEF Onward
    <3>4. first \in Segment /\ first.bound = origin[d]
          BY <3>1 DEF Segment
    <3>5. \A i \in 1..Len(rest) : rest[i] \in Segment /\ rest[i].bound <= origin[parent]
          BY <3>2
    <3>6. \A i \in 1..Len(rest) : rest[i].bound \in Nat
          BY <3>5 DEF Segment
    <3>7. \A i \in 1..Len(rest) : rest[i].bound <= origin[d]
          BY <3>1, <3>5, <3>6, <1>t
    <3> HIDE DEF first, rest
    <3>8. rest \in Seq(Segment)
          BY <3>2 DEF rest
    <3>9. /\ <<first>> \o rest \in Seq(Segment)
          /\ Len(<<first>> \o rest) = Len(rest) + 1 /\ Len(rest) \in Nat
          /\ (<<first>> \o rest)[1] = first
          /\ \A i \in 2..(Len(rest) + 1) : (<<first>> \o rest)[i] = rest[i - 1]
          BY <3>4, <3>8
    <3>10. ASSUME NEW i \in 1..(Len(rest) + 1)
           PROVE  (<<first>> \o rest)[i].bound <= origin[d]
      <4>1. CASE i = 1
            BY <1>t, <3>4, <3>9, <4>1
      <4>2. CASE i # 1
        <5>1. i \in 2..(Len(rest) + 1) /\ i - 1 \in 1..Len(rest)
              BY <3>9, <4>2
        <5> QED BY <3>7, <3>9, <5>1
      <4> QED BY <4>1, <4>2
    <3> QED BY <3>3, <3>9, <3>10
  <2> QED BY <2>1, <2>2
<1>2. Bad = {}
  <2> HIDE DEF Good
  <2>1. SUFFICES ASSUME Bad # {} PROVE FALSE
        OBVIOUS
  <2>2. PICK m \in Bad : \A k \in Bad : m <= k
        BY <2>1, LeastNumber
  <2>3. PICK d \in Branch : origin[d] = m /\ ~Good(d)
        BY <2>2
  <2>4. ASSUME NEW e \in Branch, origin[e] < origin[d] PROVE Good(e)
        BY <1>t, <2>2, <2>3, <2>4
  <2> QED BY <1>1, <2>3, <2>4
<1> QED BY <1>2, <1>t

(* A read path is the branch's own segment up to its head, then segments   *)
(* bounded by its fork point.                                              *)
LEMMA PathShape ==
    ASSUME TypeOK, ForksAreOld, NEW b \in Branch
    PROVE  /\ 1 \in DOMAIN ReadPath(b)
           /\ ReadPath(b)[1] = [branch |-> b, bound |-> head[b]]
           /\ \A i \in DOMAIN ReadPath(b) : i # 1 => ReadPath(b)[i].bound <= origin[b]
           /\ \A i \in DOMAIN ReadPath(b) : i # 1 => ReadPath(b)[i].bound \in Nat
<1> DEFINE own  == [branch |-> b, bound |-> head[b]]
           rest == Ancestry[b]
           Any  == [branch : Branch, bound : Nat]
<1>1. rest \in Seq(Segment) /\ \A i \in 1..Len(rest) : rest[i].bound <= origin[b]
    BY AncestryBelowOrigin
<1>2. own \in Any /\ Segment \subseteq Any
    BY LogAssumption DEF LogAssumption, TypeOK, Segment
<1>4. ReadPath(b) = <<own>> \o rest
    BY DEF ReadPath
<1> HIDE DEF own, rest, Any
<1>3. \A i \in 1..Len(rest) : rest[i].bound \in Nat
  <2>1. \A i \in 1..Len(rest) : rest[i] \in Segment
        BY <1>1
  <2> QED BY <2>1 DEF Segment
<1>5. rest \in Seq(Any)
    BY <1>1, <1>2
<1>6. /\ DOMAIN (<<own>> \o rest) = 1..(Len(rest) + 1) /\ Len(rest) \in Nat
      /\ (<<own>> \o rest)[1] = own
      /\ \A i \in 2..(Len(rest) + 1) : (<<own>> \o rest)[i] = rest[i - 1]
    BY <1>2, <1>5
<1>7. ASSUME NEW i \in 1..(Len(rest) + 1), i # 1
      PROVE  (<<own>> \o rest)[i].bound <= origin[b] /\ (<<own>> \o rest)[i].bound \in Nat
  <2>1. i \in 2..(Len(rest) + 1) /\ i - 1 \in 1..Len(rest)
        BY <1>6, <1>7
  <2> QED BY <1>1, <1>3, <1>6, <2>1
<1> QED BY <1>4, <1>6, <1>7 DEF own

(* The shortcut a round's merge takes before it builds its guards hides    *)
(* nothing (touch.rs:61, branch.rs merge_round): what landed since the     *)
(* round forked is on its parent's own segment, under the highest mark.    *)
LEMMA ShortcutHolds == IndexInv => ShortcutIsSound
<1> SUFFICES ASSUME IndexInv, NEW r \in rounds, NEW c \in Cell,
                    TouchedSince(ReadPath(branchOf[origin[r]]), c, origin[r])
             PROVE  MovedSince(ReadPath(branchOf[origin[r]]), origin[r])
    BY DEF ShortcutIsSound
<1> DEFINE b == branchOf[origin[r]]
<1>t. TypeOK /\ ForksAreOld /\ MarksAreRight /\ RoundsForked
    BY DEF IndexInv, LogInv
<1>1. up /\ origin[r] \in LayerId /\ b \in Branch /\ origin[b] < origin[r] /\ origin[b] \in Nat
    BY <1>t, LogAssumption DEF LogAssumption, RoundsForked, ForksAreOld, TypeOK
<1>2. PICK i \in DOMAIN ReadPath(b), id \in LayerId :
          /\ <<ReadPath(b)[i].branch, c, id>> \in touched
          /\ id > origin[r] /\ id <= ReadPath(b)[i].bound
    BY DEF TouchedSince
<1>3. i = 1
  <2>1. i # 1 => ReadPath(b)[i].bound <= origin[b] /\ ReadPath(b)[i].bound \in Nat
        BY <1>t, <1>1, PathShape
  <2> QED BY <1>1, <1>2, <2>1
<1>4. 1 \in DOMAIN ReadPath(b) /\ ReadPath(b)[1] = [branch |-> b, bound |-> head[b]]
    BY <1>t, <1>1, PathShape
<1>5. id <= highest[b] /\ highest[b] <= head[b] /\ highest[b] \in Nat
    BY <1>t, <1>1, <1>2, <1>3, <1>4, LogAssumption DEF LogAssumption, MarksAreRight, TypeOK
<1>6. highest[b] > origin[r]
    BY <1>1, <1>2, <1>5
<1> QED BY <1>4, <1>5, <1>6 DEF MovedSince

(* The touch index holds what the committed client layers touched, fed one *)
(* commit at a time or rebuilt at open, and the shortcut in front of it    *)
(* hides none of it (touch.rs, projection.rs, branch.rs merge_round).      *)
THEOREM GuardsJudgedRightly == Spec => []IndexIsSound
<1>1. IndexInv => IndexIsSound
    BY ShortcutHolds DEF IndexInv, IndexIsSound
<1> QED
    BY <1>1, AlwaysIndexed, PTL

(* A layer passes its guards only through check_guards, with all of them   *)
(* holding.                                                                *)
LEMMA PassesByValidate ==
    ASSUME LogInv, [Next]_vars, NEW id \in LayerId, stage[id] = "sealing", stage'[id] = "valid"
    PROVE  up /\ GuardsHold(id)
<1>t. TypeOK /\ LayerAgrees(id)
    BY DEF LogInv, StagesAgree
<1>0. up
    BY <1>t DEF LayerAgrees
<1>1. ASSUME NEW b \in Branch, NEW a \in Author, Open(b, a) \/ OpenReserve(b, a) PROVE FALSE
  <2>1. stage'[next] \in {"inserted", "reserved"} \/ next \notin LayerId
        BY <1>1, <1>t DEF Open, OpenReserve, Reserve, TypeOK
  <2>2. \A l \in LayerId \ {next} : stage'[l] = stage[l]
        BY <1>1, <1>t DEF Open, OpenReserve, Reserve, TypeOK
  <2> QED BY <2>1, <2>2
<1>2. ASSUME NEW l \in LayerId, HandleStep(l) PROVE GuardsHold(id)
  <2>1. l = id
        BY <1>2, <1>t, OthersStay
  <2>2. CASE Validate(id)
    <3>1. ASSUME ~GuardsHold(id) PROVE FALSE
      <4>1. stage' = [stage EXCEPT ![id] = "idle"]
            BY <2>2, <3>1 DEF Validate
      <4> QED BY <1>t, <4>1 DEF TypeOK
    <3> QED BY <3>1
  <2>3. CASE ~Validate(id)
    <3> USE <1>t DEF TypeOK, memory
    <3>1. ~OpenInsert(id) /\ ~StoreOpen(id) /\ ~Abort(id) /\ ~Abandon(id) /\ ~Seal(id)
          BY DEF OpenInsert, StoreOpen, Abort, Abandon, Seal
    <3>2. /\ ~StoreSeal(id) /\ ~StoreMeta(id) /\ ~StoreCommit(id) /\ ~Publish(id)
          /\ ~Project(id) /\ ~ProjectFails(id)
          BY DEF StoreSeal, StoreMeta, StoreCommit, Publish, Project, ProjectFails
    <3>3. \A c \in Cell : ~Put(id, c)
          BY DEF Put
    <3>4. \A g \in Guard : ~AddGuard(id, g)
          BY DEF AddGuard
    <3> QED BY <1>2, <2>1, <2>3, <3>1, <3>2, <3>3, <3>4 DEF HandleStep
  <2> QED BY <2>2, <2>3
<1>3. ASSUME NEW b \in Branch, NEW at \in LayerId, Fork(b, at) PROVE FALSE
    BY <1>3 DEF Fork, memory
<1>4. ASSUME NEW b \in Branch, NEW r \in Branch, SpanFork(b, r) PROVE FALSE
    BY <1>4 DEF SpanFork
<1>5. CASE Crash
    BY <1>5 DEF Crash
<1>6. CASE Reopen
    BY <1>0, <1>6 DEF Reopen
<1>7. CASE UNCHANGED vars
    BY <1>7 DEF vars, memory
<1> QED BY <1>0, <1>1, <1>2, <1>3, <1>4, <1>5, <1>6, <1>7 DEF Next

(* A guard that passes at seal is true of every client layer whose commit  *)
(* had returned, however commits, aborts and crashes interleave before it  *)
(* (log.rs:445): the index would have shown the layer on the branch's own  *)
(* segment, and the head is not below it.                                  *)
THEOREM GuardsThatPassAreTrue == Spec => PassedGuardsAreTrue
<1>1. ASSUME IndexInv, [Next]_vars, NEW id \in LayerId, NEW other \in LayerId, NEW g \in guards[id],
             stage[id] = "sealing", stage'[id] = "valid",
             lstate[other] = "committed", stage[other] = "idle", author[other] = "source",
             branchOf[other] = branchOf[id], other > g.since, g.cell \in writes[other]
      PROVE  FALSE
  <2> DEFINE b == branchOf[id]
  <2>t. /\ TypeOK /\ LogInv /\ ForksAreOld /\ b \in Branch /\ g.cell \in Cell
        /\ HeadIsHighest /\ (up => EntryWise)
        BY <1>1, FoldIsEntryWise, LogAssumption DEF IndexInv, LogInv, TypeOK, Guard, LogAssumption, Cell
  <2>1. up /\ GuardsHold(id)
        BY <1>1, <2>t, PassesByValidate
  <2>2. <<b, g.cell, other>> \in touched
        BY <1>1, <2>t, <2>1 DEF EntryWise, Indexed
  <2>3. other <= head[b]
        BY <1>1, <2>t, <2>1 DEF HeadIsHighest
  <2>4. 1 \in DOMAIN ReadPath(b) /\ ReadPath(b)[1] = [branch |-> b, bound |-> head[b]]
        BY <2>t, PathShape
  <2>5. TouchedSince(ReadPath(b), g.cell, g.since)
        BY <1>1, <2>2, <2>3, <2>4 DEF TouchedSince
  <2> QED BY <1>1, <2>1, <2>5 DEF GuardsHold
<1> DEFINE Step ==
        \A id, other \in LayerId : \A g \in guards[id] :
          (stage[id] = "sealing" /\ stage'[id] = "valid") =>
              ~ /\ lstate[other] = "committed" /\ stage[other] = "idle"
                /\ author[other] = "source" /\ branchOf[other] = branchOf[id]
                /\ other > g.since /\ g.cell \in writes[other]
<1>2. IndexInv /\ [Next]_vars => [Step]_vars
    BY <1>1
<1> QED
    BY <1>2, AlwaysIndexed, PTL DEF Spec, PassedGuardsAreTrue
=============================================================================
