------------------------------ MODULE LayerLog ------------------------------
(***************************************************************************)
(* The log of one registry: the life of a layer from the moment its id is  *)
(* reserved to the moment every in-memory index knows about it, for many   *)
(* layers at once, with a process that can die at any await and a SQLite   *)
(* store it is reopened from.                                              *)
(*                                                                         *)
(* Code: borg-engine/src/log.rs (LayerManager), seams.rs (the sequencer),  *)
(* touch.rs (CellTouchIndex), branch.rs (fork), registry.rs (open),        *)
(* derive.rs (span), borg-storage-sqlite/src/lib.rs (the layer rows).      *)
(*                                                                         *)
(* A handle's `stage` is the place LayerManager::open or ::commit has      *)
(* reached; two stages are separated where the code awaits storage or      *)
(* releases the state mutex, because there another task can run.           *)
(***************************************************************************)
EXTENDS Naturals, Sequences, FiniteSets

CONSTANTS
    Branch,        \* branch ids the registry may use
    Root,          \* the branch created by `borg init`
    SourceCell,    \* cells clients own
    DerivedCell,   \* cells producers own
    GuardedCell,   \* cells a writer may put a guard on (a bound: {} for none)
    MaxLayer,      \* bound on layer ids handed out
    Preempted      \* authors whose tasks may be preempted between reserving
                   \* an id and putting the layer in the in-memory table

ASSUME LogAssumption ==
    /\ Root \in Branch
    /\ MaxLayer \in Nat
    /\ Preempted \subseteq {"source", "derived"}
    /\ SourceCell \cap DerivedCell = {}
    /\ GuardedCell \subseteq SourceCell \cup DerivedCell

Cell    == SourceCell \cup DerivedCell
LayerId == 1..MaxLayer
Author  == {"source", "derived"}
Guard   == [cell : GuardedCell, since : 0..MaxLayer]

\* LayerState, with "absent" for an id the in-memory table does not hold.
LayerState == {"absent", "open", "sealed", "committed", "aborted"}

\* Where the owner of a layer has got to. "idle": nobody holds a handle.
\* "unfolded": commit() failed after the layer was visible, in the fold.
Stage == {"idle", "reserved", "inserted", "writing", "sealing", "valid",
          "stored", "recorded", "visible", "published", "unfolded"}

VARIABLES
    up,        \* is a process holding the store?
    next,      \* InProcessSequencer.next
    lstate,    \* State.layers[id].state
    branchOf,  \* Layer.branch
    author,    \* Layer.author, without the producer
    guards,    \* LayerHandle.guards, spent once they have been validated
    head,      \* State.heads, 0 where a branch has none
    touched,   \* CellTouchIndex.cells, as <<branch, cell, layer>>
    highest,   \* CellTouchIndex.highest, 0 where a branch has none
    stage,     \* progress of the task owning each layer
    rounds,    \* branches forked by a derivation round of this process
    origin,    \* Branch.origin, 0 for a root or a branch not made yet
    row,       \* SQLite layers.state, "none" where there is no row
    meta,      \* SQLite layers.meta IS NOT NULL
    writes     \* cells named by the layer's membership rows

memory  == <<next, lstate, head, touched, highest, stage, rounds>>
durable == <<origin, row, meta>>
vars    == <<up, memory, branchOf, author, guards, durable, writes>>

-----------------------------------------------------------------------------
(* Reading the log *)

Visible(id) == row[id] = "committed"

Registered(b) == b = Root \/ origin[b] # 0

(* LayerManager::read_path without its first segment: each ancestor bounded *)
(* at the fork point.  The walk stops where the origin layer is unknown.    *)
Ancestry ==
    LET walk[b \in Branch] ==
            IF origin[b] = 0 \/ lstate[origin[b]] = "absent"
            THEN <<>>
            ELSE <<[branch |-> branchOf[origin[b]], bound |-> origin[b]]>>
                     \o walk[branchOf[origin[b]]]
    IN walk

(* LayerManager::read_path(branch, None). *)
ReadPath(b) == <<[branch |-> b, bound |-> head[b]]>> \o Ancestry[b]

(* The landings of a cell on one segment of a path that a reader can see. *)
Landings(seg, c) ==
    {id \in LayerId : /\ Visible(id)
                      /\ branchOf[id] = seg.branch
                      /\ id <= seg.bound
                      /\ c \in writes[id]}

(* SqliteStorage::get_cell: walk outward, the first segment holding any    *)
(* record wins, the highest landing in it is the answer; 0 for no record.  *)
GetCell(path, c) ==
    LET holding == {i \in DOMAIN path : Landings(path[i], c) # {}}
    IN IF holding = {} THEN 0
       ELSE LET first == CHOOSE i \in holding : \A j \in holding : i <= j
                found == Landings(path[first], c)
            IN CHOOSE id \in found : \A other \in found : other <= id

\* Mutation: the bound of a segment taken as exclusive.
TouchedBelowBound(path, c, since) ==
    \E i \in DOMAIN path : \E id \in LayerId :
        /\ <<path[i].branch, c, id>> \in touched
        /\ id > since
        /\ id < path[i].bound

(* CellTouchIndex::lookup, as the question first_touched_since asks of it. *)
TouchedSince(path, c, since) ==
    \E i \in DOMAIN path : \E id \in LayerId :
        /\ <<path[i].branch, c, id>> \in touched
        /\ id > since
        /\ id <= path[i].bound

\* Mutation: the same slip in the shortcut.
MovedBelowBound(path, since) ==
    \E i \in DOMAIN path : /\ highest[path[i].branch] > since
                           /\ highest[path[i].branch] < path[i].bound

(* CellTouchIndex::moved_since, the cheap negative a round's merge asks    *)
(* before it builds its guard set.                                         *)
MovedSince(path, since) ==
    \E i \in DOMAIN path : /\ highest[path[i].branch] > since
                           /\ highest[path[i].branch] <= path[i].bound

(* LayerManager::is_derived_anywhere. *)
IsDerived(path, c) == GetCell(path, c) # 0 /\ author[GetCell(path, c)] = "derived"

(* LayerManager::check_guards at seal, each guard with its own since. *)
GuardsHold(id) ==
    \A g \in guards[id] :
        /\ ~IsDerived(ReadPath(branchOf[id]), g.cell)
        /\ ~TouchedSince(ReadPath(branchOf[id]), g.cell, g.since)

-----------------------------------------------------------------------------
(* Opening a layer *)

(* The sequencer's fetch_add; the rest of the layer is a local of open(). *)
Reserve(b, a, to) ==
    /\ up /\ next <= MaxLayer /\ Registered(b)
    /\ next' = next + 1
    /\ stage' = [stage EXCEPT ![next] = to]
    /\ branchOf' = [branchOf EXCEPT ![next] = b]
    /\ author' = [author EXCEPT ![next] = a]
    /\ guards' = [guards EXCEPT ![next] = {}]

(* open(), with no preemption before the layer is in the table. *)
Open(b, a) ==
    /\ a \notin Preempted
    /\ Reserve(b, a, "inserted")
    /\ lstate' = [lstate EXCEPT ![next] = "open"]
    /\ UNCHANGED <<up, head, touched, highest, rounds, durable, writes>>

(* open(), preempted after next_layer_id and before state.lock(). *)
OpenReserve(b, a) ==
    /\ a \in Preempted
    /\ Reserve(b, a, "reserved")
    /\ UNCHANGED <<up, lstate, head, touched, highest, rounds, durable, writes>>

OpenInsert(id) ==
    /\ up /\ stage[id] = "reserved"
    /\ stage' = [stage EXCEPT ![id] = "inserted"]
    /\ lstate' = [lstate EXCEPT ![id] = "open"]
    /\ UNCHANGED <<up, next, branchOf, author, guards, head, touched, highest,
                   rounds, durable, writes>>

(* storage.open_layer: an INSERT, so an id whose row already exists is an  *)
(* error; the in-memory layer stays "open" and no handle to it is built.   *)
StoreOpen(id) ==
    /\ up /\ stage[id] = "inserted"
    /\ \/ /\ row[id] = "none"
          /\ row' = [row EXCEPT ![id] = "open"]
          /\ stage' = [stage EXCEPT ![id] = "writing"]
          /\ writes' = [writes EXCEPT ![id] = {}]
       \/ /\ row[id] # "none"
          /\ stage' = [stage EXCEPT ![id] = "idle"]
          /\ UNCHANGED <<row, writes>>
    /\ UNCHANGED <<up, next, lstate, branchOf, author, guards, head, touched,
                   highest, rounds, origin, meta>>

-----------------------------------------------------------------------------
(* Writing through the handle *)

\* Mutation: writes accepted for as long as somebody holds the layer.
PutWheneverHeld(id, c) ==
    /\ up /\ stage[id] # "idle"
    /\ c \notin writes[id]
    /\ (author[id] = "source") <=> (c \in SourceCell)
    /\ writes' = [writes EXCEPT ![id] = @ \cup {c}]
    /\ UNCHANGED <<up, memory, branchOf, author, guards, durable>>

(* LayerHandle::put / ::include: a producer writes derived cells, a client *)
(* source cells (WriteSession decides which).                              *)
Put(id, c) ==
    /\ up /\ stage[id] = "writing"
    /\ c \notin writes[id]
    /\ (author[id] = "source") <=> (c \in SourceCell)
    /\ writes' = [writes EXCEPT ![id] = @ \cup {c}]
    /\ UNCHANGED <<up, memory, branchOf, author, guards, durable>>

(* LayerHandle::guard; one hand-written guard is enough to tell the cases. *)
AddGuard(id, g) ==
    /\ up /\ stage[id] = "writing"
    /\ guards[id] = {}
    /\ g.since < id
    /\ guards' = [guards EXCEPT ![id] = {g}]
    /\ UNCHANGED <<up, memory, branchOf, author, durable, writes>>

(* LayerManager::abort: SQLite deletes the layer's rows. *)
Abort(id) ==
    /\ up /\ stage[id] = "writing"
    /\ row' = [row EXCEPT ![id] = "none"]
    /\ lstate' = [lstate EXCEPT ![id] = "aborted"]
    /\ stage' = [stage EXCEPT ![id] = "idle"]
    /\ writes' = [writes EXCEPT ![id] = {}]
    /\ guards' = [guards EXCEPT ![id] = {}]
    /\ UNCHANGED <<up, next, branchOf, author, head, touched, highest,
                   rounds, origin, meta>>

(* A task that owns a layer ends without committing or aborting it: an     *)
(* early return on a storage error, or a round's task cancelled because a  *)
(* peer panicked.  The in-memory state is left where it was; a task that   *)
(* was waiting for commit_layer leaves a layer the blocking thread still   *)
(* makes visible.  An error of the fold that follows is ProjectFails.      *)
Abandon(id) ==
    /\ up
    /\ \/ stage[id] \in {"inserted", "writing", "valid", "stored", "recorded"}
       \/ stage[id] = "visible" /\ author[id] = "derived"
    /\ stage' = [stage EXCEPT ![id] = "idle"]
    /\ guards' = [guards EXCEPT ![id] = {}]
    /\ UNCHANGED <<up, next, lstate, branchOf, author, head, touched, highest,
                   rounds, durable, writes>>

-----------------------------------------------------------------------------
(* LayerManager::commit, one action per await *)

Seal(id) ==
    /\ up /\ stage[id] = "writing"
    /\ lstate[id] = "open"
    /\ lstate' = [lstate EXCEPT ![id] = "sealed"]
    /\ stage' = [stage EXCEPT ![id] = "sealing"]
    /\ UNCHANGED <<up, next, branchOf, author, guards, head, touched, highest,
                   rounds, durable, writes>>

(* check_guards; a violated guard aborts in storage and in memory. *)
Validate(id) ==
    /\ up /\ stage[id] = "sealing"
    /\ guards' = [guards EXCEPT ![id] = {}]
    /\ \/ /\ GuardsHold(id)
          /\ stage' = [stage EXCEPT ![id] = "valid"]
          /\ UNCHANGED <<row, lstate, writes>>
       \/ /\ ~GuardsHold(id)
          /\ row' = [row EXCEPT ![id] = "none"]
          /\ lstate' = [lstate EXCEPT ![id] = "aborted"]
          /\ stage' = [stage EXCEPT ![id] = "idle"]
          /\ writes' = [writes EXCEPT ![id] = {}]
    /\ UNCHANGED <<up, next, branchOf, author, head, touched, highest,
                   rounds, origin, meta>>

(* OpenLayer::seal: flush, then OPEN -> SEALED in the row. *)
StoreSeal(id) ==
    /\ up /\ stage[id] = "valid"
    /\ row' = [row EXCEPT ![id] = IF @ = "open" THEN "sealed" ELSE @]
    /\ stage' = [stage EXCEPT ![id] = "stored"]
    /\ UNCHANGED <<up, next, lstate, branchOf, author, guards, head, touched,
                   highest, rounds, origin, meta, writes>>

(* put_layer_meta, before the commit flips visibility. *)
StoreMeta(id) ==
    /\ up /\ stage[id] = "stored"
    /\ meta' = [meta EXCEPT ![id] = TRUE]
    /\ stage' = [stage EXCEPT ![id] = "recorded"]
    /\ UNCHANGED <<up, next, lstate, branchOf, author, guards, head, touched,
                   highest, rounds, origin, row, writes>>

(* commit_layer: one UPDATE makes every row of the layer visible. *)
StoreCommit(id) ==
    /\ up /\ stage[id] = "recorded"
    /\ row[id] = "sealed"
    /\ row' = [row EXCEPT ![id] = "committed"]
    /\ stage' = [stage EXCEPT ![id] = "visible"]
    /\ UNCHANGED <<up, next, lstate, branchOf, author, guards, head, touched,
                   highest, rounds, origin, meta, writes>>

\* Mutation: the head assigned unconditionally.
RaiseAlways(heads, id) == [heads EXCEPT ![branchOf[id]] = id]

(* The head moves up and never down, because layers commit out of order. *)
Raise(heads, id) ==
    [heads EXCEPT ![branchOf[id]] = IF id > @ THEN id ELSE @]

(* Sealed -> Committed and the head, under the state mutex. *)
Publish(id) ==
    /\ up /\ stage[id] = "visible"
    /\ lstate' = [lstate EXCEPT ![id] = "committed"]
    /\ head' = Raise(head, id)
    /\ stage' = [stage EXCEPT ![id] = "published"]
    /\ UNCHANGED <<up, next, branchOf, author, guards, touched, highest,
                   rounds, durable, writes>>

(* What CellTouchIndex::apply records of a layer: source layers only. *)
Touches(id) ==
    IF author[id] = "source" THEN {<<branchOf[id], c, id>> : c \in writes[id]} ELSE {}

(* Projections::committed, when the layer could be read back. *)
Project(id) ==
    /\ up /\ stage[id] = "published"
    /\ touched' = touched \cup Touches(id)
    /\ highest' = IF author[id] = "source" THEN Raise(highest, id) ELSE highest
    /\ stage' = [stage EXCEPT ![id] = "idle"]
    /\ UNCHANGED <<up, next, lstate, branchOf, author, guards, head, rounds,
                   durable, writes>>

(* Projections::committed reads a client's layer back from the store, and  *)
(* that can fail: commit() returns the error, the layer is visible and the *)
(* head raised, and no index of this process ever hears of it.             *)
ProjectFails(id) ==
    /\ up /\ stage[id] = "published"
    /\ author[id] = "source"
    /\ stage' = [stage EXCEPT ![id] = "unfolded"]
    /\ UNCHANGED <<up, next, lstate, branchOf, author, guards, head, touched,
                   highest, rounds, durable, writes>>

-----------------------------------------------------------------------------
(* Branches and rounds *)

(* BranchManager::fork.  Its callers name a head, a ceiling or a layer the *)
(* store lists, so the origin is a layer the log has on record.            *)
Fork(b, at) ==
    /\ up /\ ~Registered(b)
    /\ lstate[at] \in {"committed", "aborted"} /\ meta[at]
    /\ origin' = [origin EXCEPT ![b] = at]
    /\ UNCHANGED <<up, memory, branchOf, author, guards, row, meta, writes>>

\* Mutation: only an open layer stops the scan, a sealed one does not.
UnsettledIfOpen(id) == author[id] = "source" /\ lstate[id] = "open"

(* DerivationEngine::span scans upwards and stops at the first source      *)
(* layer in the table that has neither committed nor aborted; an id the    *)
(* table does not hold is stepped over.                                    *)
Unsettled(id) == author[id] = "source" /\ lstate[id] \in {"open", "sealed"}

InSpan(b, id) ==
    /\ branchOf[id] = b
    /\ lstate[id] = "committed"
    /\ id <= head[b]
    /\ \A lower \in 1..id : ~(branchOf[lower] = b /\ Unsettled(lower))

(* settle_span: the round branch is forked at the top of the range. *)
SpanFork(b, r) ==
    /\ up /\ ~Registered(r)
    /\ \E at \in LayerId :
          /\ InSpan(b, at)
          /\ \A above \in LayerId : InSpan(b, above) => above <= at
          /\ origin' = [origin EXCEPT ![r] = at]
    /\ \E id \in LayerId : InSpan(b, id) /\ author[id] = "source"
    /\ rounds' = rounds \cup {r}
    /\ UNCHANGED <<up, next, lstate, branchOf, author, guards, head, touched,
                   highest, stage, row, meta, writes>>

-----------------------------------------------------------------------------
(* Losing the process, and Registry::open *)

Crash ==
    /\ up
    /\ up' = FALSE
    /\ next' = 0
    /\ lstate' = [id \in LayerId |-> "absent"]
    /\ head' = [b \in Branch |-> 0]
    /\ touched' = {}
    /\ highest' = [b \in Branch |-> 0]
    /\ stage' = [id \in LayerId |-> "idle"]
    /\ rounds' = {}
    /\ guards' = [id \in LayerId |-> {}]
    /\ UNCHANGED <<branchOf, author, durable, writes>>

(* read_layers returns the rows whose meta is present, the state column    *)
(* deciding; restore aborts what did not commit and raises the heads; the  *)
(* sequencer resumes after the highest layer returned; bring_to_head folds *)
(* the committed layers into the touch index.                              *)
Listed == {id \in LayerId : meta[id]}

IsHighestOf(h, S) == \/ S = {} /\ h = 0
                     \/ h \in S /\ \A other \in S : other <= h

ResumeAfter(id) == id + 1

Reopen ==
    /\ ~up
    /\ up' = TRUE
    /\ \E h \in 0..MaxLayer : IsHighestOf(h, Listed) /\ next' = ResumeAfter(h)
    /\ lstate' = [id \in LayerId |->
                    IF ~meta[id] THEN "absent"
                    ELSE IF Visible(id) THEN "committed" ELSE "aborted"]
    /\ head' \in [Branch -> 0..MaxLayer]
    /\ \A b \in Branch :
          IsHighestOf(head'[b], {id \in Listed : Visible(id) /\ branchOf[id] = b})
    /\ touched' = UNION {Touches(id) : id \in {l \in Listed : Visible(l)}}
    /\ highest' \in [Branch -> 0..MaxLayer]
    /\ \A b \in Branch :
          IsHighestOf(highest'[b], {id \in Listed : /\ Visible(id) /\ branchOf[id] = b
                                                    /\ author[id] = "source"})
    /\ UNCHANGED <<branchOf, author, guards, stage, rounds, durable, writes>>

-----------------------------------------------------------------------------
Init ==
    /\ up = TRUE
    /\ next = 1
    /\ lstate = [id \in LayerId |-> "absent"]
    /\ branchOf = [id \in LayerId |-> Root]
    /\ author = [id \in LayerId |-> "source"]
    /\ guards = [id \in LayerId |-> {}]
    /\ head = [b \in Branch |-> 0]
    /\ touched = {}
    /\ highest = [b \in Branch |-> 0]
    /\ stage = [id \in LayerId |-> "idle"]
    /\ rounds = {}
    /\ origin = [b \in Branch |-> 0]
    /\ row = [id \in LayerId |-> "none"]
    /\ meta = [id \in LayerId |-> FALSE]
    /\ writes = [id \in LayerId |-> {}]

HandleStep(id) ==
    \/ OpenInsert(id)
    \/ StoreOpen(id)
    \/ \E c \in Cell : Put(id, c)
    \/ \E g \in Guard : AddGuard(id, g)
    \/ Abort(id)
    \/ Abandon(id)
    \/ Seal(id)
    \/ Validate(id)
    \/ StoreSeal(id)
    \/ StoreMeta(id)
    \/ StoreCommit(id)
    \/ Publish(id)
    \/ Project(id)
    \/ ProjectFails(id)

Next ==
    \/ \E b \in Branch, a \in Author : Open(b, a) \/ OpenReserve(b, a)
    \/ \E id \in LayerId : HandleStep(id)
    \/ \E b \in Branch, at \in LayerId : Fork(b, at)
    \/ \E b, r \in Branch : SpanFork(b, r)
    \/ Crash
    \/ Reopen

Spec == Init /\ [][Next]_vars

-----------------------------------------------------------------------------
(* Properties *)

(* Every variable keeps its shape, and the sequencer of a running process  *)
(* has a next id to give, at most one past the bound (seams.rs).           *)
TypeOK ==
    /\ up \in BOOLEAN
    /\ next \in 0..(MaxLayer + 1) /\ (up => next > 0)
    /\ lstate \in [LayerId -> LayerState]
    /\ branchOf \in [LayerId -> Branch]
    /\ author \in [LayerId -> Author]
    /\ guards \in [LayerId -> SUBSET Guard]
    /\ head \in [Branch -> 0..MaxLayer]
    /\ touched \subseteq Branch \X Cell \X LayerId
    /\ highest \in [Branch -> 0..MaxLayer]
    /\ stage \in [LayerId -> Stage]
    /\ rounds \subseteq Branch
    /\ origin \in [Branch -> 0..MaxLayer]
    /\ row \in [LayerId -> {"none", "open", "sealed", "committed"}]
    /\ meta \in [LayerId -> BOOLEAN]
    /\ writes \in [LayerId -> SUBSET Cell]

(* The head of a branch is the highest layer committed on it, although     *)
(* ids are assigned at open and layers commit in any order (log.rs:466,    *)
(* SPEC 7.3): it bounds every read path and every producer's work gap.     *)
HeadIsHighest ==
    up => \A b \in Branch :
        /\ \A id \in LayerId : (lstate[id] = "committed" /\ branchOf[id] = b) => id <= head[b]
        /\ head[b] # 0 => lstate[head[b]] = "committed" /\ branchOf[head[b]] = b

(* A layer never becomes visible without the log knowing what it is        *)
(* (log.rs:459): whatever the crash, a reopened process lists every        *)
(* visible layer, and holds as committed only what is visible.             *)
VisibleIsListed ==
    \A id \in LayerId :
        /\ Visible(id) => meta[id]
        /\ lstate[id] = "committed" => Visible(id)
        /\ lstate[id] = "aborted" => ~Visible(id)

(* The touch index is exactly the fold of the client layers whose commit   *)
(* returned their id, in this process or before it was opened, whether it  *)
(* was fed one commit at a time or rebuilt at open (touch.rs,              *)
(* projection.rs).  A layer that is visible although its commit returned   *)
(* an error from the fold (log.rs:493) is in the store, under the head and *)
(* not in the index, until the registry is opened again.                   *)
TouchIndexIsTheFold ==
    up => touched = {t \in Branch \X Cell \X LayerId :
                        /\ lstate[t[3]] = "committed" /\ stage[t[3]] = "idle"
                        /\ author[t[3]] = "source"
                        /\ branchOf[t[3]] = t[1] /\ t[2] \in writes[t[3]]}

(* The shortcut a round's merge takes is sound (touch.rs:61, branch.rs     *)
(* merge_round): when moved_since says nothing landed since the round      *)
(* forked, no cell of its parent's path was touched since then.            *)
ShortcutIsSound ==
    \A r \in rounds : \A c \in Cell :
        LET path == ReadPath(branchOf[origin[r]])
        IN TouchedSince(path, c, origin[r]) => MovedSince(path, origin[r])

(* What a guard is judged by is right: the touch index holds what the       *)
(* layers whose commit succeeded touched, and nothing else, and the         *)
(* shortcut never hides any of it (touch.rs, rebuilt at open and fed after  *)
(* a commit is visible).  What a failed fold leaves out (log.rs:493) the    *)
(* index and the shortcut leave out together.                               *)
IndexIsSound == TouchIndexIsTheFold /\ ShortcutIsSound

(* A guard that passes at seal is true (log.rs:445): no client layer whose *)
(* commit had succeeded by then, on the guarded layer's own branch and     *)
(* above the guard's `since`, wrote the guarded cell.  Not so of a layer   *)
(* whose commit failed in the fold (log.rs:493): until the registry is     *)
(* opened again a guard over a cell it wrote passes and is not true.       *)
PassedGuardsAreTrue ==
    [][\A id, other \in LayerId : \A g \in guards[id] :
          (stage[id] = "sealing" /\ stage'[id] = "valid") =>
              ~ /\ lstate[other] = "committed" /\ stage[other] = "idle"
                /\ author[other] = "source" /\ branchOf[other] = branchOf[id]
                /\ other > g.since /\ g.cell \in writes[other]]_vars

(* What a reader of the store sees. *)
LandedLayers ==
    {[id |-> id, branch |-> branchOf[id], holds |-> writes[id]] :
        id \in {l \in LayerId : Visible(l)}}

Landed == INSTANCE AtomicLog WITH
              Id <- LayerId, Place <- Branch, Item <- Cell, landed <- LandedLayers

(* Through every interleaving of commits, every abort, crash and reopen,   *)
(* the store behaves as one in which layers appear whole, one at a time,   *)
(* and stay as they are (SPEC 6.2, log.rs commit and restore).             *)
LandsAtomically == Landed!Spec

(* The client layers a round can read below its fork point, on the branch  *)
(* it forked from.                                                         *)
RoundSnapshot(r) ==
    {id \in LayerId : /\ Visible(id) /\ author[id] = "source"
                      /\ branchOf[id] = branchOf[origin[r]]
                      /\ id <= origin[r]}

(* The fork point of a round is a snapshot (derive.rs:577): no client      *)
(* layer that commits later appears in the round's read path below it.     *)
RoundSnapshotStable ==
    [][\A r \in rounds : r \in rounds' => RoundSnapshot(r)' = RoundSnapshot(r)]_vars

(* The same of everything the round reads, inherited layers included.      *)
RoundWorld(r) ==
    LET from == branchOf[origin[r]]
        path == <<[branch |-> from, bound |-> origin[r]]>> \o Ancestry[from]
    IN {id \in LayerId : /\ Visible(id) /\ author[id] = "source"
                         /\ \E i \in DOMAIN path : /\ branchOf[id] = path[i].branch
                                                   /\ id <= path[i].bound}

(* Everything a round reads is a snapshot (derive.rs:577): no client layer *)
(* appears in the round's read path once it has forked, on whichever       *)
(* branch of the path it lands.                                            *)
RoundWorldStable ==
    [][\A r \in rounds : r \in rounds' => RoundWorld(r)' = RoundWorld(r)]_vars

(* No id is handed out twice (registry.rs:116): the row of a layer that is *)
(* being opened does not exist yet.                                        *)
OpenedIdsAreFresh ==
    \A id \in LayerId : stage[id] = "inserted" => row[id] = "none"

-----------------------------------------------------------------------------
(* The inductive invariant behind the theorems of LayerLogProofs *)

(* The table, the row and the task that owns a layer agree on how far it   *)
(* has got; nobody owns anything while the process is down.                *)
LayerAgrees(id) ==
    /\ stage[id] \in {"inserted", "writing"} => lstate[id] = "open"
    /\ stage[id] \in {"sealing", "valid", "stored", "recorded", "visible"}
          => lstate[id] = "sealed"
    /\ stage[id] \in {"published", "unfolded"} => lstate[id] = "committed"
    /\ stage[id] = "recorded" => meta[id]
    /\ stage[id] = "reserved" => author[id] \in Preempted /\ lstate[id] = "absent"
    /\ Visible(id) /\ up
          => \/ lstate[id] = "committed"
             \/ lstate[id] = "sealed" /\ stage[id] = "visible"
             \/ lstate[id] = "sealed" /\ stage[id] = "idle" /\ author[id] = "derived"
    /\ stage[id] = "visible" => Visible(id)
    /\ ~up => stage[id] = "idle" /\ lstate[id] = "absent"

StagesAgree == \A id \in LayerId : LayerAgrees(id)

(* The sequencer is past every id anything is known about. *)
SequenceAhead ==
    up => \A id \in LayerId : id >= next =>
              /\ stage[id] = "idle" /\ lstate[id] = "absent"
              /\ ~meta[id]

(* Below a round's fork point no client layer is still on its way. *)
RoundsSettled ==
    \A r \in rounds :
        /\ up /\ origin[r] \in LayerId
        /\ lstate[origin[r]] = "committed"
        /\ \A id \in LayerId :
              (id <= origin[r] /\ branchOf[id] = branchOf[origin[r]]) => ~Unsettled(id)

(* The inductive invariant of the log: through every open, commit, abort,  *)
(* crash and reopen (log.rs, registry.rs) the table, the rows and the      *)
(* owners agree, the sequencer is ahead, and heads and rounds are right.   *)
LogInv == /\ TypeOK
          /\ StagesAgree
          /\ SequenceAhead
          /\ VisibleIsListed
          /\ HeadIsHighest
          /\ "source" \notin Preempted => RoundsSettled

=============================================================================
