---------------------------- MODULE Transactions ----------------------------
(***************************************************************************)
(* Client transactions over one branch: begin, read, write, create,        *)
(* commit, abort, and the sweep of idle ones, with the table of open       *)
(* transactions kept in a file beside the store.                           *)
(*                                                                         *)
(* Code: borg-host/src/ops.rs (tx_*, reap_transactions, Allocations),      *)
(* sidecar.rs, borg-core/src/transaction.rs (Transaction), borg-engine     *)
(* branch.rs (merge_transaction, replay), write.rs (WriteSession).         *)
(*                                                                         *)
(* The gate of host.rs runs one request of a registry at a time, so `op`   *)
(* is the request in progress.  A request is cut into actions where it     *)
(* makes something durable: the process can die between two of them.       *)
(* A position on `trunk` stands for a layer id of the parent branch; a     *)
(* layer of a transaction branch is an element of child[b].layers.         *)
(***************************************************************************)
EXTENDS Naturals, Sequences, FiniteSets, SequencesExt

CONSTANTS
    Scenarios    \* the bounds of the instances to check, one of them to a behaviour

(* Of a scenario: the objects a client may address without creating them, the  *)
(* bounds on handles, transaction branches, layers of one such branch, layers  *)
(* of the parent, allocated ids and the clock, tx_idle_timeout, the cap        *)
(* REMEMBERED_TRANSACTIONS, whether the process may die or the storage fail in *)
(* a request, and which of the files beside the store std::fs::write may leave *)
(* truncated: the table, the counter of object ids, the pause flags.           *)
ASSUME TxAssumption ==
    \A s \in Scenarios :
        /\ {s.maxTx, s.maxFork, s.maxWrite, s.maxTrunk, s.maxAlloc} \subseteq Nat
        /\ {s.maxTime, s.timeout, s.remembered} \subseteq Nat
        /\ s.remembered > 0
        /\ s.faults \in BOOLEAN /\ s.torn \subseteq {"table", "counter", "pauses"}
        /\ s.torn # {} => s.faults
        /\ s.named \cap (1..s.maxAlloc) = {}

VARIABLES
    trunk,    \* layers of the parent: [by, n, w], w from cells to Written
    child,    \* transaction branches: [fork, layers], layers a sequence of w
    paused,   \* transaction branches whose derivation is paused
    table,    \* the transactions sidecar: [next, open, spent]
    alloc,    \* the allocations sidecar: next object id
    op,       \* the request holding the gate
    now,      \* the clock
    issued,   \* history: handles clients were given
    saw,      \* history: cells a client was shown as the parent had them
    lastUse,  \* history: when a client asked what it last had an answer to
    scenario  \* the bounds of this behaviour

store   == <<trunk, child>>
history == <<issued, saw, lastUse>>
vars    == <<store, paused, table, alloc, op, now, history, scenario>>

Named      == scenario.named
MaxTx      == scenario.maxTx
MaxFork    == scenario.maxFork
MaxWrite   == scenario.maxWrite
MaxTrunk   == scenario.maxTrunk
MaxAlloc   == scenario.maxAlloc
MaxTime    == scenario.maxTime
Timeout    == scenario.timeout
Remembered == scenario.remembered
Faults     == scenario.faults
TornTable   == "table" \in scenario.torn
TornCounter == "counter" \in scenario.torn
TornPauses  == "pauses" \in scenario.torn

Object    == Named \cup 1..MaxAlloc
Cell      == {"exists", "prop"} \X Object
Exists(c) == <<"exists", c[2]>>     \* CellRef::existence_of
Handle    == 1..MaxTx
Fork      == 1..MaxFork
Written   == {"value", "tombstone"}
Fate      == {"committed", "aborted", "expired"}

Entry == [id : Handle, branch : Fork, fork : Nat, touched : 0..MaxTime,
          reads : SUBSET Cell, writes : SUBSET Cell]

Idle         == [kind |-> "none"]
DefaultTable == [next |-> 1, open |-> <<>>, spent |-> <<>>]
Nobody       == 0      \* the author of the layer the trunk starts with

-----------------------------------------------------------------------------
(* The table *)

(* transaction_index, and what it finds. *)
Known(t, h)   == \E e \in ToSet(t.open) : e.id = h
EntryOf(t, h) == CHOOSE e \in ToSet(t.open) : e.id = h

(* Vec::retain: the wanted elements, in the order they were in. *)
Retained(s, wanted) ==
    LET kept[n \in 0..Len(s)] ==
            IF n = 0 THEN <<>>
            ELSE IF s[n] \in wanted THEN Append(kept[n - 1], s[n]) ELSE kept[n - 1]
    IN kept[Len(s)]

Without(t, h)  == [t EXCEPT !.open = Retained(@, {e \in ToSet(@) : e.id # h})]
With(t, h, e)  == [t EXCEPT !.open = [i \in DOMAIN @ |-> IF @[i].id = h THEN e ELSE @[i]]]

\* Mutation: the cap forgets the newest fate instead of the oldest.
RememberFirst(spent) == SubSeq(spent, 1, IF Len(spent) > Remembered THEN Remembered ELSE Len(spent))

(* retire: the last Remembered fates are kept. *)
Remember(spent) ==
    SubSeq(spent, IF Len(spent) > Remembered THEN Len(spent) - Remembered + 1 ELSE 1, Len(spent))

Retire(t, h, fate) ==
    [Without(t, h) EXCEPT !.spent = Remember(Append(t.spent, [id |-> h, fate |-> fate]))]

Expiring(t) == {e \in ToSet(t.open) : now - e.touched > Timeout}

(* reap_transactions, which every request runs first. *)
Swept(t) ==
    LET dead == Retained(t.open, Expiring(t))
    IN [t EXCEPT !.open  = Retained(@, ToSet(@) \ Expiring(t)),
                 !.spent = Remember(@ \o [i \in DOMAIN dead |->
                                            [id |-> dead[i].id, fate |-> "expired"]])]

Unpaused(t) == paused \ {e.branch : e \in Expiring(t)}

-----------------------------------------------------------------------------
(* Reads and writes through a transaction *)

OwnWrites(b) == UNION {DOMAIN child[b].layers[k] : k \in DOMAIN child[b].layers}

(* get_cell(...).is_some() on the transaction's read path: its own layers, *)
(* then the parent up to the fork point.  A tombstone is a record.         *)
HasRecord(b, c) ==
    \/ c \in OwnWrites(b)
    \/ \E i \in 1..child[b].fork : c \in DOMAIN trunk[i].w

(* Transaction::observe: a read of a cell already written is not recorded. *)
Observe(e, c) == IF c \in e.writes THEN e ELSE [e EXCEPT !.reads = @ \cup {c}]

\* Mutation: the writes drained before the reads.
AbsorbWritesFirst(e, reads, writes) ==
    [e EXCEPT !.reads = @ \cup (reads \ (e.writes \cup writes)), !.writes = @ \cup writes]

(* absorb: the session's reads first, then its writes. *)
Absorb(e, reads, writes) ==
    [e EXCEPT !.reads = @ \cup (reads \ e.writes), !.writes = @ \cup writes]

\* Mutation: use is not recorded.
TouchNever(e, at) == e

Touch(e, at) == [e EXCEPT !.touched = at]

(* What a client can name: a shorthand, or an id a creation has taken. *)
Addressable(c) ==
    \/ c[2] \in Named \/ c[2] < alloc
    \/ \E b \in DOMAIN child : Exists(c) \in OwnWrites(b)

(* WriteSession::set by a client: a property implies its object's          *)
(* existence, which it probes first; an explicit existence write does not. *)
SessionReads(c) == IF c = Exists(c) THEN {} ELSE {Exists(c)}

SessionWrites(b, c, v) ==
    LET implied == {e \in SessionReads(c) : ~HasRecord(b, e)}
    IN [w \in {c} \cup implied |-> IF w = c THEN v ELSE "value"]

-----------------------------------------------------------------------------
(* Requests *)

Answered(h, asked) == lastUse' = [lastUse EXCEPT ![h] = asked]

(* A request that gets no further than the sweep: the transaction it names *)
(* is not open, or the request was rejected or died before it wrote.       *)
SweepOnly ==
    /\ op = Idle
    /\ table' = Swept(table) /\ paused' = Unpaused(table)
    /\ UNCHANGED <<store, alloc, op, now, history, scenario>>

\* Mutation: the pause flag forgotten.
TxBeginUnpaused ==
    /\ op = Idle
    /\ Len(child) < MaxFork /\ table.next <= MaxTx
    /\ table' = Swept(table)
    /\ child' = Append(child, [fork |-> Len(trunk), layers |-> <<>>])
    /\ paused' = Unpaused(table)
    /\ op' = [kind |-> "begin", branch |-> Len(child) + 1, asked |-> now]
    /\ UNCHANGED <<trunk, alloc, now, history, scenario>>

(* tx_begin: the fork and its pause flag are durable before the table is. *)
TxBegin ==
    /\ op = Idle
    /\ Len(child) < MaxFork /\ table.next <= MaxTx
    /\ table' = Swept(table)
    /\ child' = Append(child, [fork |-> Len(trunk), layers |-> <<>>])
    /\ paused' = Unpaused(table) \cup {Len(child) + 1}
    /\ op' = [kind |-> "begin", branch |-> Len(child) + 1, asked |-> now]
    /\ UNCHANGED <<trunk, alloc, now, history, scenario>>

TxBeginSave ==
    /\ op.kind = "begin"
    /\ LET h == table.next IN
       /\ table' = [table EXCEPT !.next = @ + 1,
                                 !.open = Append(@, [id |-> h, branch |-> op.branch,
                                              fork |-> child[op.branch].fork, touched |-> now,
                                              reads |-> {}, writes |-> {}])]
       /\ issued' = issued \cup {h}
       /\ Answered(h, op.asked)
    /\ op' = Idle
    /\ UNCHANGED <<store, paused, alloc, now, saw, scenario>>

(* tx_get: recorded whether or not the cell held anything. *)
TxGet(h, c) ==
    /\ op = Idle
    /\ Known(Swept(table), h) /\ Addressable(c)
    /\ LET e == EntryOf(table, h) IN
       /\ table' = With(Swept(table), h, Touch(Observe(e, c), now))
       /\ saw' = [saw EXCEPT ![h] = IF c \in OwnWrites(e.branch) THEN @ ELSE @ \cup {c}]
    /\ paused' = Unpaused(table)
    /\ Answered(h, now)
    /\ UNCHANGED <<store, alloc, op, now, issued, scenario>>

(* tx_set, up to session.commit: the transaction is stamped as used before *)
(* its layer is committed.  The entry that was stamped and has absorbed    *)
(* the session is a local of the request until save_transactions.          *)
TxSet(h, c, v) ==
    /\ op = Idle
    /\ Known(Swept(table), h) /\ Addressable(c)
    /\ LET b == EntryOf(table, h).branch
       IN /\ Len(child[b].layers) < MaxWrite
          /\ op' = [kind |-> "write", tx |-> h, layer |-> SessionWrites(b, c, v),
                    reads |-> SessionReads(c), parents |-> SessionReads(c) \ OwnWrites(b),
                    asked |-> now, at |-> now]
    /\ table' = Swept(table) /\ paused' = Unpaused(table)
    /\ UNCHANGED <<store, alloc, now, history, scenario>>

\* Mutation: the counter is not saved.
TxCreateUnsaved(h) ==
    /\ op = Idle
    /\ Known(Swept(table), h)
    /\ alloc <= MaxAlloc
    /\ Len(child[EntryOf(table, h).branch].layers) < MaxWrite
    /\ op' = [kind |-> "create", tx |-> h, object |-> alloc, asked |-> now]
    /\ table' = Swept(table) /\ paused' = Unpaused(table)
    /\ UNCHANGED <<store, alloc, now, history, scenario>>

(* tx_create: the counter is saved before the id is used. *)
TxCreate(h) ==
    /\ op = Idle
    /\ Known(Swept(table), h)
    /\ alloc <= MaxAlloc
    /\ Len(child[EntryOf(table, h).branch].layers) < MaxWrite
    /\ alloc' = alloc + 1
    /\ op' = [kind |-> "create", tx |-> h, object |-> alloc, asked |-> now]
    /\ table' = Swept(table) /\ paused' = Unpaused(table)
    /\ UNCHANGED <<store, now, history, scenario>>

(* The rest of tx_create up to session.commit: the existence cell alone, *)
(* stamped as in tx_set.                                                 *)
TxCreateSet ==
    /\ op.kind = "create"
    /\ LET c == <<"exists", op.object>> IN
       op' = [kind |-> "write", tx |-> op.tx, layer |-> [w \in {c} |-> "value"],
              reads |-> {}, parents |-> {}, asked |-> op.asked, at |-> now]
    /\ UNCHANGED <<store, paused, table, alloc, now, history, scenario>>

(* session.commit: the layer is on the transaction's branch. *)
SessionCommit ==
    /\ op.kind = "write"
    /\ child' = [child EXCEPT ![EntryOf(table, op.tx).branch].layers = Append(@, op.layer)]
    /\ op' = [op EXCEPT !.kind = "save"]
    /\ UNCHANGED <<trunk, paused, table, alloc, now, history, scenario>>

(* save_transactions at the end of tx_set and tx_create, and the answer:   *)
(* what is saved is the stamp taken before the commit.                     *)
TxSave ==
    /\ op.kind = "save"
    /\ table' = With(table, op.tx,
                     Touch(Absorb(EntryOf(table, op.tx), op.reads, DOMAIN op.layer), op.at))
    /\ saw' = [saw EXCEPT ![op.tx] = @ \cup op.parents]
    /\ Answered(op.tx, op.asked)
    /\ op' = Idle
    /\ UNCHANGED <<store, paused, alloc, now, issued, scenario>>

-----------------------------------------------------------------------------
(* tx_commit: BranchManager::replay *)

(* check_reads over the transaction's guards, since the fork point. *)
ReadsMoved(e) ==
    \E i \in (e.fork + 1)..Len(trunk) : DOMAIN trunk[i].w \cap e.reads # {}

(* check_dangling: a property of an object the parent has since deleted. *)
Dangling(e) ==
    \E c \in OwnWrites(e.branch) : c # Exists(c) /\
        LET at == {i \in 1..Len(trunk) : Exists(c) \in DOMAIN trunk[i].w}
        IN \E i \in at : /\ \A j \in at : j <= i
                         /\ i > e.fork
                         /\ trunk[i].w[Exists(c)] = "tombstone"

\* Mutation: the deletion of the object goes unnoticed.
MayLandDangling(e) == ~ReadsMoved(e)

MayLand(e) == ~ReadsMoved(e) /\ ~Dangling(e)

(* A rejected commit keeps the transaction open and counts as use. *)
TxCommit(h) ==
    /\ op = Idle
    /\ Known(Swept(table), h)
    /\ LET e == EntryOf(table, h) IN
       \/ /\ MayLand(e)
          /\ Len(trunk) + Len(child[e.branch].layers) <= MaxTrunk
          /\ op' = [kind |-> "land", tx |-> h, k |-> 1, asked |-> now]
          /\ table' = Swept(table)
          /\ UNCHANGED lastUse
       \/ /\ ~MayLand(e)
          /\ table' = With(Swept(table), h, Touch(e, now))
          /\ Answered(h, now)
          /\ UNCHANGED op
    /\ paused' = Unpaused(table)
    /\ UNCHANGED <<store, alloc, now, issued, saw, scenario>>

Layers(h) == child[EntryOf(table, h).branch].layers

(* One parent layer for each layer of the transaction, oldest first. *)
Land ==
    /\ op.kind = "land" /\ op.k <= Len(Layers(op.tx))
    /\ trunk' = Append(trunk, [by |-> EntryOf(table, op.tx).branch, n |-> op.k,
                               w |-> Layers(op.tx)[op.k]])
    /\ op' = [op EXCEPT !.k = @ + 1]
    /\ UNCHANGED <<child, paused, table, alloc, now, history, scenario>>

(* A storage error before a layer lands is reported as a rejection, and    *)
(* the transaction is stamped then.  An error after it is visible, in the  *)
(* fold (log.rs:493), is LayerLog's; the guards here see what has landed.  *)
LandFails ==
    /\ Faults
    /\ op.kind = "land" /\ op.k <= Len(Layers(op.tx))
    /\ table' = With(table, op.tx, Touch(EntryOf(table, op.tx), now))
    /\ Answered(op.tx, op.asked)
    /\ op' = Idle
    /\ UNCHANGED <<store, paused, alloc, now, issued, saw, scenario>>

(* Every layer has landed: the handle is retired, the pause flag dropped. *)
TxCommitSave ==
    /\ op.kind = "land" /\ op.k > Len(Layers(op.tx))
    /\ table' = Retire(table, op.tx, "committed")
    /\ paused' = paused \ {EntryOf(table, op.tx).branch}
    /\ Answered(op.tx, op.asked)
    /\ op' = Idle
    /\ UNCHANGED <<store, alloc, now, issued, saw, scenario>>

TxAbort(h) ==
    /\ op = Idle
    /\ Known(Swept(table), h)
    /\ table' = Retire(Swept(table), h, "aborted")
    /\ paused' = Unpaused(table) \ {EntryOf(table, h).branch}
    /\ Answered(h, now)
    /\ UNCHANGED <<store, alloc, op, now, issued, saw, scenario>>

-----------------------------------------------------------------------------
Tick ==
    /\ now < MaxTime
    /\ now' = now + 1
    /\ UNCHANGED <<store, paused, table, alloc, op, history, scenario>>

(* The process dies, or the request fails, between two durable steps, and  *)
(* the next one finds the store, the table and the counter as they were    *)
(* left.                                                                   *)
Crash ==
    /\ Faults /\ op # Idle
    /\ op' = Idle
    /\ UNCHANGED <<store, paused, table, alloc, now, history, scenario>>

(* It dies, or the disk is full, while the table is rewritten in place:    *)
(* the file does not parse, and sidecar::load answers the default.         *)
CrashInSave ==
    /\ TornTable
    /\ table.open # <<>> \/ op.kind = "begin"
    /\ table' = DefaultTable
    /\ op' = Idle
    /\ UNCHANGED <<store, paused, alloc, now, history, scenario>>

(* The same of the counter, which every creation rewrites: it starts over. *)
CrashInAllocate(h) ==
    /\ TornCounter
    /\ op = Idle
    /\ Known(Swept(table), h)
    /\ alloc' = 1
    /\ table' = Swept(table) /\ paused' = Unpaused(table)
    /\ UNCHANGED <<store, op, now, history, scenario>>

(* The same of the pause flags, rewritten whenever one is set or dropped. *)
CrashInPause ==
    /\ TornPauses
    /\ paused # {}
    /\ paused' = {}
    /\ op' = Idle
    /\ UNCHANGED <<store, table, alloc, now, history, scenario>>

Init ==
    /\ scenario \in Scenarios
    /\ trunk = <<[by |-> Nobody, n |-> 1, w |-> [c \in {} |-> "value"]]>>
    /\ child = <<>>
    /\ paused = {}
    /\ table = DefaultTable
    /\ alloc = 1
    /\ op = Idle
    /\ now = 0
    /\ issued = {}
    /\ saw = [h \in Handle |-> {}]
    /\ lastUse = [h \in Handle |-> 0]

Next ==
    \/ SweepOnly \/ TxBegin \/ TxBeginSave
    \/ \E h \in Handle, c \in Cell : TxGet(h, c)
    \/ \E h \in Handle, c \in Cell, v \in Written : TxSet(h, c, v)
    \/ \E h \in Handle : TxCreate(h) \/ TxCommit(h) \/ TxAbort(h)
    \/ TxCreateSet \/ SessionCommit \/ TxSave \/ Land \/ LandFails \/ TxCommitSave
    \/ Tick \/ Crash \/ CrashInSave \/ CrashInPause
    \/ \E h \in Handle : CrashInAllocate(h)

Spec == Init /\ [][Next]_vars

-----------------------------------------------------------------------------
(* Properties *)

Layer == UNION {[W -> Written] : W \in SUBSET Cell}

(* Every variable has its shape; no handle is open twice, and the memory of  *)
(* spent handles never outgrows its cap.                                     *)
TypeOK ==
    /\ \A i \in DOMAIN trunk : /\ trunk[i].by \in Fork \cup {Nobody}
                               /\ trunk[i].n \in 1..(MaxWrite + 1)
                               /\ DOMAIN trunk[i].w \subseteq Cell
    /\ Len(child) <= MaxFork
    /\ \A b \in DOMAIN child : /\ child[b].fork \in 1..Len(trunk)
                               /\ \A k \in DOMAIN child[b].layers : child[b].layers[k] \in Layer
    /\ paused \subseteq 1..Len(child)
    /\ table.next \in 1..(MaxTx + 1)
    /\ \A i \in DOMAIN table.open : table.open[i] \in Entry
    /\ \A i, j \in DOMAIN table.open : table.open[i].id = table.open[j].id => i = j
    /\ Len(table.spent) <= Remembered
    /\ \A i \in DOMAIN table.spent : table.spent[i] \in [id : Handle, fate : Fate]
    /\ alloc \in 1..(MaxAlloc + 1)
    /\ op.kind \in {"none", "begin", "create", "write", "save", "land"}
    /\ now \in 0..MaxTime
    /\ issued \subseteq Handle

(* Another transaction put one of these cells on the parent after e forked. *)
MovedByOthers(e, cells) ==
    \E i \in (e.fork + 1)..Len(trunk) :
        trunk[i].by # e.branch /\ DOMAIN trunk[i].w \cap cells # {}

Landing(h) == op.kind = "land" /\ op.tx = h /\ Len(trunk') > Len(trunk)

(* No transaction lands on a parent that has moved under what its client   *)
(* read (SPEC 12.1): reads made before a write of the same cell, reads     *)
(* that found nothing and existence probes included, however the process   *)
(* was restarted in between, unless the table itself was torn.             *)
ReadsStillTrue ==
    [][~TornTable => \A h \in Handle : Landing(h) => ~MovedByOthers(EntryOf(table, h), saw[h])]_vars

(* A property never lands on an object the parent deleted after the fork   *)
(* (SPEC 13, check_dangling).                                              *)
NothingDangles ==
    [][\A h \in Handle : (Landing(h) /\ op.k = 1) =>
          \A c \in OwnWrites(EntryOf(table, h).branch) : \A i \in DOMAIN trunk :
              ~ /\ c # Exists(c) /\ i > EntryOf(table, h).fork
                /\ Exists(c) \in DOMAIN trunk[i].w /\ trunk[i].w[Exists(c)] = "tombstone"
                /\ \A j \in (i + 1)..Len(trunk) : Exists(c) \notin DOMAIN trunk[j].w]_vars

LandedOf(b) == {i \in DOMAIN trunk : trunk[i].by = b}

(* A transaction that is still open, its commit never tried or rejected,   *)
(* has left no trace on the parent (branch.rs:181, SPEC 13), as long as no *)
(* request dies or fails half way.                                         *)
OpenHasNotLanded ==
    ~Faults /\ op = Idle => \A i \in DOMAIN table.open : LandedOf(table.open[i].branch) = {}

(* A handle names one transaction for ever (ops.rs:597), across deaths of  *)
(* the process that do not tear the table.                                 *)
HandleIsNew ==
    (~TornTable /\ op.kind = "begin" /\ table'.next > table.next) => table.next \notin issued

Spent(t, h) == \E i \in DOMAIN t.spent : t.spent[i].id = h

(* A transaction that ends leaves word of how (SPEC 12.3, ops.rs:736),     *)
(* unless so many ended in the same sweep that the memory is full of them. *)
FateIsTold ==
    [][~TornTable => \A h \in Handle : (Known(table, h) /\ ~Known(table', h)) =>
          \/ Spent(table', h)
          \/ /\ Len(table'.spent) = Remembered
             /\ \A i \in DOMAIN table'.spent : Known(table, table'.spent[i].id)]_vars

(* Only silence is reaped (SPEC 12.3): no transaction expires within the   *)
(* timeout of when its client asked what it last had an answer to,         *)
(* whichever request that was.  Not of when it had the answer: a write is  *)
(* stamped before its layer is committed (ops.rs:882, 995), so the time    *)
(* the commit takes counts as idle.                                        *)
ReapedWereIdle ==
    [][\A h \in Handle : (Known(table, h) /\ \E i \in DOMAIN table'.spent :
                              table'.spent[i] = [id |-> h, fate |-> "expired"])
          => now - lastUse[h] > Timeout]_vars

(* Derivation is paused on the branch of every open transaction and of no  *)
(* ended one (SPEC 12), whichever way it ended, as long as no request dies *)
(* half way.                                                               *)
PausedWhileOpen ==
    ~Faults /\ op = Idle => paused = {table.open[i].branch : i \in DOMAIN table.open}

(* An allocated object is new (ops.rs:899): no transaction has written the *)
(* existence cell of the id a creation has just been given, unless the     *)
(* file that counts was torn (sidecar.rs:50): it is rewritten in place,    *)
(* and what cannot be read starts from 1 again (ops.rs:921).               *)
AllocatedIsFresh ==
    (~TornCounter /\ op.kind = "create") =>
        \A b \in DOMAIN child : <<"exists", op.object>> \notin OwnWrites(b)

(* Between requests the tables and the store agree: an open transaction has *)
(* left no trace and its branch is paused, and nothing else is (SPEC 12).   *)
TxInv == TypeOK /\ OpenHasNotLanded /\ PausedWhileOpen

(* No name is given out twice, neither a handle nor the id of an object     *)
(* (ops.rs:597 and 899), through deaths of the process at any point but one *)
(* inside the write of the very file that counts (sidecar.rs:50): a torn    *)
(* table costs the handles, a torn counter the object ids, and each leaves  *)
(* the other's promise standing.                                            *)
NothingReused ==
    [][HandleIsNew /\ AllocatedIsFresh']_vars

=============================================================================
