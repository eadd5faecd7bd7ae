# A verification project for borg

borg is a typed, branching, log-structured store with *producers*: user programs that derive
cells from other cells and are re-run when what they read changes. Clients write *source* layers; the
engine turns them into *derived* layers. This directory holds TLA+ models of the program, the TLC
configurations that check them, and TLAPS proofs about eight of the models.

    LayerLog.tla         the log of layers: opening, committing, crashing, reopening
    AtomicLog.tla        what the log promises a reader
    LayerLogProofs.tla   theorems about LayerLog and its touch index, checked by tlapm
    Transactions.tla     client transactions and the sidecar files they live in
    TransactionsProofs.tla  theorems about Transactions
    Derivation.tla       the derivation engine: rounds, waves, partial merge, recovery
    DerivationProofs.tla theorems about Derivation
    Resolve.tla          reads: freshness, validation, inline computation, waiting
    ResolveProofs.tla    theorems about Resolve
    Definitions.tla      definitions, versions, migrations, repo push, schema merges
    DefinitionsProofs.tla  theorems about Definitions
    Stream.tla           export and import
    Serving.tla          the lock beside a store, servers that boot and stop, commands
    ServingProofs.tla    theorems about Serving
    Session.tla          connections: handshake, keys, scopes, routing, the gate
    SessionProofs.tla    theorems about Session
    Workers.tla          worker processes, their pool and their conversation
    WorkersProofs.tla    theorems about Workers
    MC*.tla              small instances of these: producers, repos, requests, budgets
    *.cfg                one TLC run each, with what it asks
    PROJECT.json         components, runs, mutants, the map to the source, hazards, findings

Run one check with `tlc -workers 2 -config Tx.cfg MCTransactions`, the proofs of a module with
`tlapm LayerLogProofs.tla`. PROJECT.json names the module of every run.

## 1. Inventory

| Component (source) | State | Operations | Meets |
|---|---|---|---|
| layer log (`borg-engine/log.rs`, `seams.rs`, `borg-core/layer.rs`) | layer table, heads, next id | open, put, include, guard, commit, abort, restore | storage, projections |
| touch index (`touch.rs`) | cell to source layers, highest per branch | record, first_touched_since, moved_since | commit, guards, merges |
| SQLite storage (`borg-storage-sqlite`) | layer rows, membership, events, interned content | open_layer, flush, seal, put_layer_meta, commit_layer, abort, get_cell, adopt_event | log, export and import |
| registry (`registry.rs`) | the wired parts | open: restore, resume, fold | all of the engine |
| branches and merges (`branch.rs`) | branches with an origin | create_root, fork, merge, merge_transaction, merge_round | log, transactions, rounds, definitions |
| transactions (`borg-host/ops.rs`, `borg-core/transaction.rs`) | `transactions.json`, `allocations.json`, pause flags | tx_begin, tx_get, tx_set, tx_create, tx_commit, tx_abort, reap | branches, write sessions |
| write sessions (`write.rs`) | a handle, reads, writes | set, create, delete, implied existence | transactions, producer runs |
| derivation (`derive.rs`) | producers; per round: wave, reruns, seeded | catch_up, settle, recompute, retry_broken, refresh, run_now | index, frontier, poison, merge_round |
| dependency index, frontier (`index.rs`, `resolve.rs`) | read-sets, watermarks | record, dependents, advance, rewind, reaches | derivation, reads |
| projections (`projection.rs`) | how far each fold has got | bring_to_head, committed | commit, registry open |
| poison table (`poison.rs`, `ops.rs` FilePoison) | broken producers by version, on disk | poison, clear | derivation, reads |
| read resolution (`resolve.rs`, `borg-core/cell.rs`) | none of its own | resolve, validate, freshness | index, frontier, poison, inline runs |
| definitions, migrations (`defs.rs`, `borg-core/def.rs`) | the def-event stream; views are folds | apply, view_at, path, migration_role, push | every typed read or write, merges |
| repo push (`push.rs`) | none: a diff against the view | describe, diff, land, save, reload | definitions, executors |
| export and import (`stream.rs`) | none; the file | export, import, restore of sidecars | storage, host |
| host, serving lock (`host.rs`, `serving.rs`) | slots with a gate each; a lock record per store | enter, ops, route, create, adopt, claim, release | server, CLI |
| server (`borg-server`), protocol (`borg-protocol`) | sockets, pidfile, admin token; a session per connection | boot, announce, shutdown, start, stop; handshake, request loop | host, keys, clients |
| keys (`keys.rs`) | the keys file | issue, revoke, authorize, permit | handshake, create, push |
| executors (`borg-exec`, `borg-exec-process`) | pools of worker processes | checkout, invoke, serve accesses, release, drop, reload | derivation runs, push |
| native executor, values, parsing, ids, CLI and SDKs | none that properties tell apart | | |

Parts interact by calls inside one process, through in-memory structures guarded by mutexes (the
layer table, the indexes), through files (the SQLite store, the JSON sidecars beside it, the lock
record, the pidfile, the keys) and through pipes and sockets. A process that dies loses the memory
and keeps the files, each write to which is its own durable step. Inside a process, producer runs of
a wave are concurrent tasks; connections are threads, and a registry's gate lets one of them in at a
time. Between processes there is only the file system: the lock is advisory, and the question whether
its holder lives is asked of a socket.

What is hard here, and what correctness means:

* **Ids are given at open, order is made at commit.** Layers commit out of order, so the head, the
  bound of every read path, must be the highest committed layer and not the last. A layer must become
  visible whole, with its metadata, or not at all, wherever the process dies.
* **Guards are checked against an index fed by commits.** A passing guard must be true, and the
  shortcut a merge takes must never hide a touched cell, although the index is fed after a commit is
  visible, by a fold that may fail.
* **Snapshots by convention.** A fork point is a snapshot only if nothing lands below it afterwards.
* **Transactions span requests and files.** Nothing read may have moved at commit; handles and object
  ids are never reused; a transaction lands once and whole; an abandoned one is collected.
* **Work is remembered indirectly.** A watermark advances past runs that failed or were dropped; that
  they are found again rests on the dependency index, which a restart rebuilds from less than it had.
* **A partial merge must be closed.** Nothing may land that was computed from something that did not.
* **Rounds must end**, even when producers dirty each other, and a settled branch must stay settled.
* **A read decides while the world moves.** "Current" must be true of the layer it names; a waiter
  must not miss the advance it waits for.
* **A definition is a version, and old versions live on.** Records keep the shape they were written
  in, migrations carry a write to every version once, repeats say nothing, merges fold.
* **A copy must be the thing.** An export restores to a registry that answers alike, and a failed
  import takes what it made and nothing else.
* **One process serves a store**, though the lock is files and questions to sockets, and a stop leaves
  nothing that refuses the next start.
* **A credential bounds what its holder learns**, also while keys come and go.
* **A worker is a process**: it dies, answers late or runs old code, and none of that may reach an
  invocation it does not belong to.

PROJECT.json lists each hazard at its line with the properties that watch it.

## 2. Plan

Modelled in this order, most important first: `LayerLog` with `AtomicLog` and its proofs;
`Transactions`; `Derivation`; `Serving`; `Session`; `Workers`; `Resolve`; `Definitions`; `Stream`.

Compositions inside the modules: `LayerLog` contains the forks of rounds beside client layers that
stay open; `Resolve` composes reads with rounds as far as reads can tell; `Definitions` composes push,
merges and the migration half of a round; `Workers` composes the pool with a push that reloads it;
`Session` composes connections, the key file and the host; `Serving` composes servers, commands, the
launcher and stop; `Stream` composes an export with the importers of its file.

Next: `Derivation` with several rounds of one branch at a time, a serial specification of transactions
for `Transactions` to implement where nothing faults, and a "recompute everything" specification of a
settled branch. Theorems worth proving next: `StreamInv` of `Stream` for one importer, with a reading
of a registry that is not recursive; `LastWriteReachesAll` and `HalvesDoNotChase` of `Definitions`, for
chains whose migrations are all different; `SettledIsFixpoint` and `LabelsReplay` of `Derivation`, for
the budgets they hold under.

## 3. The modules and the code

A definition marked `\* Mutation:` is not part of a specification. It is a plausible slip in the
definition after it, and PROJECT.json says which property sees it.

### LayerLog

One registry. The in-memory half of a layer is `lstate`, `branchOf`, `author`, `guards`, `head`,
`next` (the sequencer), `touched` and `highest` (the touch index); the SQLite half is `row`
(layers.state), `meta` (layers.meta is not null), `writes` (membership) and `origin`. `stage` says
where in `open` or `commit` the task that owns a layer has got to: one action for each stretch of code
between two awaits or lock releases. `LayerManager::commit` is
`Seal, Validate, StoreSeal, StoreMeta, StoreCommit, Publish, Project`, in that order. `Crash` empties
memory; `Reopen` is `Registry::open`: it lists the rows with metadata, resumes the sequence after the
highest, restores heads and refolds the touch index. `Fork` and `SpanFork` are `BranchManager::fork`
and the fork of a derivation round at the top of the range `span` finds.

`Preempted` is the set of authors whose tasks may be preempted between `next_layer_id` and the
insertion into the table: there is no await between them, so on one thread there cannot be another
step; on two there can.

`Abandon` is a task that ends with its layer neither committed nor aborted (a storage error, or a
cancelled round). `ProjectFails` is `commit` returning an error of the fold: a client's layer is read
back from the store (projection.rs:156), which can fail when the layer is visible and the head raised,
and the touch index of this process then never hears of it. `Reopen` refolds it. The properties about
guards and their index therefore speak of layers whose commit succeeded. A guard is one hand-written condition per layer. The content of events is abstracted
to the set of cells a layer names.

### AtomicLog

The promise to a reader: a set of landed layers to which whole layers are added one at a time and from
which nothing is taken or changed. `LayerLog` refines it with `landed` mapped to the visible rows.

### Transactions

One parent branch, requests one at a time (the host holds one gate for a store, and the CLI is one
process), each request broken where it makes something durable: the fork, a layer, a sidecar file.
`trunk` and `child` are what the store holds, `paused`, `table` and `alloc` the sidecars, `op` the
request in progress, `now` the clock, which also runs while a request is at work. Every request starts
with the idle sweep, as in the code. `TxSet` and `TxCreateSet` stamp the transaction as used before
`SessionCommit` makes its layer durable; `TxSave` writes that earlier stamp. `saw`, `issued` and
`lastUse` are history variables used by properties only; `lastUse` is when a client asked what it last
had an answer to. A scenario says whether the process may die between two durable steps and storage may
fail while landing (`faults`), and which sidecars may be torn in the middle of a write (`torn`), after
which `load` answers the default: the table (`CrashInSave`: no handles), the counter of object ids
(`CrashInAllocate`: it starts at 1 again), the pause flags (`CrashInPause`: none). `Retained` is
`Vec::retain`, with which the table lets go of entries, and `Expiring` are the ones the sweep lets go of.

### Derivation

One settling branch, one round at a time, no migrations. `trunk` is the sequence of committed layers
(its index stands for the id), `watermark`, `edges` and `version` are in memory, `broken` is the poison
file. A round is a record: fork point, `reflects`, the wave still to schedule, the invocations still to
start, a log of runs with what each read and from which run's record, seeded producers, rerun counts.
User code is three constant operators (`SourceOf`, `NextRead`, `Output`), so what a program reads next
may depend on what it has read. `Schedule` is `schedule` with `invalidated_by`, `backfill` and the cycle
limit; `Start`, `Read`, `Finish` and `Fail` are the steps of one task of a wave; `Decide`, `Land` and
`Advance` are `merge_round` and the watermark loop; `Abandon` is `settle_span` returning early. `Crash`
rebuilds edges and watermarks from the landed layers as `DependencyProjection` and
`FrontierProjection` do; with no producer `LowestMark` is 0 (`unwrap_or`). `CatchUp` includes `recover`; `RetryBroken` and `Recompute` are the two manual
verbs. `call` is the catch-up a command owes: due after a write, a push or a retry, none once it was
made, lost when `auto_derive` failed on its way to it (`CallFails`), its round was abandoned or the
process died. A push happens between rounds and is a source layer without cells, which is where the def-layer
stands. `left` is what the scenario may still spend.

### Resolve

One branch, one entity. A value is what it was made of, so the value a replay of the world at a layer
would give (`Replay`) can be computed and compared with what is stored; no action uses `Replay`.
`Write` and `Commit` are clients with layers that may stay open; `Fork`, `Land`, `Advance` are a round
from outside: where it forks (`Span`), what of it lands (`Dirty`, `Fallen`) and when the watermarks
move. `Break` and `Recover` are a producer that fails and the push that mends it. A read is `Check`
(`can_compute_at`, `settled_here`), `Claim` and `Run` for each cell of `Plan` (`refresh`, `run_now`),
inputs first and each cell once however many paths lead to it (`Once`: the `computing` set of a
refresh), `Look` (the record on the path), `Validate` and `Judge`; a run disturbs whoever else is
reading, as a layer that lands does; a wait is `Arm`, `Compare`, `Sleep`, `Wake`,
with the notification of `Advance` reaching only those that registered interest before. `Overlap` says
whether a derived layer may land while a client's layer is open.

### Definitions

Two branches with one struct of two fields. The log holds def layers, source layers and the derived
layers of migrations; a `DefView` is recomputed as the fold of the path (`FoldLayer`, `ViewsAt`), as in
the code, and so is everything asked of it: `Path`, `Roles` (`migration_role`). `RepoPush` is the diff
of `repo_push` (`Described`, `Unchanged`, `Moved`, `Repeats`, `Unpushable`) followed by the fold that
validates it; the arm for a field whose type moved looks at the owner in force and not at the one
described, as the code's does. `DefPush` is one event pushed raw (`ByHand`); `Write` is a client at any
`ClientVersion`; `Merge` replays the child's layers that cross (`Crossing`, `Filtered`), definitions
alone or with data, and may die half way. What a scenario allows is a `Budget`, and everything a
description may say is in `FieldSpec` and `DefinitionsAssumption`. A round is `BeginRound`, `Consume`,
`Produce`, `NextWave`, `EndRound` for migrations alone, under the gate of its registry. A value is its
type and the client write it descends from, which is enough to ask whose write a version shows.

### Stream

A log is grown by `Write`, `Define`, `New` and `Fork` into every small registry: layers that commit,
that stay open, that are sealed and never described; rows of a layer's own and of another's; forks.
`ReadFiles`, `ReadBranches`, `ReadLayers` and `ReadBlock` are `export` in the order of the code,
`Deliver` is the file that arrives: whole, cut after any line, or with a line that is not a record. An
importer is one action per record kind, with the open block and its buffered rows, `Seal`, `Describe`
and `Commit` when a block is closed, `EndOfStream` and `Save` for the sidecars. `IoError` and `Kill` may
come at any step. `found` is history: the store as the import came upon it. `Answer` and `DefsAt` say what a read answers, so that two registries can be compared
by it; they recurse over the branches and are why the module stays with TLC.

### Serving

`pc` is where each server and each command is. `Load`, `Knock`, `ClearStale` are `served_on`, each
question to the file system a step of its own; `ClaimNext` to `Announce` are the boot; `CreateBegin` to
`AdoptInsert` a registry made while serving; `Wake` to `ClearAdmin` the shutdown; `CommandBegin`, `Enter`
and `CreateAsk`, `CreateDirect` a command and `create`; `Start*` the launcher and `Stop*` the stop. The
faults of a behaviour are a set: `kill` (kill -9), `tidy` (somebody removes a live server's socket
file), `early` (a signal before the handler is there), `overlap` (two boots at once), `amid` (a command
that looks during a boot). A property says which of them it is not claimed under (`Calm`). A kill -9
takes no promise away but that of `stop`: what a dead process leaves is cleared by whoever asks next.

### Session

`Dial`, `RefuseHello`, `Authorize`, `Route` are the handshake; `Ask` is the client, who may write ahead
and may never read; the other actions are the request loop, from `Unreadable` to `Reply`. `Prepare`,
`InitLooks`, `InitMakes`, `Adopt` are a registry made over the wire, with nothing held in between;
`Dispatch`, `Enter`, `Open`, `Finish` a request that works in a registry under its gate; `Panic` an
operation that dies in it. `KeyCommand` and `Save` are a key command, which loads and later replaces the
file; `Corrupt` is a file that stops parsing. One operator is assumed: two key commands at once are not
modelled (see the further disagreements). `told` records every name a connection was given.

### Workers

`Checkout` takes a permit and an idle worker or the right to start one; `Spawn`, `Greet`, `StartFails`,
`GreetFails` are both transports seen as one; `Invoke`, `Work`, `Receive`, `Handle` the conversation;
`Release`, `Drop`, `Reap` its ends. A pool leaves the map in `Reload` and lives as long as an invocation
holds it. `Describe`, `Land`, `SaveTable`, `Reload`, `StopIdle`, `StopWaits`, `Reloaded` are a push under
the gate; `RoundPanics` ends a round early, its siblings' aborts reaching them at their next await
(`stray`, `Cancel`). The code a process runs is a number, and a definition has the number it was pushed
with.

## 4. Runs

Every property of a passing run has a mutant in PROJECT.json: a plausible slip in a mapped definition
under which the same run finds the property violated. Properties named `...Inv`, and some others, are
conjunctions of named parts.

| Run | Question | Bounds |
|---|---|---|
| LayerLogSafety | head, metadata, touch index, guards, atomicity (refinement of AtomicLog), round snapshots; the inductive invariant of the proofs | 2 branches, a client's cell and a producer's, 3 layer ids, a round's task preempted in `open`, any fold of a client's layer failing |
| Tx | guards, dangling writes, handles and object ids, reaping, what a client is told | seven worlds of 2 transactions: 2 writes each; 1 write with crashes and failing storage; the clock with 2 ticks, or a timeout of 0 and 1 tick; creating 2 objects with crashes; with a torn table (1 transaction); with a torn counter and torn pause flags (1 object) |
| DeriveSettles | whether a branch that says it is settled is a fixpoint | 2 producers; 4 client layers during rounds; or 2 and a push, with 2 deaths, or a failure or abandoned round, or a rebuild |
| DeriveEnds | closed cascade, labels, deletion, termination, settling | a chain of 3 producers under 3 client layers; 2 producers that never agree, rerun limit 3, with a failure (of a run, a round or a catch-up) and a push or a retry |
| Resolve | whether "current" and the stamps are true, whether asking for the current value pays, whether a waiter wakes | 2 source cells, a cell `c` derived from one, `d` derived from that and the other, and `e` derived from `d` and `c`, so that two paths lead to `c`; 1 reader or 1 waiter; 2 client layers, or 1 with a broken producer |
| Serving | who holds the lock, what commands may do, what a stop leaves, that a stop ends | 2 servers, 1 or 2 sockets, 2 stores of which 1 is there, a command; no faults, `kill` with `early`, or `tidy` |
| Session | gate, one answer for each message, scopes, keys, nobody stalled | 2 connections, 2 registries, 2 keys; 4 key commands; or 2 requests each; or registries being made |
| Workers | pool size, conversations, code, that invocations end | 2 invocations, pool of 1 or 2, 3 process slots, 2 pools, 2 versions of the code |
| Definitions | folds, shapes, paths, repeats, merges, migrations | 2 branches, 2 fields, 2 repos, 9 descriptions; up to 4 pushes, 2 client writes, a fork, a merge, a crash; or 3 pushes and a deletion |
| Stream | restore is the identity on answers; a failed import gives the path back as it found it; a half never lies | 3 layers, 2 events, 2 rows a layer, 2 branches; one damage, error or kill; 2 tries; batches of 2 |

`LogInv`, `DeriveInv`, `TxInv`, `ReadsInv`, `ServingInv`, `SessionInv`, `WorkersInv`, `DefsInv` and
`StreamInv` contain the type invariant of their module and the parts their comment names.

A scenario (`Scenarios`, `Budgets`, `FaultSets`, `Starts`) is a choice of `Init`, and its numbers are
the bounds of that behaviour: one run then holds what would otherwise be several. In Serving the run
also constrains the states (`Bounds` in MCServing): servers differ only in their names, so `p` boots
first, and no command runs once socket files may disappear. Both cut actions that nobody is obliged to
take, so the liveness property is not affected.

Why these bounds are enough to be interesting: two layers are what an out-of-order commit needs, and a
third lets one more be open below or above both; two transactions and one object give every
read/write/delete conflict; a round of two dependent producers over one object already runs an
invocation twice, drops one of two runs and lands the other, and a chain of three is what tells a
transitive cascade from a direct one; a read through two derivations is what tells validation from a
look at the direct inputs; two servers and one command give every pair of a looker and a claimer; two
connections are a holder and a waiter, one of which may stop reading; two invocations over one worker
are a conversation and its successor, and two pools are what a push makes; two migrations up and down
and a third version without a way back are the shapes a path can have; three layers are a layer, one
that names its event and one that hangs off either. Each bound is a named constant or a field of a
scenario and appears in the guard of the action it limits. The rerun limit is 3 in DeriveEnds rather
than the code's value so that it is reached; in DeriveSettles it is high enough not to be.

`CHECK_DEADLOCK FALSE` everywhere: a system whose clients have stopped may stop, and the bounds stop
it too.

**Fairness**, where a run checks liveness:

* DeriveEnds: weak fairness of `CatchUp` while `call` is due (a command that wrote, pushed or retried
  calls `catch_up` once, `auto_derive` in ops.rs) and of `RoundStep` (the async runtime polls the tasks
  of a round until they join). Nobody is bound to call again: a round that was abandoned, a catch-up
  that failed or a process that died leaves `call` lost, `Settles` promises nothing until the next
  command, and a catch-up by hand may come and need not. Failing, pushing and clients are not fair.
* Resolve: a client finishes the layer it opened, rounds run while there is work, and readers and
  waiters are scheduled.
* Serving: a live process goes on by itself through `Shutdown` and `Create`. Nobody has to boot or stop.
* Session: threads are scheduled (weak), and the gate is granted to one who waits (strong fairness of
  `Enter`). Clients need not read: an answer is promised to those who do, whatever the others do.
* Workers: tasks are scheduled; a semaphore is fair (tokio's is first in, first out), hence strong
  fairness of `Checkout`; a worker answers what it reads and exits when its pipes end. Workers that hang
  for ever with their pipes open are outside it: the code has no timeout for an invocation.

### Runs that find a disagreement

Each states what the repository's own comment or specification says and shows a behaviour of the
code that differs; PROJECT.json quotes the line.

| Run | What happens |
|---|---|
| ResolveOverlap | a round lands above a client layer that is still open; the next round forks below that output, reads the older derived value and labels what it computes with a layer that does not replay to it (derive.rs:584, 674) |
| DefinitionsFork | a fork's first round backfills its parent's migrations over what a client wrote on the fork (derive.rs:996; SPEC.md:699) |

### Further disagreements

The modules show these too; they are kept out of the list of runs because they ask variations of the
same questions. A row gives the property and constants that make TLC find it where a definition states
it; rows without a property can be read off the actions named.

| Property or actions | Constants | What happens |
|---|---|---|
| OpenedIdsAreFresh | LayerLog, 2 ids | a crash after `open_layer` leaves a row without metadata; the reopened sequencer issues its id again (registry.rs:116) |
| RoundSnapshotStable | LayerLog, `Preempted = {"source"}`, 2 ids, branches main and round | an id reserved but not yet filed is invisible to `span`, and its layer lands below a round's fork point (derive.rs:578) |
| RoundWorldStable | LayerLog, 3 ids, branches main, side and round | an open layer of an ancestor lands inside a round of the child branch (derive.rs:580) |
| PassedGuardsAreTrue, IndexIsSound with `stage \in {"idle", "unfolded"}` | LayerLogSafety | a fold that fails after its layer is visible leaves the touch index without it until a restart: a guard over a cell it wrote passes and is not true (log.rs:493, projection.rs:156) |
| HandleIsNew without its `~TornTable` | world Forgetting | a table torn by a crash loads as the default, and handles restart at 1 (ops.rs:598) |
| AllocatedIsFresh without its `~TornCounter` | world Recounting | `allocations.json` is rewritten in place (sidecar.rs:50); torn, it loads as `next = 1` and object ids are given out again, "the one outcome the whole scheme exists to prevent" (ops.rs:902). Deleting the file is said to cost this (ops.rs:905); a death inside a save costs it too, and the sidecars are said to hold nothing that cannot be recreated (sidecar.rs:15) |
| ReapedWereIdle, measured from the answer | world Hasty | a write is stamped as used before its layer is committed (ops.rs:882, 995), so a transaction can expire within the timeout of an answer that took long (SPEC.md:1441) |
| Settles without `call = "lost"` | DeriveEnds | a round that is abandoned, or a catch-up that fails, is warned about and not made again before the next command (ops.rs:1307) |
| Transactions `Land` | world Faulty | a crash or a storage error between two replayed layers leaves part of a transaction on the parent (SPEC.md:57, branch.rs:203); after a crash between merge and save a second commit lands it again (ops.rs:1033) |
| Transactions `Land` | world Quiet | a transaction of two writes is two trunk layers (SPEC.md:1376) |
| Transactions `Absorb` | world Faulty | a crash between a write and the save loses the existence probe it made (SPEC.md:1410) |
| LabelsReplay | Fan, `Spend(3, 0, 0, 0, 0, 0, TRUE)` | the merge drops the last run of an invocation and lands its superseded first (SPEC.md:1894) |
| LabelsReplay | Fan, `Spend(2, 0, 0, 1, 0, 0, FALSE)` | a crash between two producers' layers leaves a value whose input never landed |
| SettledIsFixpoint | Fan, `Spend(2, 0, 1, 0, 0, 1, FALSE)` | a rebuild forks at the highest source layer, so when A fails in it B is recomputed without the value of A that the branch still holds |
| SettledIsFixpoint | interference and deaths in one budget | a dropped run's edges do not survive a restart, and the layer that failed its guard no longer reaches it (branch.rs:230) |
| SettledIsFixpoint | a failure, then a retry | the revived producer writes at a layer its consumers already claim, and they are not run; and clearing a poisoning is durable while rewinding the watermark is not (derive.rs:427, 871) |
| SettledIsFixpoint | a producer that writes only sometimes | a run dropped by the cascade is unreachable when its sibling, run again, writes nothing (transaction.rs:244); a run that wrote nothing has no edges after a restart (projection.rs:21) |
| OneProcess | Serving, `FaultSets = {{"amid"}}` | a command that looks between a server's claim and its bind finds nobody listening and clears the record; the server serves unlocked, and a second one hosts the store (serving.rs:67, serve.rs:623-660) |
| OneProcess | Serving, `{{"overlap"}}` or `{{"tidy"}}` | two boots claim and release each other's records; a removed socket file makes a live server look dead |
| Serving `ClaimNext` | 2 stores present | a refusal in `claim_all` returns with the stores claimed so far still claimed (host.rs:407) |
| StopEnds | without its condition | after a removed socket and another server at the path, the accept loop is joined and nothing wakes it (serve.rs:742) |
| Serving `Terminate` | `early` | a SIGTERM between bind and the handler leaves the records and the socket (serve.rs:660-786) |
| WithinScope | Session, `Racing = TRUE`, 3 slots | two connections making one registry at once give it two slots, hence two gates over one store, and a client settled on the first works on behind a gate nobody finds again (host.rs:390) |
| Session `KeyCommand`, `Save` | a second operator | nothing is held between `load` and `save`: of two key commands at once the later save undoes the earlier, and a revoked key is back (keys.rs:460-493) |
| Workers `Drop`, `Reap` | `start` | a worker with a bad hello is let go of and not waited for; any lost worker counts as a failure of the producer (lib.rs:17, derive.rs:790) |
| Workers `Land`, `SaveTable` | a push that fails between them | the definition has moved and running workers have not (push.rs:314-324) |
| CurrentIsTrue | Resolve, of the answers "stale" | a stale answer may name a layer whose replay does not give the value (cell.rs:377) |
| CurrentIsTrue | Resolve, `Spend(2, 1, 0, 1, FALSE)`, reading `d` | an input never computed because its producer is broken counts as absent and unchanged (resolve.rs:481), and a value made without it is called current (SPEC.md:1229) |
| CurrentIsTrue | Resolve, `Spend(1, 1, 0, 2, TRUE)`, reading `d` | an inline run over an input whose producer is broken claims the head; once that producer is mended and before the next round, the value is called current |
| StampIsTrue | Resolve, `Overlap = TRUE` | an inline run claims the head while a lower client layer is open; each hop claims its own head |
| RepeatIsSilent | Definitions, `Descriptions <- Handover`, `Scenarios <- Handed` | a push that gives a field another type and another owner takes the type and drops the owner, because that arm of the diff never looks at it (push.rs:225); the unchanged repo pushed again declares the field anew, which the fold rejects, although "an unchanged repo emits no event" (push.rs:38) |
| LastWriteReachesAll | without `OwnMigrations` | a migration re-pushed without its sibling backfills over newer writes; one named by two steps serves the first only (defs.rs) |
| LastWriteReachesAll without `Stranded` | Definitions, world Merged | a merge carries a client's write under the version it was authored at; at a version the child made itself that is the child's def layer, and the parent knows the step by a layer of its own, so no reader of the parent is led to the write (branch.rs:442), although "each retains its authored ClientVersion, so the parent's readers migrate as needed" (SPEC.md:1567) |
| PathsArrive | over versions outside a field's present life | after a deletion and a new declaration a path is answered with a gap (defs.rs:432) |
| WholeStreamsRestore | Stream, `Importer = {i1, i2}` | two imports of one name meet in one store, and one that fails removes what the other writes (stream.rs:670) |
| CounterIsPastTheLog | Stream, `Gated = FALSE` | an embedded export beside a writer reads the counter before the objects (stream.rs:351) |
| Stream `Deliver`, `EndOfStream` | a cut at the end of a block | the stream is imported as a shorter registry; nothing in it says how long it is |
| Stream `Save`, `Kill` | `MaxTrouble = 1` | a failing save leaves the sidecars written before it; a kill leaves a half store the next start hosts; a failed import over an existing empty store leaves half a registry |

`SettledIsFixpoint` therefore holds where those combinations are excluded: DeriveSettles has
interference without deaths, deaths without interference during a round, failures without a retry or a
rebuild. `ServedOnce`, `StampIsTrue`, `CurrentIsTrue` and `LabelsReplay` likewise name in their
premises, or in the budgets of their run, what they are not claimed under. `LastWriteReachesAll` names
what it excludes: chains without migrations of their own both ways (`OwnMigrations`), writes on a fork
(DefinitionsFork), writes of a life of the field that a deletion ended (`Retired`), and merged writes at
a version of the child's own (`Stranded`). Widening each is how
to see where it stops holding.

## 5. Proofs

`LayerLogProofs` proves, for every set of branches and cells and every bound, from `LogAssumption`
only:

* `TypeCorrect`: Spec => []TypeOK
* `LogInvariant`: Spec => []LogInv
* `HeadTheorem`: Spec => []HeadIsHighest
* `VisibleTheorem`: Spec => []VisibleIsListed
* `AtomicityTheorem`: Spec => LandsAtomically, the refinement of AtomicLog
* `SnapshotTheorem`: Spec => RoundSnapshotStable, assuming `"source" \notin Preempted`

None of these is inductive alone. `LogInv` adds `StagesAgree` (the table, the row and the owner of a
layer are at compatible points, and nobody owns anything while the process is down), `SequenceAhead`
(no id at or above `next` is in use: what makes a newly opened layer not disturb an existing one; its
`~meta` half is what survives an id whose row outlived a crash) and, where clients are not preempted,
`RoundsSettled` (below a round's fork point no client layer of that branch is on its way). The head is
right because `Raise` takes the maximum; a visible layer is listed because the stage that flips
visibility is only reached through `StoreMeta`; a landed layer does not change because `Put` needs the
stage `writing`, which a committed layer's owner has left, and `StoreOpen` clears membership only where
there is no row. One step per action, one under it per conjunct the action can disturb. TLC checks
`LogInv` itself in LayerLogSafety.

`SessionProofs` proves, for any number of connections, registries, keys, key commands and requests,
from `SessionAssumption` only:

* `SessionTheorem`: Spec => []SessionInv, that is `TypeOK`, `OneInside` and `AnswersLineUp`
* `KeyHoldersTheorem`: Spec => OnlyKeyHolders
* `ScopeTheorem`: Spec => []WithinScope, assuming `~Racing`

The invariant `SessionSafe` has five parts. `Shaped` gives every variable its type. `KeysInForce` says
that the file holds only keys issued and not revoked, that a key command in progress knows what the file
holds, because only one runs at a time, and that once a key was issued the file is there, readable or
not: this is why `authorize` never takes the absence of keys for an open server again. `GateHeld`: the
gate of a slot is shut by whoever is inside it and by nobody else. `InTurn`: a connection works on the
first message it has not answered, so that the answers are a prefix of the messages. `ToldInScope`: what
was told is hosted and in scope. For `ScopeTheorem`, `Scoped` adds that the slots of a connection and of
its request are slots of names in its scope. It holds because no registry changes its slot, and that
because no two clients are making one registry (`OneMaker`); `Ask` keeps them apart when `Racing` is
FALSE. The code does not: `adopt` inserts without looking, and the assumption is where that shows (see
the further disagreements). A proof of a step has one case per handler; what a step of one connection
leaves alone of another is `OthersUntouched`, used everywhere.

About guards it proves, from the same assumption:

* `GuardsJudgedRightly`: Spec => []IndexIsSound, the index holding what the layers touched whose
  commit succeeded
* `GuardsThatPassAreTrue`: Spec => PassedGuardsAreTrue, of the client layers whose commit had succeeded

A layer whose fold failed is visible, under the head and outside both statements until `Reopen` folds
it; that the index is wrong about it is in the further disagreements, not hidden by a missing step.

`IndexInv` strengthens `LogInv` with `ForksAreOld` (a branch is older than its layers and was forked at
a layer on record), the fold itself, `MarksAreRight` (the mark of the shortcut is above every touch of
its branch and under its head) and `RoundsForked`. The path of a branch is a recursive walk over fork
points. It ends because each fork point is below every layer of the fork; what holds along it is argued
from the least fork point at which it would fail (`LeastNumber` turns a predicate into the set of numbers
that satisfy it, so that the library's well-foundedness of `<` does the induction). Of `Reopen`, whose refold
must give the index the process that died had, that argument is the whole proof.

`TransactionsProofs` proves, for any number of clients, branches, layers and objects, from
`TxAssumption` only:

* `TableAgreesWithStore`: Spec => []TxInv
* `LandingReadsTrue`: Spec => ReadsStillTrue
* `NothingLandsDangling`: Spec => NothingDangles
* `NamesAreNew`: Spec => NothingReused, of handles unless the table was torn, of object ids unless the
  counter was
* `EndsAreTold`: Spec => FateIsTold
* `SilenceExpires`: Spec => ReapedWereIdle, measured from when the client asked

`TxSafe` follows the gate: `Gated` and `LandsSoundly` say that a request in progress still has what it
checked when it began (`Land` replays several layers, each durable alone, and the guard is checked
before the first), `Tabled` that the table has one entry to a handle and to a branch and that spent
handles are neither open nor ahead of the counter, `NamesGiven` that nothing is written of an object
nobody was given, `Traceless` that between requests an open transaction has landed nothing and
derivation is paused on its branch and on no other. What survives which fault is part of the invariant:
`Traceless` is claimed without faults, `Remembering` without torn tables, and of `NamesGiven` the half about object ids
without torn counters. The lemmas about `retain` are
proved over its recursion and used for every way an entry leaves the table.

`DerivationProofs` proves, for any producers, user code, objects and budgets, from `DeriveAssumption`:

* `RoundsLandClosed`: CodeStaysInside => (Spec => []DeriveInv)
* `DeletedStaysDeleted`: Spec => NothingResurrected

`CodeStaysInside` says that user code reads fields there are and writes fields that are declared; the
programs of both runs do. The engine records whatever is read and refuses a write of any other field
(write.rs); the model leaves that refusal out, and only the types of the cells in `DeriveInv` depend on
it. `RoundsLandRight` has five
parts: `TrunkSound` (every landed derived layer speaks for a client layer below it), `TablesSound`
(watermarks, versions, edges and poisonings name producers and layers there are), `RoundSound` (fork,
wave and what is running lie within the trunk), `RunsSound` (a run was served by earlier runs only) and
`LandingSound` (between `Decide` and the last `Land` the decision is still closed and fits the
watermarks). The heart of it is the cascade of `merge_round`: it is iterated once for each run of the round,
and that this is enough is proved by counting, since a pass that drops nothing has reached the fixpoint
and one that drops something uses up a run (`CascadeRuns`, `CascadeCloses`). The case of no producer in
`LowestMark` was found by this proof.

`ServingProofs` proves, for any number of servers, commands, stores and sockets, from
`ServingAssumption` only:

* `FilesAreTrue`: Spec => []ServingInv
* `OneProcessServes`: Spec => []ServedOnce
* `GoneMeansGone`: Spec => []StopMeansReleased

`ServingSafe` has a core that holds under every fault (`Shaped`, `Booted`, `Made`, `Bound`, `Minted`,
`Recorded`) and parts claimed under the faults they survive, each with the `Calm` of the property it
carries. `ServedOnce` rests on `SeenIsSo`: what a looker read of a record is still so at its next step,
unless a knock has shown that nobody is there; on `Locked`: a server that listens has its record beside
everything it hosts or is about to; and on `OwnPath`, which is what the removal of a socket file breaks.

`ResolveProofs` proves, for any source and derived cells, any reads among them that have an order, any
number of readers, requests and waiters and any budgets, from `ResolveAssumption`:

* `StampsAreTrue`: Overlap = FALSE => (Spec => []StampIsTrue)
* `CurrentUntilBroken`: Overlap = FALSE => (Spec => [](~broken.ever => CurrentIsTrue))
* `CurrentIsRight`: where no budget has a failure, Overlap = FALSE => (Spec => []CurrentIsTrue)
* `AskingPays`: Spec => []ReadsInv

`Overlap` is where the code gives no such promise (ResolveOverlap finds the layer that says otherwise), and
the runs have failures because up to a bound the claim survives them; past it stand two of the
disagreements above. That incremental reading agrees with a replay needs the history of every value in the invariant. `ResolveInv`
says, until something breaks: the log has the shape clients and engine give it, what the engine lands
stands below no open layer, and every stamp is true (`LogOk`, `EngineOk`, `StampsOk`). A value that is
there was made at or above the watermark, or is what a replay at the watermark gives, or a later
replay differs and the next round will see why (`Kept`; `Forked` says it of a round under way). A reader
between two steps holds a plan whose inputs come first (`TodoOk`), a claim nobody has written above
(`RunOk`), or a record and a ceiling that still fit (`ValidateOk`). The heart is `Between`: if two replays
agree on a cell, every replay between them does, since a value tells which client layers it was made of
(`Follows`). The cells that producers read have no numbers to induct over; their rank in
`ResolveAssumption` has. That the settled branch a scenario may start from has all this is proved too.

`AskingPays` needs neither condition: a client that asks for the current value while nobody else writes or
lands gets it, overlapping layers or not. Its invariant `ReadsOk` says of a reader that is undisturbed, on
a branch where nothing broke: some set of cells has not moved under it (`Unmoved`: whatever such a cell's
value was made from is itself unmoved and has not changed since); what is left of its plan names each
cell once, behind everything the cell reads (`Planned`; a plan with a cell twice would compute it the
second time for nothing and move those behind it); its claim is the head; and the record it took of its
own cell is up to date (`UpToDate`), so that the validation at the end reaches its ceiling
(`UnmovedValidates`). Anything another reader or a round writes ends the promise (`DisturbedPays`), and with
nobody interfering each run of the plan adds one cell to the set (`RunBringsUp`).

`WorkersProofs` proves, for any number of commands, invocations, processes, pools and pushes, from
`WorkersAssumption` only:

* `PoolStaysBounded`: Spec => []WorkersInv
* `ConversationsMatch`: Spec => []RepliesMatch
* `CodeIsCurrent`: Spec => []NoStaleCode

`PoolSafe` has `OneHand` (a worker is with one invocation, or in one place of one pool, or the one a
push waits for), `Alive` (its slot is not reused meanwhile), `InStep` (the pipes of a worker nobody talks
to are empty; of one that is talked to they hold at most that invocation's message), `Loaded` (permits
out and workers idle together never exceed the size) and `Current` (outside a round only strays run,
and but for the stretch of a push between the definition and the pool nothing in the pool in force is
older than the definition). `InStep` is why a conversation that broke off must cost its worker, and
`Loaded` is stronger than the bound on processes because a permit is given back after the worker is.

`DefinitionsProofs` proves, for any fields, names, types, fingerprints, repos, descriptions and budgets,
from `DefinitionsAssumption`:

* `SpecDefsInv`: Spec => []DefsInv
* `SpecMergeCarries`: Spec => MergeCarriesTheSchema
* `SpecRepeatIsSilent`: Spec => []RepeatIsSilent, assuming `NothingShared`

The views of a branch are a recursive function over its path, and a layer's own events a fold over a
set. Both are unfolded first (`ViewsFoldUp`, `FoldEnds`, `FoldTwice`, down to the recursion inside the
library's `FoldSet`), after which everything is induction over numbers. What one event keeps (`JoinedIs`
takes it apart) is carried up to a layer, a path and a log.

The invariant `IInv` says that the log is in order (`LogOK`: a delete is alone in its layer, a child's
layers are above its fork, a record names an earlier version and has a type that version's layer gives
its field), that the views of both branches fold at every layer (`ViewsOK`), that watermarks are on the
log, and that a round in progress has something to chase, runs migrations its branch has, and writes what
fits (`RoundOK`). `DefsInv` follows because of what a fold over any path has (`Mid`): the version in
force, the steps of a chain and the version of a producer are layers of the path at which the view says
so, and the steps of a chain are in order. `TypeOK` and the fit of records alone are not inductive: a
migration writes the shape its role's version has, which is only known because that version is a layer
where the field stands.

For merges the parent's log is compared with the child's, event by event: two views that agree on the
fields the child moved, and of which the second still has the parent's other fields, stay so when both
take an event of the child (`Alike`, `Carried`); the parent's own events since the fork are about other
fields, which is what `Diverged` checks. So the events fold on the parent, and end in the child's
definitions. The same argument serves a merge that dies half way, at every layer it reaches.

For repeats, `SaysInv` is that each branch's view says what it last took of every repo (`Says`), and that
what the log declares was declared by a description or by hand. Another repo's accepted push cannot
change what a repo said, because the fold rejects its events for fields it does not own, and because
repos share no producer. `NothingShared` states the latter, that a description is consistent with itself,
and that a repo never hands a field to another owner. TLC evaluates it (`BookSharesNothing`): it holds of
the descriptions of the runs, which include repos that claim each other's fields, and fails of
`Handover`, where the property fails too (see the further disagreements).

Only model-checked:

* Every liveness property (`Settles`, `Reached`, `StopEnds`, `Answered`, `EveryInvocationEnds`): liveness
  under fairness is outside what the prover does.
* `SettledIsFixpoint` and `LabelsReplay` of Derivation. Each says that an incremental computation agrees
  with a computation from nothing, in budgets chosen so that it does; an inductive invariant would have
  to carry why each stored value is the one a replay gives through crashes and partial merges.
* `LastWriteReachesAll` and `HalvesDoNotChase` of Definitions. Both are about values that travel through
  a whole round, wave by wave, and hold for chains whose migrations have names of their own; the invariant
  would have to say of every half-finished round how far each value has come.
* Stream: what a read of a registry answers is a RECURSIVE operator, without which its properties cannot
  be stated.

Induction over data as the library states it (over an operator) is outside what the prover can
instantiate. Induction over a set of numbers is not (`LeastNumber`, `EveryNumber`, which each module that
needs them proves for itself), and that is how the walk of `LayerLogProofs`, `retain`, the cascade and
the folds of Definitions are proved.

## 6. Not modelled

* The native executor: function calls in the same process, no state of its own.
* Values, parsing, ids, the CLI's arguments and printing, the generated SDKs: conversions without
  state that the properties tell apart. Byte framing, codecs, the health endpoint and the client's
  reconnection, for the same reason; a message arrives whole or not at all, and one that cannot be read
  is one message.
* Storage: scans of a buffer, and the rebuild of the cell index. A row batch is atomic, as SQLite's
  transactions make it.
* Derivation: progress reports, pausing of a branch, two settling rounds of one branch in full detail
  (Resolve has them from outside).
* `FrontierTracker::settled`, reads across versions, the lineage of `explain`.
* Deleting and listing branches; deleting a property through a write session, and the shapes of values.
* Config files; labels, digests and randomness of keys; reading a repo directory.
* Definitions has no renames, and one object of one type; a fork is never taken between a source layer
  and the derived layer that answers it, and ids of aborted layers are left out.
