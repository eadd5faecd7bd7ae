----------------------------- MODULE Derivation -----------------------------
(***************************************************************************)
(* The derivation engine of one branch: what a catch-up finds to do, the   *)
(* waves of concurrent producer runs on a round branch, the partial merge  *)
(* of the round, and what a process that dies in between leaves behind.    *)
(*                                                                         *)
(* Code: borg-engine/src/derive.rs (DerivationEngine), branch.rs           *)
(* (merge_round), index.rs (the dependency index), resolve.rs (watermarks),*)
(* projection.rs (rebuilding both), borg-core/src/transaction.rs (Round),  *)
(* borg-host/src/ops.rs (the poison table beside the store).               *)
(*                                                                         *)
(* The trunk holds committed layers only, in id order: how a layer comes   *)
(* to be committed is the business of LayerLog.  A layer's index in the    *)
(* trunk stands for its id.  One branch settles, one round at a time, and  *)
(* no producer is a migration, so a cell has one version.                  *)
(***************************************************************************)
EXTENDS Naturals, Sequences, FiniteSets

CONSTANTS
    Producers,       \* every producer of the instance
    Entity,          \* objects
    Buffer,          \* field buffers; a cell is a buffer and an object
    SourceOf(_),     \* ProducerDef.source: the buffer a producer maps over
    NextRead(_, _),  \* user code: the buffer a producer reads next, given
                     \* what it has read, or None once it needs no more
    Output(_, _, _), \* user code: what it writes, given its ClientVersion
                     \* and what it has read
    Value,           \* what clients write
    Tombstone,       \* a deleted record
    None,            \* no record
    Client,          \* the author of a source layer
    Budgets,         \* the bounds of each scenario an instance explores
    Limit            \* CYCLE_RERUN_LIMIT

(* What a scenario may spend: source layers of clients, pushes of producer   *)
(* code, failing runs and abandoned rounds, process deaths, uses of `derive  *)
(* --retry-broken` and of `--rebuild`; whether a client may land a layer     *)
(* while a round runs; the producers registered, whether they read each      *)
(* other, and the buffers clients write; the permits of a wave's semaphore.  *)
Budget == [source : Nat, push : Nat, fail : Nat, crash : Nat, retry : Nat,
           rebuild : Nat, midRound : BOOLEAN,
           producers : SUBSET Producers, circular : BOOLEAN,
           inputs : SUBSET Buffer, permits : Nat]

ASSUME DeriveAssumption ==
    /\ Budgets \subseteq Budget
    /\ Limit \in Nat \ {0}
    /\ \A b \in Budgets : b.permits > 0
    /\ Client \notin Producers
    /\ \A p \in Producers : SourceOf(p) \in Buffer

\* The buffer of existence cells, as a workload that deletes names it.
Object == "object"

VARIABLES
    trunk,      \* the branch's committed layers, in id order
    watermark,  \* FrontierTracker.watermarks, 0 for nothing incorporated
    edges,      \* MemoryDependencyIndex.read_sets, and so its dependents
    version,    \* ProducerDef.version: the def-layer each was pushed at
    broken,     \* FilePoison.table, as <<producer, version>>
    round,      \* the round in progress, NoRound between rounds
    call,       \* the catch-up that follows a command: due, or lost, or none
    left        \* what the scenario may still spend

vars == <<trunk, watermark, edges, version, broken, round, call, left>>

Producer    == left.producers  \* the registered producers
InputBuffer == left.inputs
Parallelism == left.permits
Cell        == Buffer \X Entity
Invocation  == Producer \X Entity

-----------------------------------------------------------------------------
(* Reading the branch *)

Highest(S) == CHOOSE n \in S : \A m \in S : m <= n

(* The value the trunk holds for a cell at a bound: the highest landing. *)
TrunkValue(c, bound) ==
    LET landed == {i \in 1..bound : c \in DOMAIN trunk[i].writes}
    IN IF landed = {} THEN None ELSE trunk[Highest(landed)].writes[c]

IsSource(i) == trunk[i].by = Client

(* DerivationEngine::position: a derived layer stands where its source does. *)
Position(i) == IF IsSource(i) THEN i ELSE trunk[i].reflects

(* What a round reflects: the top source layer it can see, and everything    *)
(* above that is derived from it or from less.                               *)
HighestSource == Highest({0} \cup {i \in DOMAIN trunk : IsSource(i)})

(* DerivationEngine::is_broken: an expired record no longer counts. *)
IsBroken(p) == <<p, version[p]>> \in broken

(* A round's layers that are committed, and the highest landing among the   *)
(* ones up to a bound of a cell; 0 for none.                                *)
Committed(log) == {i \in DOMAIN log : log[i].state = "committed"}

RoundHead(log) == Highest({0} \cup Committed(log))

Landing(log, within, c) ==
    Highest({0} \cup {i \in within \cap Committed(log) : c \in DOMAIN log[i].writes})

(* get_cell on the path [(round, bound), (trunk, fork point)]. *)
RoundValue(c, within) ==
    LET i == Landing(round.log, within, c)
    IN IF i = 0 THEN TrunkValue(c, round.forkAt) ELSE round.log[i].writes[c]

-----------------------------------------------------------------------------
(* The round *)

NoRound == [phase |-> "idle", forkAt |-> 0, reflects |-> 0, wave |-> {},
            todo |-> {}, log |-> <<>>, seeded |-> {},
            reruns |-> [i \in Invocation |-> 0], applied |-> {}, queue |-> <<>>]

Running == {i \in DOMAIN round.log : round.log[i].state = "open"}

(* One layer of a wave: where it stands, who wrote it, what it changed.     *)
Changeset(pos, by, cells) == [pos |-> pos, by |-> by, cells |-> cells]

OfTrunk(i) == Changeset(Position(i), trunk[i].by, DOMAIN trunk[i].writes)

\* Mutation: a range holds work whenever it holds a layer.
HasWorkAlways(from) == Len(trunk) > from

(* DerivationEngine::span: a range above `from` is work only if something in *)
(* it stands above `from` in the source stream.  Its top is the fork point.  *)
HasWork(from) == \E i \in (from + 1)..Len(trunk) : Position(i) > from

(* DerivationEngine::settle_span, as far as the first wave. *)
Begin(forkAt, reflects, layers) ==
    round' = [NoRound EXCEPT !.phase = "run", !.forkAt = forkAt,
                             !.reflects = reflects, !.wave = layers]

(* DerivationEngine::recover: a poisoning naming a version its producer has  *)
(* moved off is cleared, and the producer's watermark goes back to nothing.  *)
Expired == {b \in broken : b[2] # version[b[1]]}

(* FrontierTracker::rewind. *)
Rewound(producers) ==
    [p \in Producer |-> IF p \in producers THEN 0 ELSE watermark[p]]

Recovered == Rewound({b[1] : b \in Expired})

(* Where the producer that is furthest behind stands. *)
LowestMark(marks) ==
    IF Producer = {} THEN 0
    ELSE CHOOSE n \in {marks[p] : p \in Producer} : \A p \in Producer : n <= marks[p]

(* DerivationEngine::catch_up, of a command's own or by hand: one round over *)
(* what is outstanding, or none if nothing is.                               *)
CatchUp ==
    /\ round = NoRound
    /\ LET from == LowestMark(Recovered)
       IN \/ /\ HasWork(from)
             /\ Begin(Len(trunk), HighestSource,
                      {OfTrunk(i) : i \in (from + 1)..Len(trunk)})
          \/ ~HasWork(from) /\ call = "due" /\ UNCHANGED round
    /\ watermark' = Recovered
    /\ broken' = broken \ Expired
    /\ call' = "none"
    /\ UNCHANGED <<trunk, edges, version, left>>

(* auto_derive failing on its way to catch_up, to open a registry with an    *)
(* executor or to register the producers: the command reports it and is done.*)
CallFails ==
    /\ call = "due"
    /\ left.fail > 0
    /\ call' = "lost"
    /\ left' = [left EXCEPT !.fail = @ - 1]
    /\ UNCHANGED <<trunk, watermark, edges, version, broken, round>>

(* DerivationEngine::retry_broken, the verb before the catch-up.  The poison *)
(* table is a file; the watermark is not.                                    *)
RetryBroken ==
    LET live == broken \ Expired
    IN /\ round = NoRound
       /\ live # {}
       /\ left.retry > 0
       /\ broken' = broken \ live
       /\ watermark' = Rewound({b[1] : b \in live})
       /\ call' = "due"
       /\ left' = [left EXCEPT !.retry = @ - 1]
       /\ UNCHANGED <<trunk, edges, version, round>>

(* DerivationEngine::recompute: a round at the highest source layer, with    *)
(* every producer rewound.                                                   *)
Recompute ==
    /\ round = NoRound
    /\ HighestSource > 0
    /\ left.rebuild > 0
    /\ broken' = broken \ Expired
    /\ watermark' = [p \in Producer |-> 0]
    /\ Begin(HighestSource, HighestSource, {OfTrunk(HighestSource)})
    /\ left' = [left EXCEPT !.rebuild = @ - 1]
    /\ UNCHANGED <<trunk, edges, version, call>>

-----------------------------------------------------------------------------
(* Scheduling a wave *)

(* The layers of the wave a producer has not incorporated. *)
AheadOf(p) == {l \in round.wave : l.pos > watermark[p]}

(* DerivationEngine::invalidated_by: runs that read a cell the layer wrote,  *)
(* and new runs for writes into the producer's source buffer.                *)
InvalidatedBy(p, l) ==
    {i \in Invocation : i[1] = p /\ edges[i] \cap l.cells # {}}
      \cup {<<p, c[2]>> : c \in {d \in l.cells : d[1] = SourceOf(p) /\ l.by # p}}

(* DerivationEngine::backfill: the whole source buffer, for a producer that  *)
(* has never run here at this version.                                       *)
Backfill(p) ==
    IF watermark[p] # 0 /\ watermark[p] >= version[p] THEN {}
    ELSE {i \in Invocation :
            i[1] = p /\ RoundValue(<<SourceOf(p), i[2]>>, DOMAIN round.log) # None}

Schedulable(p) == ~IsBroken(p) /\ AheadOf(p) # {}

Candidates(p) ==
    IF ~Schedulable(p) THEN {}
    ELSE (UNION {InvalidatedBy(p, l) : l \in AheadOf(p)})
           \cup (IF p \in round.seeded THEN {} ELSE Backfill(p))

OverLimit(p) == {i \in Candidates(p) : round.reruns[i] >= Limit}

Poisoned(producers) ==
    {b \in broken : b[1] \notin producers} \cup {<<p, version[p]>> : p \in producers}

(* DerivationEngine::schedule.  A producer with an invocation past the limit *)
(* is poisoned and the scheduler leaves its candidates where it met that one,*)
(* so any of the others may or may not be in the wave.                       *)
Schedule ==
    /\ round.phase = "run"
    /\ round.wave # {}
    /\ round.todo = {}
    /\ Running = {}
    /\ LET cycling == {p \in Producer : OverLimit(p) # {}}
           all     == UNION {Candidates(p) \ OverLimit(p) : p \in Producer}
       IN \E kept \in SUBSET {i \in all : i[1] \in cycling} :
            LET work == {i \in all : i[1] \notin cycling} \cup kept
            IN /\ round' = [round EXCEPT
                     !.wave = {},
                     !.todo = work,
                     !.seeded = @ \cup {p \in Producer : Schedulable(p)},
                     !.reruns = [i \in Invocation |->
                                    IF i \in work THEN @[i] + 1 ELSE @[i]]]
               /\ broken' = Poisoned(cycling)
    /\ UNCHANGED <<trunk, watermark, edges, version, call, left>>

-----------------------------------------------------------------------------
(* Running a wave *)

PermitFree == Cardinality(Running) < Parallelism

(* A task of the wave takes a permit, opens its layer on the round branch    *)
(* and fixes its read path at the round's head.                              *)
Start(inv) ==
    /\ inv \in round.todo
    /\ PermitFree
    /\ round' = [round EXCEPT
           !.todo = @ \ {inv},
           !.log = Append(@, [inv |-> inv, state |-> "open", bound |-> RoundHead(@),
                              seen |-> <<>>, from |-> {}, writes |-> <<>>])]
    /\ UNCHANGED <<trunk, watermark, edges, version, broken, call, left>>

(* What a run has read, by buffer, as user code sees it. *)
SeenBuffers(entry) ==
    LET got == entry.seen
    IN [b \in {c[1] : c \in DOMAIN got} |-> got[<<b, entry.inv[2]>>]]

Wants(entry) == NextRead(entry.inv[1], SeenBuffers(entry))

Extend(f, c, v) == [d \in DOMAIN f \cup {c} |-> IF d = c THEN v ELSE f[d]]

(* RecordingCtx::get_at: one tracked read. *)
Read(i) ==
    LET entry == round.log[i]
        c     == <<Wants(entry), entry.inv[2]>>
        at    == Landing(round.log, 1..entry.bound, c)
    IN /\ i \in Running
       /\ Wants(entry) # None
       /\ round' = [round EXCEPT
              !.log[i].seen = Extend(@, c, RoundValue(c, 1..entry.bound)),
              !.log[i].from = @ \cup ({at} \ {0})]
       /\ UNCHANGED <<trunk, watermark, edges, version, broken, call, left>>

Written(inv, seen) ==
    LET out == Output(inv[1], version[inv[1]], seen)
    IN [c \in {<<b, inv[2]>> : b \in DOMAIN out} |-> out[c[1]]]

\* Mutation: the edges of an earlier run are never replaced.
RecordOnce(inv, cells) ==
    edges' = [edges EXCEPT ![inv] = IF @ = {} THEN cells ELSE @]

(* MemoryDependencyIndex::record: this run's edges replace the last run's.   *)
Record(inv, cells) == edges' = [edges EXCEPT ![inv] = cells]

(* DerivationEngine::run, succeeding: record, commit, tell the round.        *)
Finish(i) ==
    LET entry == round.log[i]
        out   == Written(entry.inv, SeenBuffers(entry))
    IN /\ i \in Running
       /\ Wants(entry) = None
       /\ Record(entry.inv, DOMAIN entry.seen)
       /\ round' = [round EXCEPT
              !.log[i].state = "committed",
              !.log[i].writes = out,
              !.wave = @ \cup {Changeset(round.reflects, entry.inv[1], DOMAIN out)}]
       /\ UNCHANGED <<trunk, watermark, version, broken, call, left>>

(* DerivationEngine::run, failing: abort the layer, poison the producer.     *)
Fail(i) ==
    /\ i \in Running
    /\ left.fail > 0
    /\ round' = [round EXCEPT !.log[i].state = "aborted",
                              !.log[i].seen = <<>>, !.log[i].from = {}]
    /\ broken' = Poisoned({round.log[i].inv[1]})
    /\ left' = [left EXCEPT !.fail = @ - 1]
    /\ UNCHANGED <<trunk, watermark, edges, version, call>>

(* settle_span returning early, on a panicked task or a storage error: the   *)
(* other tasks are cancelled and the round is dropped with its branch.  What *)
(* its runs recorded in the index stays, and no watermark advances.  Nobody  *)
(* calls again on its account: auto_derive warns and the command is done.    *)
Abandon ==
    /\ round # NoRound
    /\ left.fail > 0
    /\ round' = NoRound
    /\ call' = IF call = "due" THEN "due" ELSE "lost"
    /\ left' = [left EXCEPT !.fail = @ - 1]
    /\ UNCHANGED <<trunk, watermark, edges, version, broken>>

-----------------------------------------------------------------------------
(* Merging the round *)

(* LayerManager::check_reads: source cells written above the fork point.     *)
MovedSince(n) ==
    UNION {DOMAIN trunk[i].writes : i \in {j \in (n + 1)..Len(trunk) : IsSource(j)}}

(* BranchManager::deleted_since. *)
DeletedSince(n) ==
    {e \in Entity : \E i \in (n + 1)..Len(trunk) :
        /\ IsSource(i)
        /\ <<Object, e>> \in DOMAIN trunk[i].writes
        /\ trunk[i].writes[<<Object, e>>] = Tombstone}

Produced == UNION {DOMAIN round.log[i].writes : i \in Committed(round.log)}

(* Round::guards: the records a run read and the round did not produce.      *)
Guards(i) == DOMAIN round.log[i].seen \ Produced

\* Mutation: a deletion on the parent is not looked for.
FailedGuardsOnly ==
    {i \in Committed(round.log) : Guards(i) \cap MovedSince(round.forkAt) # {}}

Failed ==
    {i \in Committed(round.log) :
        \/ Guards(i) \cap MovedSince(round.forkAt) # {}
        \/ \E c \in DOMAIN round.log[i].writes : c[2] \in DeletedSince(round.forkAt)}

Consumes(i, j) == DOMAIN round.log[i].seen \cap DOMAIN round.log[j].writes # {}

\* Mutation: only the direct readers of a dropped run are dropped with it.
CascadeOnce(failed) ==
    failed \cup {i \in Committed(round.log) : \E j \in failed : Consumes(i, j)}

(* Round::cascade: everything that consumed a dropped run's output, and on.  *)
Cascade(failed) ==
    LET close[n \in 0..Len(round.log)] ==
            IF n = 0 THEN failed
            ELSE LET dropped == close[n - 1]
                 IN dropped \cup {i \in Committed(round.log) :
                                      \E j \in dropped : Consumes(i, j)}
    IN IF failed = {} THEN {} ELSE close[Len(round.log)]

ProducerOf(i) == round.log[i].inv[1]

Least(S) == CHOOSE n \in S : \A m \in S : n <= m

(* The producers with something to land, by the first layer of each.         *)
Groups(applied) ==
    LET firsts == {Least({j \in applied : ProducerOf(j) = ProducerOf(i)}) : i \in applied}
        rank[n \in 1..Cardinality(firsts)] ==
            CHOOSE f \in firsts : Cardinality({g \in firsts : g < f}) = n - 1
    IN [n \in 1..Cardinality(firsts) |-> ProducerOf(rank[n])]

(* BranchManager::merge_round, as far as its decision.  Every run of every   *)
(* wave has joined and the last wave dirtied nothing.                        *)
Decide ==
    /\ round.phase = "run"
    /\ round.wave = {}
    /\ round.todo = {}
    /\ Running = {}
    /\ LET applied == Committed(round.log) \ Cascade(Failed)
       IN round' = [round EXCEPT !.phase = "land", !.applied = applied,
                                 !.queue = Groups(applied)]
    /\ UNCHANGED <<trunk, watermark, edges, version, broken, call, left>>

(* The parent layer one producer's applied runs are regrouped into, named in *)
(* the order of their layers.                                                *)
GroupLayer(p) ==
    LET mine  == {i \in round.applied : ProducerOf(i) = p}
        cells == UNION {DOMAIN round.log[i].writes : i \in mine}
        last(c) == round.log[Landing(round.log, mine, c)]
        named == {round.log[i].inv : i \in {j \in mine : round.log[j].writes # <<>>}}
        final(inv) == Highest({i \in mine : /\ round.log[i].inv = inv
                                            /\ round.log[i].writes # <<>>})
    IN [by       |-> p,
        reflects |-> round.reflects,
        writes   |-> [c \in cells |-> last(c).writes[c]],
        reads    |-> [inv \in named |-> DOMAIN round.log[final(inv)].seen]]

(* FrontierTracker::advance never moves back. *)
Advanced(mark) == IF mark < round.reflects THEN round.reflects ELSE mark

(* merge_round, landing one producer's layer; an empty one is aborted.       *)
Land ==
    /\ round.phase = "land"
    /\ round.queue # <<>>
    /\ LET p     == round.queue[1]
           layer == GroupLayer(p)
       IN IF layer.writes = <<>>
          THEN UNCHANGED <<trunk, watermark>>
          ELSE /\ trunk' = Append(trunk, layer)
               /\ watermark' = [watermark EXCEPT ![p] = Advanced(@)]
    /\ round' = [round EXCEPT !.queue = Tail(@)]
    /\ UNCHANGED <<edges, version, broken, call, left>>

(* settle_span, its last loop: every producer has incorporated the range,    *)
(* the broken and the dropped included.                                      *)
Advance ==
    /\ round.phase = "land"
    /\ round.queue = <<>>
    /\ watermark' = [p \in Producer |-> Advanced(watermark[p])]
    /\ round' = NoRound
    /\ UNCHANGED <<trunk, edges, version, broken, call, left>>

-----------------------------------------------------------------------------
(* The world around the engine *)

SourceLayer(writes) ==
    [by |-> Client, reflects |-> 0, writes |-> writes, reads |-> <<>>]

(* A client's layer landing, by a command that goes on to auto_derive. *)
ClientWrite(c, v) ==
    /\ left.midRound \/ round = NoRound
    /\ left.source > 0
    /\ trunk' = Append(trunk, SourceLayer([d \in {c} |-> v]))
    /\ call' = "due"
    /\ left' = [left EXCEPT !.source = @ - 1]
    /\ UNCHANGED <<watermark, edges, version, broken, round>>

(* A push of new code: a def-layer, which is the producer's new version.     *)
Push(p) ==
    /\ round = NoRound
    /\ left.push > 0
    /\ trunk' = Append(trunk, SourceLayer(<<>>))
    /\ version' = [version EXCEPT ![p] = Len(trunk) + 1]
    /\ call' = "due"
    /\ left' = [left EXCEPT !.push = @ - 1]
    /\ UNCHANGED <<watermark, edges, broken, round>>

(* DependencyProjection: the read-set of the last landed run. *)
Rebuilt(inv) ==
    LET named == {i \in DOMAIN trunk : ~IsSource(i) /\ inv \in DOMAIN trunk[i].reads}
    IN IF named = {} THEN {} ELSE trunk[Highest(named)].reads[inv]

(* FrontierProjection: the highest source layer a landed layer speaks for.   *)
RebuiltMark(p) ==
    Highest({0} \cup {trunk[i].reflects : i \in {j \in DOMAIN trunk : trunk[j].by = p}})

(* The process dies and the store is opened again: the round is gone, the    *)
(* dependency index and the watermarks are folded from the landed layers.    *)
(* Opening a store derives nothing.                                          *)
Crash ==
    /\ left.crash > 0
    /\ edges' = [inv \in Invocation |-> Rebuilt(inv)]
    /\ watermark' = [p \in Producer |-> RebuiltMark(p)]
    /\ round' = NoRound
    /\ call' = "lost"
    /\ left' = [left EXCEPT !.crash = @ - 1]
    /\ UNCHANGED <<trunk, version, broken>>

-----------------------------------------------------------------------------

(* A registry whose producers were pushed at layer 1 and never ran yet. *)
Init ==
    /\ left \in Budgets
    /\ trunk = <<SourceLayer(<<>>)>>
    /\ watermark = [p \in Producer |-> 0]
    /\ edges = [inv \in Invocation |-> {}]
    /\ version = [p \in Producer |-> 1]
    /\ broken = {}
    /\ round = NoRound
    /\ call = "due"

RoundStep ==
    \/ Schedule
    \/ \E inv \in round.todo : Start(inv)
    \/ \E i \in Running : Read(i) \/ Finish(i)
    \/ Decide
    \/ Land
    \/ Advance

ClientValue(b) == IF b = Object THEN Value \cup {Tombstone} ELSE Value

Next ==
    \/ CatchUp \/ CallFails
    \/ RoundStep
    \/ \E i \in Running : Fail(i)
    \/ Abandon
    \/ RetryBroken
    \/ Recompute
    \/ \E b \in InputBuffer, e \in Entity : \E v \in ClientValue(b) :
          ClientWrite(<<b, e>>, v)
    \/ \E p \in Producer : Push(p)
    \/ Crash

Spec == Init /\ [][Next]_vars

(* A command that wrote, pushed or retried calls catch_up once before it is  *)
(* done, and the tasks of a round are driven by the runtime until they join. *)
(* Nobody is bound to call again for a round that was abandoned.             *)
FairSpec == Spec /\ WF_vars(call = "due" /\ CatchUp) /\ WF_vars(RoundStep)

-----------------------------------------------------------------------------
(* Properties *)

(* Every variable has its shape, across rounds, pushes and restarts          *)
(* (derive.rs span, settle_span): watermarks and versions name trunk layers, *)
(* a derived layer reflects a source layer below it, and a round's decision  *)
(* is about layers its runs committed.                                       *)
TypeOK ==
    /\ \A i \in DOMAIN trunk :
          /\ trunk[i].by \in Producer \cup {Client}
          /\ DOMAIN trunk[i].writes \subseteq Cell
          /\ ~IsSource(i) => trunk[i].reflects \in 1..(i - 1) /\ IsSource(trunk[i].reflects)
    /\ watermark \in [Producer -> 0..Len(trunk)]
    /\ edges \in [Invocation -> SUBSET Cell]
    /\ version \in [Producer -> DOMAIN trunk]
    /\ broken \subseteq Producer \X DOMAIN trunk
    /\ round.phase \in {"idle", "run", "land"}
    /\ call \in {"none", "due", "lost"}
    /\ round.applied \subseteq Committed(round.log)

(* Nothing left to do: catch_up would return without forking anything. *)
Settled ==
    /\ round = NoRound
    /\ Expired = {}
    /\ ~HasWork(LowestMark(watermark))

(* The value of a cell in the world at source layer r: the highest landing   *)
(* of a layer that stands at r or below.                                     *)
ValueAt(c, r) ==
    LET landed == {i \in DOMAIN trunk : Position(i) <= r /\ c \in DOMAIN trunk[i].writes}
    IN IF landed = {} THEN None ELSE trunk[Highest(landed)].writes[c]

(* What running a producer to the end in the world at r would write. *)
Replayed(inv, r) ==
    LET more(seen) ==
            LET b == NextRead(inv[1], seen)
            IN IF b = None THEN seen ELSE Extend(seen, b, ValueAt(<<b, inv[2]>>, r))
        steps[n \in 0..Cardinality(Buffer)] ==
            IF n = 0 THEN <<>> ELSE more(steps[n - 1])
    IN Written(inv, steps[Cardinality(Buffer)])

(* Once catch_up says nothing is outstanding, nothing is (derive.rs:520,     *)
(* SPEC 16.5): re-running any producer that is not broken, over any object   *)
(* of its source buffer, would write what the branch already holds, with     *)
(* today's code.  It is what watermarks, edges and dropped runs are for.     *)
SettledIsFixpoint ==
    Settled =>
        \A inv \in Invocation :
            LET now == Len(trunk)
                out == Replayed(inv, now)
            IN (/\ ~IsBroken(inv[1])
                /\ ValueAt(<<SourceOf(inv[1]), inv[2]>>, now) # None)
               => \A c \in DOMAIN out : ValueAt(c, now) = out[c]

(* A round lands no value computed from a sibling's that it dropped          *)
(* (Round::cascade): every record a landed run was served from the round     *)
(* branch is the output of a run that lands too.                             *)
LandedIsClosed ==
    \A i \in round.applied : round.log[i].from \subseteq round.applied

(* The shape of a round and of the branch, and that what landed is closed    *)
(* (branch.rs merge_round, Round::cascade).                                  *)
DeriveInv == TypeOK /\ LandedIsClosed

(* A round lands nothing on an object the parent had deleted since the fork  *)
(* when merge_round decided (branch.rs deleted_since), read or unread.       *)
NothingResurrected ==
    [][Decide => \A i \in round'.applied : \A c \in DOMAIN round.log[i].writes :
            \A n \in (round.forkAt + 1)..Len(trunk) :
                IsSource(n) /\ <<Object, c[2]>> \in DOMAIN trunk[n].writes
                    => trunk[n].writes[<<Object, c[2]>>] # Tombstone]_vars

(* A landed value is labelled with the source layer it reflects (derive.rs   *)
(* settle_span), and that is a claim: replay the world at that layer and you *)
(* get exactly this.  It is a claim about today's code, so not about output  *)
(* older than the last push, nor about producers that read each other.       *)
LabelsReplay ==
    round = NoRound /\ ~left.circular =>
        \A inv \in Invocation, c \in Cell :
            LET landed == {i \in DOMAIN trunk : /\ trunk[i].by = inv[1]
                                               /\ c \in DOMAIN trunk[i].writes
                                               /\ c[2] = inv[2]}
            IN landed # {} =>
                LET i   == Highest(landed)
                    out == Replayed(inv, trunk[i].reflects)
                IN version[inv[1]] <= trunk[i].reflects =>
                    c \in DOMAIN out /\ trunk[i].writes[c] = out[c]

(* Once clients stop, every round ends whatever the producers do to each     *)
(* other, and one catch-up after the last of them settles the branch for     *)
(* good: reruns are counted, and span counts work by position in the source  *)
(* stream, so a catch-up does not chase its own output (derive.rs:541 and    *)
(* CYCLE_RERUN_LIMIT).  Unless that catch-up failed or its process died: it  *)
(* is reported, and not made again until the next command (ops.rs:1307).     *)
Settles == <>[](Settled \/ call = "lost")
=============================================================================
