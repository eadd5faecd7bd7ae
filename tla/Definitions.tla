----------------------------- MODULE Definitions -----------------------------
(***************************************************************************)
(* Definitions as a fold of the def-event stream, and what rests on it:     *)
(* pushing a repo as a diff, forking and merging a schema, writing at a     *)
(* ClientVersion, and the migrations that carry one write to every version  *)
(* (borg-engine/src/defs.rs, borg-core/src/def.rs, borg-host/src/push.rs,   *)
(* the merge of borg-engine/src/branch.rs and the migration half of         *)
(* borg-engine/src/derive.rs).                                              *)
(*                                                                         *)
(* One object of one struct, so a field is a cell. A def-version is the     *)
(* layer that made it. A type is a name, and a value is its type and the    *)
(* client write it descends from. Every operation runs under the registry's *)
(* gate, a round included: rounds that race operations are Derivation's.    *)
(* The ids of aborted layers are not modelled, so layer ids are dense.      *)
(***************************************************************************)
EXTENDS Integers, Sequences, FiniteSets, FiniteSetsExt

CONSTANTS
    Field,         \* the fields of the struct
    Repo,          \* the repos that push
    Name,          \* producer names
    Type,          \* the types of fields
    Code,          \* fingerprints of implementations
    None,          \* Option::None of a name
    Descriptions,  \* what a repo's scripts can describe, each with an id
    Scenarios      \* what may happen: see Init

Branch == {"main", "child"}
Source == "source"      \* Ownership::Source
Owner  == Name \cup {Source}

FieldSpec == [field : Field, type : Type, owner : Owner, up : Name \cup {None},
              down : Name \cup {None}, print : Code \cup {None}]

\* What `def push` takes.
ByHand == [kind : {"declare"}, field : Field, type : Type, repo : Repo, owner : Owner]
     \cup [kind : {"mutate"}, field : Field, type : Type, repo : Repo, up : Name,
           down : Name \cup {None}]
     \cup [kind : {"delete"}, field : Field, repo : Repo]

\* How many of each operation may happen, by which descriptions, events and merges.
Budget == [pushes : Nat, events : Nat, writes : Nat, forks : Nat, merges : Nat, crashes : Nat,
           repos : SUBSET Nat, vocabulary : SUBSET ByHand,
           modes : SUBSET {"DefOnly", "DefAndData"}]

\* `None` is nothing else, and an id is one description.
ASSUME DefinitionsAssumption ==
    /\ None \notin Branch \cup Owner \cup {"pipeline", "up", "down"}
    /\ \A d \in Descriptions :
          /\ d.id \in Nat \ {0} /\ d.repo \in Repo
          /\ d.fields \subseteq FieldSpec /\ IsFiniteSet(d.fields)
          /\ d.pipelines \subseteq [name : Name, print : Code \cup {None}]
          /\ IsFiniteSet(d.pipelines)
          /\ \A e \in Descriptions : e.id = d.id => e = d
    /\ Scenarios \subseteq Budget

VARIABLES
    log,        \* the layers, a layer's id being its place
    forkAt,     \* the child branch's origin, 0 while there is no child
    accepted,   \* the id of the description each branch last took of a repo
    mark,       \* the watermark of each branch's producers
    round,      \* the round in progress
    left        \* the scenario's budget

vars == <<log, forkAt, accepted, mark, round, left>>

Nobody == 0             \* no description accepted

NoField == [type |-> None, repo |-> None, owner |-> None, version |-> 0]
NoProducer == [role |-> None, field |-> None, repo |-> None, print |-> None, version |-> 0]

-----------------------------------------------------------------------------
(* The def events.                                                          *)

Declare(f, t, r, o) ==
    [kind |-> "declare", field |-> f, type |-> t, repo |-> r, owner |-> o]

Mutate(f, t, r, u, d) ==
    [kind |-> "mutate", field |-> f, type |-> t, repo |-> r, up |-> u, down |-> d]

Delete(f, r) == [kind |-> "delete", field |-> f, repo |-> r]

\* `field` is the buffer a migration maps over, and None for a pipeline.
PushProducer(n, role, f, r, print) ==
    [kind |-> "producer", name |-> n, role |-> role, field |-> f, repo |-> r, print |-> print]

\* Mutation: only a mutation counts as moving a definition.
TouchesMutations(e) == IF e.kind = "mutate" THEN {e.field} ELSE {}

Touches(e) == IF e.kind = "producer" THEN {} ELSE {e.field}

-----------------------------------------------------------------------------
(* DefView: the fold.                                                       *)

EmptyView == [ok        |-> TRUE,
              fields    |-> [f \in Field |-> NoField],
              chains    |-> [f \in Field |-> <<>>],
              producers |-> [n \in Name |-> NoProducer]]

\* DefView::apply's rejections.
Refused(view, e) ==
    e.kind # "producer" /\
    LET old == view.fields[e.field]
    IN  \/ /\ e.kind = "declare"
           /\ old.version # 0
           /\ <<old.type, old.repo, old.owner>> # <<e.type, e.repo, e.owner>>
        \/ e.kind = "mutate" /\ (old.version = 0 \/ old.repo # e.repo \/ old.owner # Source)
        \/ e.kind = "delete" /\ old.version # 0 /\ old.repo # e.repo

\* DefView::apply, for an event it does not reject.
Applied(view, e, at) ==
    CASE e.kind = "declare" ->
           IF view.fields[e.field].version # 0 THEN view
           ELSE [view EXCEPT !.fields[e.field] =
                   [type |-> e.type, repo |-> e.repo, owner |-> e.owner, version |-> at]]
      [] e.kind = "mutate" ->
           [view EXCEPT
              !.chains[e.field] = Append(@, [from |-> view.fields[e.field].version, to |-> at,
                                             up |-> e.up, down |-> e.down]),
              !.fields[e.field].type = e.type,
              !.fields[e.field].version = at]
      [] e.kind = "delete" -> [view EXCEPT !.fields[e.field] = NoField]
      [] OTHER ->
           [view EXCEPT !.producers[e.name] =
              [role |-> e.role, field |-> e.field, repo |-> e.repo,
               print |-> e.print, version |-> at]]

\* The events of one layer are about different definitions, so they commute.
FoldLayer(view, events, at) ==
    FoldSet(LAMBDA e, v : IF ~v.ok \/ Refused(v, e) THEN [v EXCEPT !.ok = FALSE]
                          ELSE Applied(v, e, at),
            view, events)

\* A read path: the branch's own layers, and its parent's up to the fork.
OnPath(b) == {i \in DOMAIN log : log[i].on = b \/ (b = "child" /\ log[i].on = "main" /\ i <= forkAt)}

\* DefRegistry::view_at for every ceiling at once; view is the last of them.
ViewsAt(b) ==
    LET path == OnPath(b)
        fold[i \in 0..Len(log)] ==
            IF i = 0 THEN EmptyView
            ELSE IF i \in path THEN FoldLayer(fold[i - 1], log[i].events, i)
            ELSE fold[i - 1]
    IN  fold

ViewAt(b, ceiling) == ViewsAt(b)[ceiling]
View(b) == ViewAt(b, Len(log))

\* Iterator::filter: the elements of a sequence at some of its places, in order.
Filtered(s, places) ==
    LET kept[n \in 0..Len(s)] ==
            IF n = 0 THEN <<>>
            ELSE IF n \in places THEN Append(kept[n - 1], s[n]) ELSE kept[n - 1]
    IN  kept[Len(s)]

\* DefView::path: the hops from one version of a field to another, or none.
Path(view, f, from, to) ==
    LET chain == view.chains[f]
        between(low, high) == {i \in DOMAIN chain : chain[i].from >= low /\ chain[i].to <= high}
        ups   == Filtered(chain, between(from, to))
        downs == Filtered(chain, between(to, from))
        back(i) == downs[Len(downs) + 1 - i]
    IN  CASE from = to    -> [found |-> TRUE, hops |-> <<>>]
          [] from # to /\ chain = <<>> -> [found |-> FALSE, hops |-> <<>>]
          [] from < to /\ chain # <<>> ->
               [found |-> TRUE,
                hops  |-> [i \in DOMAIN ups |-> [from |-> ups[i].from, to |-> ups[i].to]]]
          [] from > to /\ chain # <<>> ->
               [found |-> \A i \in DOMAIN downs : downs[i].down # None,
                hops  |-> [i \in DOMAIN downs |-> [from |-> back(i).to, to |-> back(i).from]]]

\* DefView::migration_role, of the first step that names the migration.
Roles(view, n) ==
    LET p     == view.producers[n]
        chain == IF p.role \in {"up", "down"} THEN view.chains[p.field] ELSE <<>>
        named == {i \in DOMAIN chain : IF p.role = "up" THEN chain[i].up = n ELSE chain[i].down = n}
    IN  IF named = {} THEN {}
        ELSE LET s == chain[Min(named)]
             IN  {[name   |-> n, field |-> p.field,
                   input  |-> IF p.role = "up" THEN s.from ELSE s.to,
                   output |-> IF p.role = "up" THEN s.to ELSE s.from,
                   step   |-> {s.up, s.down} \ {None}]}

RolesOn(b) == LET view == View(b) IN UNION {Roles(view, n) : n \in Name}

-----------------------------------------------------------------------------
(* The data: what is stored at each version of a field.                     *)

Keyed(cells, f, v) == {c \in cells : c.field = f /\ c.version = v}

\* StorageProvider::get_cell: the highest layer of the path that has the record.
CellsAt(b, f, v) ==
    LET have == {i \in OnPath(b) : Keyed(log[i].cells, f, v) # {}}
    IN  IF have = {} THEN {} ELSE Keyed(log[Max(have)].cells, f, v)

\* WriteSession::put as a client: shape from its own view, permission from the branch's.
MayWrite(b, f, own, authority) ==
    LET declared  == own.fields[f]
        governing == IF authority.fields[f].version # 0 THEN authority.fields[f] ELSE declared
    IN  declared.version # 0 /\ governing.owner = Source

WrittenBy(f, own, root) ==
    {[field |-> f, version |-> own.fields[f].version, type |-> own.fields[f].type,
      by |-> "client", root |-> root]}

-----------------------------------------------------------------------------
(* A repo push is a diff against the view.                                  *)

\* Every producer a push lands: its pipelines, and the migrations its fields name.
Described(d) ==
    {PushProducer(p.name, "pipeline", None, d.repo, p.print) : p \in d.pipelines} \cup
    {PushProducer(s.up, "up", s.field, d.repo, s.print) : s \in {s \in d.fields : s.up # None}} \cup
    {PushProducer(s.down, "down", s.field, d.repo, s.print) : s \in {s \in d.fields : s.down # None}}

\* Mutation: a producer nothing can fingerprint counts as changed.
UnchangedFingerprint(old, e) ==
    /\ old.version # 0
    /\ <<old.role, old.field, old.repo>> = <<e.role, e.field, e.repo>>
    /\ e.print # None /\ old.print = e.print

\* producer_change: whether this one is a repeat of what is in force.
Unchanged(old, e) ==
    /\ old.version # 0
    /\ <<old.role, old.field, old.repo>> = <<e.role, e.field, e.repo>>
    /\ e.print = None \/ old.print = e.print

Moved(view, s) == view.fields[s.field].version # 0 /\ view.fields[s.field].type # s.type

Repeats(view, d, s) ==
    LET old == view.fields[s.field]
    IN  old.version # 0 /\ <<old.type, old.repo, old.owner>> = <<s.type, d.repo, s.owner>>

PushEvents(view, d) ==
    {e \in Described(d) : ~Unchanged(view.producers[e.name], e)} \cup
    {Mutate(s.field, s.type, d.repo, s.up, s.down) : s \in {s \in d.fields : Moved(view, s)}} \cup
    {Declare(s.field, s.type, d.repo, s.owner) :
        s \in {s \in d.fields : ~Moved(view, s) /\ ~Repeats(view, d, s)}}

\* What repo_push rejects before it asks the fold.
Unpushable(view, d) ==
    \E s \in d.fields :
        \/ Moved(view, s) /\ (view.fields[s.field].owner # Source \/ s.up = None)
        \/ ~Moved(view, s) /\ s.owner # Source /\ s.owner \notin {e.name : e \in Described(d)}

-----------------------------------------------------------------------------
(* Rounds, for migrations.                                                  *)

Idle == [on |-> None, pending |-> {}, reading |-> {}, fresh |-> {}, out |-> {}, ran |-> <<>>]

Exists(b) == b = "main" \/ forkAt # 0

\* span: the branch's own layers above its watermark, if one is a source layer.
Unchased(b) == {i \in mark[b] + 1..Len(log) : log[i].on = b /\ log[i].kind # "derived"}
Unsettled(b) == Unchased(b) # {}

\* The registry's gate is free: its last holder chased what it committed before
\* it answered (auto_derive). A branch whose derivation is paused is not modelled.
Free == round.on = None /\ \A b \in Branch : ~Unsettled(b)

\* Mutation: only its own output is not its input.
PeerSelf(role, c) == c.by = role.name

\* A migration is not triggered by either half of its own step.
Peer(role, c) == c.by \in role.step

\* invalidated_by: a write of the role's input version by somebody else.
Triggered(role, cells) == \E c \in Keyed(cells, role.field, role.input) : ~Peer(role, c)

\* backfill: a producer standing below its own version owes what is already there.
Owes(b, role) ==
    /\ mark[b] < View(b).producers[role.name].version
    /\ Triggered(role, CellsAt(b, role.field, role.input))

\* The round's own output, over the branch below it.
RoundCell(b, f, v) ==
    IF Keyed(round.out, f, v) # {} THEN Keyed(round.out, f, v) ELSE CellsAt(b, f, v)

-----------------------------------------------------------------------------
Cell == [field : Field, version : Nat \ {0}, type : Type, by : Name \cup {"client"},
         root : Nat \ {0}]

TypeOK ==
    /\ \A i \in DOMAIN log : /\ log[i].on \in Branch
                             /\ log[i].kind \in {"def", "source", "derived"}
                             /\ log[i].cells \subseteq Cell
                             /\ \A c \in log[i].cells : c.version < i
    /\ forkAt \in 0..Len(log)
    /\ \A b \in Branch : mark[b] \in 0..Len(log)
    /\ round.on \in Branch \cup {None}
    /\ round.pending # {} => round.pending \subseteq RolesOn(round.on)

Init ==
    /\ log = <<>>
    /\ forkAt = 0
    /\ accepted = [b \in Branch |-> [r \in Repo |-> Nobody]]
    /\ mark = [b \in Branch |-> 0]
    /\ round = Idle
    /\ left \in Scenarios

\* Every layer below is appended by one commit.
Layer(b, kind, events, cells) == [on |-> b, kind |-> kind, events |-> events, cells |-> cells]

(* DefRegistry::push, as `def push` reaches it: validated, then a layer.    *)
DefPush(b, e) ==
    /\ Free /\ Exists(b) /\ left.events > 0
    /\ FoldLayer(View(b), {e}, Len(log) + 1).ok
    /\ log' = Append(log, Layer(b, "def", {e}, {}))
    /\ accepted' = [accepted EXCEPT ![b] = [r \in Repo |-> Nobody]]
    /\ left' = [left EXCEPT !.events = @ - 1]
    /\ UNCHANGED <<forkAt, mark, round>>

(* push.rs repo_push: nothing to say is no layer.                           *)
RepoPush(b, d) ==
    LET view   == View(b)
        events == PushEvents(view, d)
    IN  /\ Free /\ Exists(b) /\ left.pushes > 0
        /\ ~Unpushable(view, d)
        /\ FoldLayer(view, events, Len(log) + 1).ok
        /\ log' = IF events = {} THEN log ELSE Append(log, Layer(b, "def", events, {}))
        /\ accepted' = [accepted EXCEPT ![b][d.repo] = d.id]
        /\ left' = [left EXCEPT !.pushes = @ - 1]
        /\ UNCHANGED <<forkAt, mark, round>>

(* BranchManager::fork, at a layer of the parent that is not waiting for its  *)
(* round's output: a fork between the two is not modelled.                   *)
Fork(at) ==
    /\ Free /\ left.forks > 0 /\ forkAt = 0
    /\ log[at].on = "main"
    /\ at < Len(log) => log[at + 1].kind # "derived"
    /\ forkAt' = at
    /\ accepted' = [accepted EXCEPT !["child"] = IF at = Len(log) THEN accepted["main"] ELSE @]
    /\ left' = [left EXCEPT !.forks = @ - 1]
    /\ UNCHANGED <<log, mark, round>>

\* The child's own layers that a merge carries: no round's output, and in a merge of
\* definitions no data.
Crossing(mode) == {i \in DOMAIN log : /\ log[i].on = "child" /\ log[i].kind # "derived"
                                      /\ mode = "DefOnly" => log[i].kind = "def"}

\* Mutation: the newest layer crosses first.
ReplayableNewestFirst(mode) ==
    LET layers == Filtered(log, Crossing(mode))
    IN  [i \in DOMAIN layers |-> layers[Len(layers) + 1 - i]]

(* BranchManager::replay: the layers of the child that cross, oldest first,  *)
(* and the fields the parent has moved since the fork.                       *)
Replayable(mode) == Filtered(log, Crossing(mode))

DefsTouchedSince(at) ==
    UNION {UNION {Touches(e) : e \in log[i].events} : i \in {i \in at + 1..Len(log) : log[i].on = "main"}}

Diverged(layers) ==
    \E i \in DOMAIN layers : \E e \in layers[i].events :
        Touches(e) \cap DefsTouchedSince(forkAt) # {}

\* The parent's layers name the child's events: a new layer, the same contents.
Replayed(l) == Layer("main", l.kind, l.events, l.cells)

(* A merge, validated whole and applied layer by layer: the process may die  *)
(* with some of them landed.                                                 *)
Merge(mode, landed) ==
    LET layers == Replayable(mode)
    IN  /\ Free /\ Exists("child") /\ left.merges > 0
        /\ layers # <<>> /\ ~Diverged(layers)
        /\ landed \in 1..Len(layers)
        /\ landed < Len(layers) => left.crashes > 0
        /\ log' = log \o [i \in 1..landed |-> Replayed(layers[i])]
        /\ accepted' = [accepted EXCEPT !["main"] = [r \in Repo |-> Nobody]]
        /\ left' = [left EXCEPT !.merges = @ - 1,
                                !.crashes = IF landed < Len(layers) THEN @ - 1 ELSE @]
        /\ UNCHANGED <<forkAt, mark, round>>

(* WriteSession::set and commit, by a client at ClientVersion c.            *)
Write(b, f, c) ==
    LET own == ViewAt(b, c)
    IN  /\ Free /\ Exists(b) /\ left.writes > 0
        /\ c \in OnPath(b) /\ log[c].kind = "def"
        /\ MayWrite(b, f, own, View(b))
        /\ log' = Append(log, Layer(b, "source", {}, WrittenBy(f, own, Len(log) + 1)))
        /\ left' = [left EXCEPT !.writes = @ - 1]
        /\ UNCHANGED <<forkAt, accepted, mark, round>>

(* DerivationEngine::settle_span over every layer above the watermark.      *)
BeginRound(b) ==
    /\ round.on = None /\ Unsettled(b)
    /\ round' = [Idle EXCEPT
                   !.on = b,
                   !.pending = {role \in RolesOn(b) :
                       \/ Owes(b, role)
                       \/ \E i \in Unchased(b) : Triggered(role, log[i].cells)}]
    /\ UNCHANGED <<log, forkAt, accepted, mark, left>>

(* ProducerCtx::get_input: the source cell, at the role's input version.    *)
Consume(role) ==
    /\ role \in round.pending
    /\ round' = [round EXCEPT
                   !.pending = @ \ {role},
                   !.reading = @ \cup ({role} \X RoundCell(round.on, role.field, role.input))]
    /\ UNCHANGED <<log, forkAt, accepted, mark, left>>

\* What it writes: keyed and shaped by the view at the version it produces.
Migrated(role, c, own) ==
    [field |-> role.field, version |-> own.fields[role.field].version,
     type |-> own.fields[role.field].type, by |-> role.name, root |-> c.root]

\* Mutation: its session is opened at the branch's head view.
ProduceAtHead(run) ==
    LET role == run[1]
        cell == Migrated(role, run[2], View(round.on))
    IN  /\ run \in round.reading
        /\ round' = [round EXCEPT
                       !.reading = @ \ {run},
                       !.fresh = @ \cup {cell},
                       !.out = (@ \ Keyed(@, cell.field, cell.version)) \cup {cell},
                       !.ran = Append(@, role.name)]
        /\ UNCHANGED <<log, forkAt, accepted, mark, left>>

Produce(run) ==
    LET role == run[1]
        cell == Migrated(role, run[2], ViewAt(round.on, role.output))
    IN  /\ run \in round.reading
        /\ round' = [round EXCEPT
                       !.reading = @ \ {run},
                       !.fresh = @ \cup {cell},
                       !.out = (@ \ Keyed(@, cell.field, cell.version)) \cup {cell},
                       !.ran = Append(@, role.name)]
        /\ UNCHANGED <<log, forkAt, accepted, mark, left>>

(* The wave's layers trigger the next wave.                                 *)
NextWave ==
    /\ round.pending = {} /\ round.reading = {} /\ round.fresh # {}
    /\ round' = [round EXCEPT
                   !.pending = {role \in RolesOn(round.on) : Triggered(role, round.fresh)},
                   !.fresh = {}]
    /\ UNCHANGED <<log, forkAt, accepted, mark, left>>

(* merge_round, and the watermark; one layer for the round's producers.     *)
EndRound ==
    /\ round.on # None
    /\ round.pending = {} /\ round.reading = {} /\ round.fresh = {}
    /\ log' = IF round.out = {} THEN log
              ELSE Append(log, Layer(round.on, "derived", {}, round.out))
    /\ mark' = [mark EXCEPT ![round.on] = Max(Unchased(round.on))]
    /\ round' = Idle
    /\ UNCHANGED <<forkAt, accepted, left>>

Next ==
    \/ \E b \in Branch, e \in left.vocabulary : DefPush(b, e)
    \/ \E b \in Branch, d \in Descriptions : d.id \in left.repos /\ RepoPush(b, d)
    \/ \E at \in DOMAIN log : Fork(at)
    \/ \E mode \in left.modes, landed \in 1..Len(log) : Merge(mode, landed)
    \/ \E b \in Branch, f \in Field, c \in DOMAIN log : Write(b, f, c)
    \/ \E b \in Branch : BeginRound(b)
    \/ \E role \in round.pending : Consume(role)
    \/ \E run \in round.reading : Produce(run)
    \/ NextWave
    \/ EndRound

Spec == Init /\ [][Next]_vars

-----------------------------------------------------------------------------
(* Properties. A round changes no layer until it ends, so what is said of    *)
(* the log is said between rounds.                                          *)

AtRest == round.on = None

\* What a reader of the branch can still fold: no accepted push, merge or
\* half-finished merge leaves a def-event stream that DefView::apply rejects,
\* at any ClientVersion (defs.rs push, branch.rs DefDiverged).
ViewsFold ==
    AtRest => \A b \in Branch : Exists(b) => LET views == ViewsAt(b)
                                          IN  \A c \in OnPath(b) : views[c].ok

\* The type a def layer gives a field.
TypeNamed(f, v) == {e.type : e \in {e \in log[v].events :
                                        e.kind \in {"declare", "mutate"} /\ e.field = f}}

\* A record has the shape its own version names, on every branch that carries
\* it: a client or a migration old enough to write an old shape keys it by the
\* old version (write.rs put, "at the writer's own view").
RecordsFit ==
    AtRest => \A i \in DOMAIN log : \A c \in log[i].cells : c.type \in TypeNamed(c.field, c.version)

\* A field's present life on a branch: the versions its chain links to the
\* one in force.
Life(view, f) ==
    LET chain == view.chains[f]
        first == {i \in DOMAIN chain : \A j \in i..Len(chain) - 1 : chain[j].to = chain[j + 1].from}
    IN  IF view.fields[f].version = 0 THEN {}
        ELSE IF chain = <<>> \/ chain[Len(chain)].to # view.fields[f].version
        THEN {view.fields[f].version}
        ELSE {chain[i].from : i \in first} \cup {chain[i].to : i \in first}

\* The hops between two versions of a field's present life start at one, end
\* at the other and leave no gap, up and down; and "broken" is answered only
\* when a push on the way gave no `down` (defs.rs path).
PathsArrive ==
    \A b \in Branch : (AtRest /\ Exists(b)) =>
        LET view == View(b) IN
        \A f \in Field : \A from, to \in Life(view, f) :
            LET p == Path(view, f, from, to)
                n == Len(p.hops)
            IN  IF p.found
                THEN /\ from # to => n > 0 /\ p.hops[1].from = from /\ p.hops[n].to = to
                     /\ \A i \in 1..n - 1 : p.hops[i].to = p.hops[i + 1].from
                ELSE \E i \in DOMAIN view.chains[f] :
                        LET s == view.chains[f][i]
                        IN  s.down = None /\ s.to <= from /\ s.from >= to

\* The client write of a field that landed last on a branch's path.
LastWrite(b, f) ==
    LET have == {i \in OnPath(b) : log[i].kind = "source" /\ \E c \in log[i].cells : c.field = f}
    IN  IF have = {} THEN {} ELSE {c \in log[Max(have)].cells : c.field = f}

\* A client has written the field on the branch itself.
WrittenOn(b, f) ==
    \E i \in DOMAIN log : /\ log[i].on = b /\ log[i].kind = "source"
                          /\ \E c \in log[i].cells : c.field = f

\* Every step of a field's chain goes both ways, by migrations of its own that
\* were pushed with it or again since.
OwnMigrations(view, f) ==
    LET chain == view.chains[f]
        named(i) == {chain[i].up, chain[i].down} \ {None}
    IN  \A i \in DOMAIN chain :
            /\ chain[i].down # None
            /\ \A n \in named(i) : view.producers[n].version >= chain[i].to
            /\ \A j \in DOMAIN chain \ {i} : named(i) \cap named(j) = {}

\* A write of an earlier life of its field, which a deletion ended.
Retired(b, w) ==
    \E i \in OnPath(b) : /\ i > w.version
                         /\ \E e \in log[i].events : e.kind = "delete" /\ e.field = w.field

\* A merge brought it at a version the child made. The parent knows that step by a
\* layer of its own, so nothing on its chain leads from where the write stands.
Stranded(b, w) == b = "main" /\ log[w.version].on = "child"

\* Once a branch is settled, the last client's write is what a reader at every
\* version of its field finds there, whichever version it was written at, whether
\* it came from a fork or before the push (derive.rs backfill and invalidated_by;
\* SPEC 9.6: scheduling cannot affect it), and from a merge where it stands at a
\* version the child inherited: one at a version of the child's own is stranded
\* (branch.rs replay keeps what it was authored at).
LastWriteReachesAll ==
    \A b \in Branch : (AtRest /\ Exists(b) /\ ~Unsettled(b)) =>
        LET view == View(b) IN
        \A f \in Field : (OwnMigrations(view, f) /\ (b = "child" => ~WrittenOn("child", f))) =>
            \A w \in LastWrite(b, f) : \A v \in Life(view, f) :
                \/ \E c \in CellsAt(b, f, v) : c.root = w.root
                \/ Retired(b, w) \/ Stranded(b, w)

\* The two halves of a step do not chase each other: a round runs a migration
\* once for each step a value can reach it over, and no more (derive.rs
\* invalidated_by, "left unfiltered they chase each other").
HalvesDoNotChase ==
    round.ran # <<>> =>
        LET view == View(round.on) IN
        \A n \in {round.ran[i] : i \in DOMAIN round.ran} :
            Cardinality({i \in DOMAIN round.ran : round.ran[i] = n})
                <= Len(view.chains[view.producers[n].field])

\* What the descriptions and the hands declare.
Declared ==
    (UNION {{Declare(s.field, s.type, d.repo, s.owner) : s \in d.fields} : d \in Descriptions})
    \cup (UNION {{e \in l.vocabulary : e.kind = "declare"} : l \in Scenarios})

\* A description says one thing of a field and of a name, repos share no producer's
\* name, and a repo never hands a field from one owner to another.
NothingShared ==
    /\ \A d \in Descriptions :
          /\ \A s, t \in d.fields : s.field = t.field => s = t
          /\ \A e, g \in Described(d) : e.name = g.name => e = g
    /\ \A d, c \in Descriptions : \A e \in Described(d), g \in Described(c) :
          e.name = g.name => d.repo = c.repo
    /\ \A e, g \in Declared : e.repo = g.repo /\ e.field = g.field => e.owner = g.owner

\* A repo that pushes what it last pushed emits nothing, whatever other repos
\* have pushed since (push.rs, "an unchanged repo emits no event and lands no
\* layer").
RepeatIsSilent ==
    \A b \in Branch, d \in Descriptions :
        (AtRest /\ Exists(b) /\ accepted[b][d.repo] = d.id) => PushEvents(View(b), d) = {}

\* A producer's ClientVersion is a layer of the branch it is in force on, and
\* the view it names holds this very program; a migration's two versions name
\* views in which its field stands at exactly them (defs.rs apply stamps, and
\* migration_role, after a replay too).
ProducersSeeThemselves ==
    \A b \in Branch : (AtRest /\ Exists(b)) =>
        LET views == ViewsAt(b)
            view  == views[Len(log)]
        IN  /\ \A n \in Name : view.producers[n].version # 0 =>
                   /\ view.producers[n].version \in OnPath(b)
                   /\ views[view.producers[n].version].producers[n] = view.producers[n]
            /\ \A role \in RolesOn(b) :
                   /\ {role.input, role.output} \subseteq OnPath(b)
                   /\ views[role.output].fields[role.field].version = role.output
                   /\ views[role.input].fields[role.field].version = role.input

\* What was accepted piece by piece makes sense as a whole: views fold at every
\* ClientVersion, records and producers stand at versions that name their shape,
\* and paths between versions have no gap (defs.rs apply, push, path).
DefsInv == TypeOK /\ ViewsFold /\ RecordsFit /\ PathsArrive /\ ProducersSeeThemselves

Shape(x) == <<x.type, x.repo, x.owner>>

\* A merge that lands whole gives the parent the child's definition of every
\* field the child moved, and leaves every other field as the parent had it
\* (branch.rs replay; "the child's mutation was authored against a def the
\* parent has since moved").
MergeCarriesTheSchema ==
    [][\A mode \in {"DefOnly", "DefAndData"} :
          (left'.merges < left.merges /\ left'.crashes = left.crashes /\ mode \in left.modes) =>
            LET moved == UNION {UNION {Touches(e) : e \in log[i].events} :
                                   i \in {i \in DOMAIN log : log[i].on = "child"}}
            IN  \A f \in Field :
                  Shape(View("main")'.fields[f]) =
                      Shape(IF f \in moved THEN View("child").fields[f] ELSE View("main").fields[f])]_vars

\* A fork reads what its parent read where it was forked, except where a client
\* writes it, and there it reads what was written, however often it derives
\* (SPEC.md, "diverges only where it writes").
DivergesOnlyWhereItWrites ==
    (AtRest /\ Exists("child")) =>
        \A f \in Field, v \in 1..forkAt :
            LET have == {i \in 1..forkAt : log[i].on = "main" /\ Keyed(log[i].cells, f, v) # {}}
                own  == {i \in DOMAIN log : /\ log[i].on = "child" /\ log[i].kind = "source"
                                            /\ \E c \in log[i].cells : c.field = f}
                root(cells) == {c.root : c \in cells}
            IN  IF own # {}
                THEN v \in {c.version : c \in LastWrite("child", f)} =>
                        root(CellsAt("child", f, v)) = root(LastWrite("child", f))
                ELSE have # {} =>
                        root(CellsAt("child", f, v)) = root(Keyed(log[Max(have)].cells, f, v))

==============================================================================
