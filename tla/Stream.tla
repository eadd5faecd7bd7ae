------------------------------- MODULE Stream -------------------------------
(***************************************************************************)
(* Export and import: a registry walked out as a stream of records, and a  *)
(* stream replayed into a fresh store.                                     *)
(*                                                                         *)
(* A log is grown, an export reads it in the order the code does, the file *)
(* it makes arrives whole, cut short or with a bad line, and importers     *)
(* replay it record by record against one store path.  An importer may     *)
(* meet an I/O error or be killed at any step, and may be tried again.     *)
(***************************************************************************)
EXTENDS Naturals, Sequences, FiniteSets, SequencesExt, FiniteSetsExt

CONSTANTS
    Importer,   \* processes that import into the one store path
    MaxLayer,   \* layers of the exported registry
    MaxEvent,   \* events of the exported registry
    MaxEntry,   \* membership rows of a layer
    Content,    \* interned values, as numbers
    Batch,      \* rows an open layer buffers before it writes them
    Starts,     \* the operational files beside the exported store, and whether an empty
                \* store is at the path of the import
    MaxTry,     \* imports of one importer
    MaxCounter, \* the highest object counter
    MaxTrouble, \* damages of the file, I/O errors and kills
    Gated       \* TRUE: an export holds the gate of its registry

ASSUME StreamAssumption ==
    /\ MaxLayer \in Nat \ {0} /\ MaxEvent \in Nat /\ MaxEntry \in Nat
    /\ Content \subseteq Nat \ {0} /\ Batch \in Nat \ {0} /\ MaxTry \in Nat
    /\ MaxCounter \in Nat /\ MaxTrouble \in Nat /\ Gated \in BOOLEAN
    /\ \A s \in Starts :
          /\ s.files.next \in Nat \ {0} /\ s.files.timeout \in Nat /\ s.there \in BOOLEAN
          /\ {s.files.producers, s.files.broken, s.files.paused} \subseteq Seq(Nat)

VARIABLES
    source,   \* the registry to export: branches, layer rows, events, interned bytes
    beside,   \* the operational files beside it
    export,   \* the export: where it is, what it has read and what it has written
    file,     \* the stream that arrived, with its bad line (0 when it has none)
    store,    \* the store at the import's path
    around,   \* the operational files beside that store
    import,   \* every importer
    trouble   \* damages, I/O errors and kills so far

reading == <<export, file, store, around, import, trouble>>
vars    == <<source, beside, reading>>

Main     == 1
LayerId  == 1..MaxLayer
EventId  == 1..MaxEvent
States   == {"open", "sealed", "committed"}
NoStore  == [exists |-> FALSE, origin |-> <<>>, row |-> <<>>, event |-> <<>>, interned |-> {}]
NoFiles  == [next |-> 1, timeout |-> 0, producers |-> <<>>, broken |-> <<>>, paused |-> <<>>]
Root     == [NoStore EXCEPT !.exists = TRUE, !.origin = (Main :> 0)]
NoBlock  == [layer |-> 0, stage |-> "none", row |-> <<>>, rows |-> <<>>]
NoImport == [at |-> "idle", existed |-> FALSE, line |-> 0, block |-> NoBlock,
             files |-> NoFiles, saved |-> 0, tries |-> 0, faulted |-> FALSE,
             found |-> NoStore]  \* history: the store as this try came upon it
AtRest   == {"idle", "restored", "failed", "killed"}

Committed(r) == {l \in DOMAIN r.row : r.row[l].state = "committed"}

---------------------------------------------------------------------------
(* What a read of a registry answers                                       *)

\* The layers a read of branch b at layer n goes through, nearest first.
RECURSIVE Segments(_, _, _)
Segments(r, b, n) ==
    SetToSortSeq({l \in Committed(r) : l <= n /\ r.row[l].branch = b}, >)
      \o (IF r.origin[b] = 0 THEN <<>>
          ELSE Segments(r, r.row[r.origin[b]].branch, r.origin[b]))

\* The value, and whether its bytes are known: the last row of the nearest layer
\* that holds any.
Answer(r, b, n) ==
    LET found == SelectSeq(Segments(r, b, n),
                    LAMBDA l : r.row[l].kind = "value" /\ r.row[l].rows # <<>>)
        value == r.event[Last(r.row[found[1]].rows)].value
    IN  IF found = <<>> THEN <<>>
        ELSE <<value, value.kind = "content" => value.pid \in r.interned>>

DefsAt(r, b, n) ==
    LET chain == SelectSeq(Reverse(Segments(r, b, n)), LAMBDA l : r.row[l].kind = "def")
    IN  [i \in DOMAIN chain |-> <<chain[i], r.row[chain[i]].rows>>]

---------------------------------------------------------------------------
(* Growing a log                                                           *)

Values(next) == [kind : {"content"}, pid : Content] \cup [kind : {"object"}, pid : 1..(next - 1)]

\* A layer with the id the sequence gives it: it commits, or whoever opened it died
\* after its rows were written, or before anything described it.  A row is an event
\* it authors or one it names.
NextLayer(r) == Max({0} \cup DOMAIN r.row) + 1
NextEvent(r) == Max({0} \cup DOMAIN r.event) + 1
Lands(r, b, kind, values, named, state) ==
    LET l     == NextLayer(r)
        fresh == [i \in DOMAIN values |-> NextEvent(r) + i - 1]
        head  == Max({0} \cup {h \in Committed(r) : r.row[h].branch = b})
    IN  [r EXCEPT
          !.row = @ @@ (l :> [branch |-> b, kind |-> kind, state |-> state,
                              meta |-> state # "open",
                              parent |-> head,
                              rows |-> IF kind = "def" THEN <<l>> ELSE named \o fresh]),
          !.event = @ @@ [e \in ToSet(fresh) |->
                            [authored |-> l, value |-> values[e - NextEvent(r) + 1]]],
          !.interned = @ \cup {v.pid : v \in {w \in ToSet(values) : w.kind = "content"}}]

\* A merge names only what is visible, so never an event of a layer that is not.
Nameable(r) == {e \in DOMAIN r.event : r.event[e].authored \in Committed(r)}

MayGrow == IF Gated THEN export.at = "idle" ELSE export.at # "done"

Write(b, values, named, state) ==
    /\ MayGrow /\ NextLayer(source) <= MaxLayer
    /\ NextEvent(source) + Len(values) <= MaxEvent + 1
    /\ Len(values) + Len(named) \in 1..MaxEntry
    /\ source' = Lands(source, b, "value", values, named, state)
    /\ UNCHANGED <<beside, reading>>

Define(b) ==
    /\ MayGrow /\ NextLayer(source) <= MaxLayer
    /\ source' = Lands(source, b, "def", <<>>, <<>>, "committed")
    /\ UNCHANGED <<beside, reading>>

\* The counter is saved before the object it numbers is written.
New ==
    /\ MayGrow /\ beside.next < MaxCounter
    /\ beside' = [beside EXCEPT !.next = @ + 1]
    /\ UNCHANGED <<source, reading>>

Fork(at) ==
    /\ MayGrow /\ DOMAIN source.origin = {Main}
    /\ source' = [source EXCEPT !.origin = @ @@ (Main + 1 :> at)]
    /\ UNCHANGED <<beside, reading>>

---------------------------------------------------------------------------
(* Export                                                                  *)

Sorted(s) == SetToSortSeq(ToSet(s), <)

Header == <<[rec |-> "header"]>>
Rows(rec, ids) == [i \in DOMAIN ids |-> [rec |-> rec, id |-> ids[i]]]
\* The files come before the log, so a stream that is cut has its counter.
FileLines(f) ==
    Header \o Rows("allocations", <<f.next>>) \o Rows("timeout", <<f.timeout>>)
      \o Rows("producer", Sorted(f.producers)) \o Rows("poison", Sorted(f.broken))
      \o Rows("paused", Sorted(f.paused))

BranchLines(r) ==
    LET ids == SetToSortSeq(DOMAIN r.origin, <)
    IN  [i \in DOMAIN ids |-> [rec |-> "branch", id |-> ids[i], origin |-> r.origin[ids[i]]]]

\* Committed layers only, ascending.
LayerSeq(r) == SetToSortSeq(Committed(r), <)

\* A row of somebody else's event is a member; an event of the layer itself comes with
\* its value, and its bytes go before it the first time the layer refers to them.
EntryLines(r, l, i) ==
    LET rows == r.row[l].rows
        e    == r.event[rows[i]]
        seen == {r.event[rows[j]].value : j \in {k \in 1..(i - 1) : r.event[rows[k]].authored = l}}
        new  == e.value.kind = "content" /\ e.value \notin seen /\ e.value.pid \in r.interned
    IN  IF e.authored # l THEN Rows("member", <<rows[i]>>)
        ELSE (IF new THEN Rows("content", <<e.value.pid>>) ELSE <<>>)
               \o <<[rec |-> "event", id |-> rows[i], value |-> e.value]>>
BlockRows(r, l) == [i \in DOMAIN r.row[l].rows |-> EntryLines(r, l, i)]

BlockLines(r, l) ==
    <<[rec |-> "layer", id |-> l, branch |-> r.row[l].branch, kind |-> r.row[l].kind,
       parent |-> r.row[l].parent]>>
      \o (IF r.row[l].kind = "def" THEN Rows("def", r.row[l].rows)
          ELSE FlattenSeq(BlockRows(r, l)))

\* The whole export of a registry that stands still.
StreamOf(r, f) ==
    FileLines(f) \o BranchLines(r)
      \o FlattenSeq([i \in DOMAIN LayerSeq(r) |-> BlockLines(r, LayerSeq(r)[i])])

Exporting(at, lines) ==
    export' = [export EXCEPT !.at = at, !.lines = @ \o lines]

ReadFiles ==
    /\ export.at = "idle" /\ Exporting("files", FileLines(beside))
    /\ UNCHANGED <<source, beside, file, store, around, import, trouble>>

ReadBranches ==
    /\ export.at = "files" /\ Exporting("branches", BranchLines(source))
    /\ UNCHANGED <<source, beside, file, store, around, import, trouble>>

ReadLayers ==
    /\ export.at = "branches"
    /\ export' = [export EXCEPT !.at = "layers", !.todo = LayerSeq(source)]
    /\ UNCHANGED <<source, beside, file, store, around, import, trouble>>

ReadBlock ==
    /\ export.at = "layers" /\ export.todo # <<>>
    /\ export' = [export EXCEPT !.lines = @ \o BlockLines(source, Head(export.todo)),
                                !.todo = Tail(@)]
    /\ UNCHANGED <<source, beside, file, store, around, import, trouble>>

\* The file as it reaches an importer: whole, cut after some line, or with one line
\* that does not parse or whose bytes do not hash to its pid.
Deliver(n, bad) ==
    /\ export.at = "layers" /\ export.todo = <<>>
    /\ n \in 0..Len(export.lines) /\ bad \in 0..n
    /\ n = Len(export.lines) \/ bad = 0
    /\ file' = [lines |-> SubSeq(export.lines, 1, n), bad |-> bad]
    /\ export' = [export EXCEPT !.at = "done"]
    /\ trouble' = IF n = Len(export.lines) /\ bad = 0 THEN trouble ELSE trouble + 1
    /\ trouble' <= MaxTrouble
    /\ UNCHANGED <<source, beside, store, around, import>>

Whole == export.at = "done" /\ file.lines = export.lines /\ file.bad = 0

---------------------------------------------------------------------------
(* Import                                                                  *)

Active(i)  == import[i].at \notin AtRest
Reading(i) == import[i].at = "reading" /\ import[i].line < Len(file.lines)
\* The next record, when the line it is on is sound.
Reads(i, recs) ==
    /\ Reading(i) /\ import[i].line + 1 # file.bad
    /\ file.lines[import[i].line + 1].rec \in recs
Record(i) == file.lines[import[i].line + 1]
Block(i)  == import[i].block

\* A store this import made goes with it, and one that was there stays.
Removed(i) == IF import[i].existed THEN store ELSE NoStore

Fails(i, faulted) ==
    /\ import' = [import EXCEPT ![i].at = "failed", ![i].block = NoBlock,
                                ![i].faulted = faulted]
    /\ store' = Removed(i)
    /\ trouble' = IF faulted THEN trouble + 1 ELSE trouble
    /\ UNCHANGED <<source, beside, export, file, around>>

Advances(i, state) ==
    /\ import' = [import EXCEPT ![i] = [state EXCEPT !.line = @ + 1]]
    /\ UNCHANGED <<source, beside, export, file, around, trouble>>

Begin(i) ==
    /\ export.at = "done" /\ ~Active(i) /\ import[i].tries < MaxTry
    /\ import' = [import EXCEPT ![i] = [NoImport EXCEPT !.at = "looked",
                    !.existed = store.exists, !.tries = import[i].tries + 1,
                    !.found = store]]
    /\ UNCHANGED <<source, beside, export, file, store, around, trouble>>

\* The file is made by opening it.  Only layers that are described and branches count
\* as a registry.
Holds(s) == DOMAIN s.origin # {} \/ \E l \in DOMAIN s.row : s.row[l].meta
\* Mutation: whether the store was there is looked at when it has been opened.
OpenStoreLooking(i) ==
    /\ import[i].at = "looked"
    /\ IF Holds(store) THEN Fails(i, FALSE)
       ELSE /\ store' = [store EXCEPT !.exists = TRUE]
            /\ import' = [import EXCEPT ![i].at = "reading", ![i].existed = TRUE]
            /\ UNCHANGED <<source, beside, export, file, around, trouble>>
OpenStore(i) ==
    /\ import[i].at = "looked"
    /\ IF Holds(store) THEN Fails(i, FALSE)
       ELSE /\ store' = [store EXCEPT !.exists = TRUE]
            /\ import' = [import EXCEPT ![i].at = "reading"]
            /\ UNCHANGED <<source, beside, export, file, around, trouble>>

\* No first line, or a line that is not a record.
Unreadable(i) ==
    /\ import[i].at = "reading"
    /\ \/ file.lines = <<>>
       \/ Reading(i) /\ import[i].line + 1 = file.bad
    /\ Fails(i, FALSE)

ReadHeader(i) ==
    Reads(i, {"header"}) /\ Advances(i, import[i]) /\ UNCHANGED store

\* Mutation: the counter of the stream is not taken over.
RestoringWithoutCounter(f, r) ==
    CASE r.rec = "allocations" -> f
      [] r.rec = "timeout"     -> [f EXCEPT !.timeout = r.id]
      [] r.rec = "producer"    -> [f EXCEPT !.producers = Append(@, r.id)]
      [] r.rec = "poison"      -> [f EXCEPT !.broken = Append(@, r.id)]
      [] r.rec = "paused"      -> [f EXCEPT !.paused = Append(@, r.id)]

\* The rows for the operational files are kept in memory.
Restoring(f, r) ==
    CASE r.rec = "allocations" -> [f EXCEPT !.next = r.id]
      [] r.rec = "timeout"     -> [f EXCEPT !.timeout = r.id]
      [] r.rec = "producer"    -> [f EXCEPT !.producers = Append(@, r.id)]
      [] r.rec = "poison"      -> [f EXCEPT !.broken = Append(@, r.id)]
      [] r.rec = "paused"      -> [f EXCEPT !.paused = Append(@, r.id)]
ReadFileRow(i) ==
    /\ Reads(i, {"allocations", "timeout", "producer", "poison", "paused"})
    /\ Advances(i, [import[i] EXCEPT !.files = Restoring(@, Record(i))])
    /\ UNCHANGED store

ReadBranch(i) ==
    /\ Reads(i, {"branch"})
    /\ store' = [store EXCEPT !.origin = (Record(i).id :> Record(i).origin) @@ @]
    /\ Advances(i, import[i])

ReadContent(i) ==
    /\ Reads(i, {"content"})
    /\ store' = [store EXCEPT !.interned = @ \cup {Record(i).id}]
    /\ Advances(i, import[i])

\* The rows an open layer has buffered go in together, or not at all.
Authored(rows) == SelectSeq(rows, LAMBDA r : r.rec = "event")
Unflushable(s, rows) ==
    \/ \E j \in DOMAIN rows : rows[j].rec = "member"
          /\ rows[j].id \notin DOMAIN s.event \cup {rows[k].id : k \in 1..(j - 1)}
    \/ \E j \in DOMAIN rows : rows[j].rec = "event" /\ rows[j].id \in DOMAIN s.event
Flushed(s, l, rows) ==
    [s EXCEPT !.event = @ @@ [e \in {r.id : r \in ToSet(Authored(rows))} |->
                                [authored |-> l,
                                 value |-> (CHOOSE r \in ToSet(rows) :
                                              r.rec = "event" /\ r.id = e).value]],
              !.row[l].rows = @ \o [j \in DOMAIN rows |-> rows[j].id]]

\* The previous layer is closed before the next one is opened.
OpenLayer(i) ==
    /\ Reads(i, {"layer"}) /\ Block(i).stage = "none"
    /\ LET r == Record(i) IN
       IF r.id \in DOMAIN store.row THEN Fails(i, FALSE)
       ELSE /\ store' = [store EXCEPT !.row = @ @@
                 (r.id :> [branch |-> r.branch, kind |-> r.kind, state |-> "open",
                           meta |-> FALSE, parent |-> r.parent, rows |-> <<>>])]
            /\ Advances(i, [import[i] EXCEPT
                 !.block = [layer |-> r.id, stage |-> "open", row |-> r, rows |-> <<>>]])

\* A row needs an open layer of its kind.
Fits(i, kind) == Block(i).stage = "open" /\ Block(i).row.kind = kind

ReadDef(i) ==
    /\ Reads(i, {"def"})
    /\ IF ~Fits(i, "def") THEN Fails(i, FALSE)
       ELSE /\ store' = [store EXCEPT !.row[Block(i).layer].rows = Append(@, Record(i).id)]
            /\ Advances(i, import[i])

ReadRow(i) ==
    /\ Reads(i, {"event", "member"})
    /\ LET rows == Append(Block(i).rows, Record(i)) IN
       \/ ~Fits(i, "value") /\ Fails(i, FALSE)
       \/ /\ Fits(i, "value") /\ Len(rows) < Batch
          /\ Advances(i, [import[i] EXCEPT !.block.rows = rows]) /\ UNCHANGED store
       \/ /\ Fits(i, "value") /\ Len(rows) >= Batch
          /\ IF Unflushable(store, rows) THEN Fails(i, FALSE)
             ELSE /\ store' = Flushed(store, Block(i).layer, rows)
                  /\ Advances(i, [import[i] EXCEPT !.block.rows = <<>>])

\* Sealed, then described, then visible.
Closes(i) ==
    /\ import[i].at = "reading" /\ Block(i).layer # 0
    /\ \/ import[i].line = Len(file.lines)
       \/ Reads(i, {"layer"})
Seal(i) ==
    /\ Closes(i) /\ Block(i).stage = "open"
    /\ IF Unflushable(store, Block(i).rows) THEN Fails(i, FALSE)
       ELSE /\ store' = [Flushed(store, Block(i).layer, Block(i).rows)
                           EXCEPT !.row[Block(i).layer].state = "sealed"]
            /\ import' = [import EXCEPT ![i].block.stage = "sealed", ![i].block.rows = <<>>]
            /\ UNCHANGED <<source, beside, export, file, around, trouble>>
Describe(i) ==
    /\ Closes(i) /\ Block(i).stage = "sealed"
    /\ store' = [store EXCEPT !.row[Block(i).layer].meta = TRUE]
    /\ import' = [import EXCEPT ![i].block.stage = "described"]
    /\ UNCHANGED <<source, beside, export, file, around, trouble>>
\* Mutation: a sealed layer commits, described or not.
CommitUndescribed(i) ==
    /\ Closes(i) /\ Block(i).stage \in {"sealed", "described"}
    /\ store' = [store EXCEPT !.row[Block(i).layer].state = "committed"]
    /\ import' = [import EXCEPT ![i].block = NoBlock]
    /\ UNCHANGED <<source, beside, export, file, around, trouble>>
Commit(i) ==
    /\ Closes(i) /\ Block(i).stage = "described"
    /\ store' = [store EXCEPT !.row[Block(i).layer].state = "committed"]
    /\ import' = [import EXCEPT ![i].block = NoBlock]
    /\ UNCHANGED <<source, beside, export, file, around, trouble>>

EndOfStream(i) ==
    /\ import[i].at = "reading" /\ file.lines # <<>> /\ import[i].line = Len(file.lines)
    /\ Block(i).stage = "none"
    /\ import' = [import EXCEPT ![i].at = "saving"]
    /\ UNCHANGED <<source, beside, export, file, store, around, trouble>>

\* Four files, one after the other, when the log is complete.
Save(i) ==
    /\ import[i].at = "saving"
    /\ LET f == import[i].files
           n == import[i].saved + 1
       IN  /\ around' = CASE n = 1 -> [around EXCEPT !.next = f.next]
                          [] n = 2 -> [around EXCEPT !.timeout = f.timeout]
                          [] n = 3 -> [around EXCEPT !.producers = f.producers]
                          [] n = 4 -> [around EXCEPT !.broken = f.broken, !.paused = f.paused]
           /\ import' = [import EXCEPT ![i].saved = n,
                                       ![i].at = IF n = 4 THEN "restored" ELSE @]
    /\ UNCHANGED <<source, beside, export, file, store, trouble>>

IoError(i) == Active(i) /\ trouble < MaxTrouble /\ Fails(i, TRUE)

Kill(i) ==
    /\ Active(i) /\ trouble < MaxTrouble /\ trouble' = trouble + 1
    /\ import' = [import EXCEPT ![i].at = "killed", ![i].block = NoBlock]
    /\ UNCHANGED <<source, beside, export, file, store, around>>

---------------------------------------------------------------------------
Init ==
    /\ source = Root
    /\ \E s \in Starts :
          beside = s.files /\ store = [NoStore EXCEPT !.exists = s.there]
    /\ export = [at |-> "idle", lines |-> <<>>, todo |-> <<>>]
    /\ file = [lines |-> <<>>, bad |-> 0]
    /\ around = NoFiles
    /\ import = [i \in Importer |-> NoImport] /\ trouble = 0

Grow ==
    \/ \E b \in DOMAIN source.origin :
          \/ \E v \in SeqOf(Values(beside.next), MaxEntry), n \in SeqOf(Nameable(source), 1) :
                Write(b, v, n, "committed")
          \/ \E v \in Values(beside.next), state \in States : Write(b, <<v>>, <<>>, state)
    \/ \E b \in DOMAIN source.origin : Define(b)
    \/ New
    \/ \E at \in Committed(source) : Fork(at)

Export ==
    \/ ReadFiles \/ ReadBranches \/ ReadLayers \/ ReadBlock
    \/ \E n \in 0..Len(export.lines) : \E bad \in 0..n : Deliver(n, bad)

Imports(i) ==
    \/ Begin(i) \/ OpenStore(i) \/ Unreadable(i) \/ ReadHeader(i) \/ ReadFileRow(i)
    \/ ReadBranch(i) \/ ReadContent(i) \/ OpenLayer(i) \/ ReadDef(i) \/ ReadRow(i)
    \/ Seal(i) \/ Describe(i) \/ Commit(i) \/ EndOfStream(i) \/ Save(i)
    \/ IoError(i) \/ Kill(i)

Next == Grow \/ Export \/ \E i \in Importer : Imports(i)

Spec == Init /\ [][Next]_vars

---------------------------------------------------------------------------
(* Properties                                                              *)

\* Every variable has its type; a stream's positions and blocks are in range.
TypeOK ==
    /\ DOMAIN source.row \subseteq LayerId /\ DOMAIN source.event \subseteq EventId
    /\ export.at \in {"idle", "files", "branches", "layers", "done"}
    /\ file.bad \in 0..Len(file.lines)
    /\ DOMAIN store.row \subseteq LayerId /\ DOMAIN store.event \subseteq EventId
    /\ store.interned \subseteq Content /\ store.exists \in BOOLEAN
    /\ \A l \in DOMAIN store.row : store.row[l].state \in States
    /\ \A i \in Importer :
          /\ import[i].at \in AtRest \cup {"looked", "reading", "saving"}
          /\ import[i].line \in 0..Len(file.lines) /\ import[i].saved \in 0..4
          /\ import[i].block.stage \in {"none", "open", "sealed", "described"}
          /\ Len(import[i].block.rows) < Batch

Restored == Whole /\ \E i \in Importer : import[i].at = "restored"
Quiet    == \A i \in Importer : ~Active(i)

\* Exporting the import of an undamaged stream gives the stream back, line for line
\* (stream.rs, "Byte-identical for identical registries").
ImportReproducesExport == Restored /\ Quiet => StreamOf(store, around) = file.lines

\* A restored registry answers every read of the exported one the same way, on every
\* branch and at every layer: the value, whether its bytes are known, and the
\* definitions in force.
AnswersSurvive ==
    Restored /\ Quiet =>
      /\ DOMAIN store.origin = DOMAIN source.origin
      /\ \A b \in DOMAIN source.origin, n \in LayerId :
            /\ Answer(store, b, n) = Answer(source, b, n)
            /\ DefsAt(store, b, n) = DefsAt(source, b, n)

\* The counter of a restored store is past every object its log names, so none of
\* them can be issued again.
CounterIsPastTheLog ==
    Restored /\ Quiet =>
      \A e \in DOMAIN store.event :
         LET v == store.event[e].value IN v.kind = "object" => v.pid < around.next

\* An undamaged stream restores: an import of it that fails met an error of the
\* machine, or found a registry that was there before it began.
WholeStreamsRestore ==
    \A i \in Importer :
       Whole /\ import[i].at = "failed" => import[i].faulted \/ import[i].existed

\* An export restores, and to the same registry: the same stream comes out of it
\* again, every read answers the same, and new objects get new ids (stream.rs,
\* "Byte-identical for identical registries").
RestoreIsFaithful ==
    WholeStreamsRestore /\ ImportReproducesExport /\ AnswersSurvive /\ CounterIsPastTheLog

\* A failed import gives the path back as this try found it, wherever it failed and
\* whatever earlier tries or kills left: nothing where there was nothing, a store
\* where there was one, and of a registry that was there every row (stream.rs:670,
\* "only if this call is what made it").
FailuresGiveBack ==
    \A i \in Importer : import[i].at = "failed" =>
       /\ store.exists = import[i].found.exists
       /\ Holds(import[i].found) => store = import[i].found

\* However far a replay gets, what is visible is described, hangs off a visible
\* parent, and names only events of visible layers at or below it.
HalfNeverLies ==
    \A l \in Committed(store) :
       /\ store.row[l].meta
       /\ store.row[l].parent # 0 => store.row[l].parent \in Committed(store)
       /\ store.row[l].kind = "value" =>
            \A e \in ToSet(store.row[l].rows) :
               /\ e \in DOMAIN store.event
               /\ store.event[e].authored \in Committed(store) /\ store.event[e].authored <= l

\* The shape of the store under replay, and that its visible part can be read
\* wherever the replay stopped (stream.rs close).
StreamInv == TypeOK /\ HalfNeverLies
=============================================================================
