------------------------------ MODULE Resolve ------------------------------
(***************************************************************************)
(* Reading a cell with its provenance: the envelope a read answers with,   *)
(* validation along the stored read-sets, computing inline for a reader    *)
(* that asked for the current value, and the frontier a reader waits for.  *)
(*                                                                         *)
(* One branch of one entity.  A value is what it was made of: the layer of *)
(* a client's write, or the values a run read, so that the value a replay  *)
(* at some layer would give can be written down and compared.  Rounds are  *)
(* here as far as reads can tell: where one forks, what it lands and when  *)
(* it moves the watermarks; Derivation has what happens inside.            *)
(***************************************************************************)
EXTENDS Naturals, Sequences, FiniteSets, SequencesExt

CONSTANTS
    Source,    \* cells that clients write
    Derived,   \* cells with a producer each, named after its cell
    Reads,     \* the cells each producer reads, in the order it reads them
    Reader,    \* clients that read
    Requests,  \* what they ask: a cell, a requirement, pinned to a layer or not
    Waiter,    \* clients that wait for the frontier
    Budgets,   \* how often things happen: client layers, reads, waits, failures
    Overlap,   \* may derived layers land while a client's layer is open
    None

Cell == Source \cup Derived

\* No producer reads what is made of its own output: the engine cuts such a chain
\* where it closes, and Derivation has what becomes of it.
ASSUME ResolveAssumption ==
    /\ Source \cap Derived = {} /\ Reads \in [Derived -> Seq(Cell)]
    /\ IsFiniteSet(Source) /\ IsFiniteSet(Derived) /\ Derived # {}
    /\ \E rank \in [Cell -> 0..Cardinality(Derived)] :
          \A c \in Derived : \A d \in ToSet(Reads[c]) : rank[d] < rank[c]
    /\ Budgets \subseteq [writes : Nat, asks : Nat, waits : Nat, breaks : Nat,
                    settled : BOOLEAN]
    /\ Overlap \in BOOLEAN
    /\ None \notin Cell
    /\ \A q \in Requests : q.cell \in Derived /\ q.want \in {"any", "validated", "current"}
                           /\ q.pinned \in BOOLEAN

VARIABLES
    log,     \* the layers of the branch: who writes, whether committed, the cells
    mark,    \* FrontierTracker.watermarks
    broken,  \* producers judged broken now, and whether one ever was
    round,   \* the round in progress
    call,    \* what each reader is doing, and the answer it got
    wait,    \* what each waiter is doing
    left     \* what is left of the budget

vars == <<log, mark, broken, round, call, wait, left>>

NoRound == [phase |-> "idle", forkAt |-> 0, reflects |-> 0]
NoCall  == [at |-> "none", ask |-> None, ceiling |-> 0, record |-> None,
            todo |-> <<>>, claim |-> 0, holds |-> {}, calm |-> FALSE,
            answer |-> None]
NoWait  == [at |-> "none", target |-> 0, woken |-> FALSE]

LeastOf(s) == CHOOSE n \in s : \A m \in s : n <= m
Highest(s) == CHOOSE n \in s : \A m \in s : n >= m

Committed == {i \in DOMAIN log : log[i].state = "committed"}
Top       == Highest({0} \cup Committed)
Opens     == {i \in DOMAIN log : log[i].state = "open" /\ log[i].by = "client"}

\* get_cell on a path with that ceiling: the highest committed layer with the cell.
LandedAt(c, ceiling) ==
    Highest({0} \cup {i \in Committed : i <= ceiling /\ c \in DOMAIN log[i].cells})

Absent(c, ceiling) == LandedAt(c, ceiling) = 0

\* The record of a cell that is there.
Found(c, ceiling) == log[LandedAt(c, ceiling)].cells[c]

Value(c, ceiling) ==
    LET i == LandedAt(c, ceiling) IN IF i = 0 THEN <<>> ELSE log[i].cells[c].value

\* Landed::reflects: where source data landed, the watermark of derived data.
Reflects(c, ceiling) ==
    IF c \in Source THEN LandedAt(c, ceiling) ELSE Found(c, ceiling).fresh

\* What producers make of a world: the made cells from what they read, the others as
\* they are in it.
Composed(world, made) ==
    LET value[c \in Cell] ==
          IF c \in made THEN [n \in DOMAIN Reads[c] |-> value[Reads[c][n]]] ELSE world[c]
    IN value

\* What reaches along the reads: the seed, and those that read something reached.
Spreads(seed, through) ==
    LET reached[c \in Cell] ==
          c \in seed \/ (c \in through /\ \E d \in ToSet(Reads[c]) : reached[d])
    IN {c \in Cell : reached[c]}

\* What a replay of the world at a layer gives: source cells as clients wrote them
\* up to there, derived cells from those.  No stored record is asked.
Replay(layer) == Composed([c \in Source |-> Value(c, layer)], Derived)

TypeOK ==
    /\ \A i \in DOMAIN log :
          /\ log[i].by \in {"client", "engine"}
          /\ log[i].state \in {"open", "committed", "aborted"}
          /\ DOMAIN log[i].cells \subseteq Cell /\ log[i].reflects \in 0..i
    /\ mark \in [Derived -> Nat]
    /\ broken.now \subseteq Derived /\ broken.ever \in BOOLEAN
     /\ \E b \in Budgets : \A k \in DOMAIN b \ {"settled"} : left[k] \in 0..b[k]
    /\ round.phase \in {"idle", "forked", "landed"}
    /\ \A r \in Reader : call[r].at \in {"none", "ask", "check", "compute", "run", "look",
                                         "validate", "judge"}
    /\ \A w \in Waiter : wait[w].at \in {"none", "arm", "check", "unmet", "asleep", "done"}
    \* a watermark never names a layer that has not happened
    /\ \A p \in Derived : mark[p] <= Top

---------------------------------------------------------------------------
(* Clients, and rounds as reads see them                                   *)

\* Whoever is reading is not alone any more.
Disturbed == [r \in Reader |-> [call[r] EXCEPT !.calm = FALSE]]

Computing == \E r \in Reader : call[r].at \in {"compute", "run"}

Write(c) ==
    /\ left.writes > 0 /\ left' = [left EXCEPT !.writes = @ - 1]
    /\ (Overlap \/ ~Computing)
    /\ log' = Append(log, [by |-> "client", state |-> "open", reflects |-> 0,
          cells |-> [d \in {c} |-> [value |-> <<Len(log) + 1>>, fresh |-> 0, reads |-> <<>>]]])
    /\ UNCHANGED <<mark, broken, round, call, wait>>

Commit(i, state) ==
    /\ log[i].state = "open" /\ log[i].by = "client"
    /\ log' = [log EXCEPT ![i].state = state]
    /\ call' = Disturbed
    /\ UNCHANGED <<mark, broken, round, wait, left>>

Position(i) == IF log[i].by = "client" THEN i ELSE log[i].reflects

\* span: the committed layers above the lowest watermark, up to the first layer a
\* client still has open; work if one of them stands above that watermark.
SpanFrom == LeastOf({mark[p] : p \in Derived})
Span == {i \in Committed : i > SpanFrom /\ \A j \in Opens : i < j}

Fork ==
    /\ round = NoRound /\ (Overlap \/ ~Computing)
    /\ \E i \in Span : Position(i) > SpanFrom
    /\ round' = [phase |-> "forked", forkAt |-> Highest(Span),
                 reflects |-> Highest({0} \cup {i \in Committed :
                                   i <= Highest(Span) /\ log[i].by = "client"})]
    /\ UNCHANGED <<log, mark, broken, call, wait, left>>

\* The cells a round recomputes: those a layer above their producer's watermark
\* wrote an input of, those never computed, and what reads those, unless broken.
Dirty ==
    LET running == Derived \ broken.now
    IN Spreads({c \in running :
                  \/ Absent(c, round.forkAt)
                  \/ \E d \in ToSet(Reads[c]), i \in Span :
                        i <= round.forkAt /\ Position(i) > mark[c] /\ d \in DOMAIN log[i].cells},
               running)

\* What the round computes from the world at its fork point.
RoundValue == Composed([c \in Cell |-> Value(c, round.forkAt)], Dirty)

\* A run falls if a source cell it read, itself or through a run of the same round,
\* was written above the fork point.
Fallen ==
    Spreads({d \in Source : \E i \in Committed :
                i > round.forkAt /\ d \in DOMAIN log[i].cells}, Dirty)

\* merge_round: one layer with what stands, labelled with the layer it reflects.
Land ==
    /\ round.phase = "forked" /\ round' = [round EXCEPT !.phase = "landed"]
    /\ (Overlap \/ Opens = {})
    /\ LET landing == Dirty \ Fallen
       IN IF landing = {} THEN UNCHANGED log
          ELSE log' = Append(log, [by |-> "engine", state |-> "committed",
                   reflects |-> round.reflects,
                   cells |-> [c \in landing |-> [value |-> RoundValue[c],
                                fresh |-> round.reflects, reads |-> Reads[c]]]])
    /\ call' = Disturbed
    /\ UNCHANGED <<mark, broken, wait, left>>

\* Mutation: only the waiters that were asleep already are woken.
WokenAsleep(w) == IF w.at = "asleep" THEN [w EXCEPT !.woken = TRUE] ELSE w

\* notify_waiters reaches whoever has registered, and nobody who has not yet.
Woken(w) == IF w.at \in {"check", "unmet", "asleep"} THEN [w EXCEPT !.woken = TRUE] ELSE w

\* FrontierTracker::advance for every producer, broken or dropped ones too.
Advance ==
    /\ round.phase = "landed" /\ round' = NoRound
    /\ mark' = [p \in Derived |-> Highest({mark[p], round.reflects})]
    /\ wait' = IF mark' # mark THEN [w \in Waiter |-> Woken(wait[w])] ELSE wait
    /\ UNCHANGED <<log, broken, call, left>>

\* A producer fails, or a push moves its version and its poisoning no longer applies.
Break(p) ==
    /\ left.breaks > 0 /\ p \notin broken.now
    /\ broken' = [now |-> broken.now \cup {p}, ever |-> TRUE] /\ left' = [left EXCEPT !.breaks = @ - 1]
    /\ UNCHANGED <<log, mark, round, call, wait>>

\* FrontierTracker::rewind with the poisoning, on the catch-up that follows the push.
Recover(p) ==
    /\ p \in broken.now /\ round = NoRound
    /\ broken' = [broken EXCEPT !.now = @ \ {p}] /\ mark' = [mark EXCEPT ![p] = 0]
    /\ UNCHANGED <<log, round, call, wait, left>>

---------------------------------------------------------------------------
(* Validation                                                              *)

\* Mutation: a dependency only has to be unmoved itself.
ValidatedShallow(record, ceiling) ==
    IF \E d \in ToSet(record.reads) :
          ~Absent(d, ceiling) /\ Reflects(d, ceiling) > record.fresh
    THEN record.fresh ELSE ceiling

\* The cells a record was made of that there are, and whether one of them has moved.
There(record, ceiling) == {d \in ToSet(record.reads) : ~Absent(d, ceiling)}
Moved(record, ceiling) == \E d \in There(record, ceiling) : Reflects(d, ceiling) > record.fresh

\* validate: the layer through which a stored value holds.  A dependency that moved
\* leaves its own watermark; otherwise it holds as far as what it was made of does.
Validated(record, ceiling) ==
    LET bound[c \in Cell] ==
          IF c \in Source \/ Absent(c, ceiling) THEN ceiling
          ELSE LET d == Found(c, ceiling)
               IN IF Moved(d, ceiling) THEN d.fresh
                  ELSE LeastOf({ceiling} \cup {bound[e] : e \in There(d, ceiling)})
    IN  IF Moved(record, ceiling) THEN record.fresh
        ELSE LeastOf({ceiling} \cup {bound[e] : e \in There(record, ceiling)})

---------------------------------------------------------------------------
(* A read                                                                  *)

Become(r, c) == call' = [call EXCEPT ![r] = c]

Ask(r, q, pin) ==
    /\ call[r].at = "none" /\ left.asks > 0 /\ left' = [left EXCEPT !.asks = @ - 1]
    /\ IF q.pinned THEN pin \in 1..Top ELSE pin = 0
    /\ Become(r, [NoCall EXCEPT !.at = IF q.want = "current" THEN "check" ELSE "look",
                  !.ask = q, !.ceiling = pin, !.calm = TRUE])
    /\ UNCHANGED <<log, mark, broken, round, wait>>

Ceiling(r) == IF call[r].ask.pinned THEN call[r].ceiling ELSE Top

\* `computing`: a cell that was brought up to date already is passed over.
Once(s) ==
    LET once[n \in 0..Len(s)] ==
          IF n = 0 THEN <<>>
          ELSE IF s[n] \in ToSet(once[n - 1]) THEN once[n - 1] ELSE Append(once[n - 1], s[n])
    IN once[Len(s)]

\* Mutation: a cell is computed before what it reads.
PlanInverted(c) ==
    LET plan[d \in Cell] ==
          IF d \in Source \/ Absent(d, Top) THEN <<>>
          ELSE <<d>> \o FlattenSeq([n \in DOMAIN Reads[d] |-> plan[Reads[d][n]]])
    IN Once(plan[c])

\* The cells refresh runs for a cell: what it was made of first, and each once.
Plan(c) ==
    LET plan[d \in Cell] ==
          IF d \in Source \/ Absent(d, Top) THEN <<>>
          ELSE FlattenSeq([n \in DOMAIN Reads[d] |-> plan[Reads[d][n]]]) \o <<d>>
    IN Once(plan[c])

\* can_compute_at and settled_here: the past cannot be computed, and what already
\* holds is not computed again.
Check(r) ==
    /\ call[r].at = "check"
    /\ LET c       == call[r].ask.cell
           settled == ~Absent(c, Ceiling(r))
                      /\ Validated(Found(c, Ceiling(r)), Ceiling(r)) >= Ceiling(r)
       IN Become(r, IF Ceiling(r) >= Top /\ ~settled
                    THEN [call[r] EXCEPT !.at = "compute", !.todo = Plan(c)]
                    ELSE [call[r] EXCEPT !.at = "look"])
    /\ UNCHANGED <<log, mark, broken, round, wait, left>>

\* run_now: a broken producer is not run; any other claims the head it sees now.
Claim(r) ==
    /\ call[r].at = "compute"
    /\ Become(r, IF call[r].todo = <<>> THEN [call[r] EXCEPT !.at = "look"]
                 ELSE IF Head(call[r].todo) \in broken.now
                      THEN [call[r] EXCEPT !.todo = Tail(@)]
                      ELSE [call[r] EXCEPT !.at = "run", !.claim = Top])
    /\ (Overlap \/ (Opens = {} /\ round = NoRound) \/ call[r].todo = <<>>)
    /\ UNCHANGED <<log, mark, broken, round, wait, left>>

\* Mutation: the stamp is the watermark the producer had.
RunUnstamped(r) ==
    /\ call[r].at = "run"
    /\ LET c == Head(call[r].todo)
       IN /\ log' = Append(log, [by |-> "engine", state |-> "committed", reflects |-> mark[c],
                cells |-> [d \in {c} |-> [value |-> [n \in DOMAIN Reads[c] |->
                                                        Value(Reads[c][n], Top)],
                                          fresh |-> mark[c], reads |-> Reads[c]]]])
          /\ call' = [Disturbed EXCEPT ![r] = [call[r] EXCEPT !.at = "compute", !.todo = Tail(@)]]
    /\ UNCHANGED <<mark, broken, round, wait, left>>

\* The run reads at the head of that moment and commits a layer that carries the
\* watermark its producer had, and no new one.
Run(r) ==
    /\ call[r].at = "run"
    /\ LET c == Head(call[r].todo)
       IN /\ log' = Append(log, [by |-> "engine", state |-> "committed", reflects |-> mark[c],
                cells |-> [d \in {c} |-> [value |-> [n \in DOMAIN Reads[c] |->
                                                        Value(Reads[c][n], Top)],
                                          fresh |-> call[r].claim, reads |-> Reads[c]]]])
          /\ call' = [Disturbed EXCEPT ![r] = [call[r] EXCEPT !.at = "compute", !.todo = Tail(@)]]
    /\ UNCHANGED <<mark, broken, round, wait, left>>

\* The read path is fixed, and the record looked up on it.  The layers whose replay
\* gives that very value are noted for the properties.
Look(r) ==
    /\ call[r].at = "look"
    /\ LET c == call[r].ask.cell
           record == Found(c, Ceiling(r))
       IN Become(r, IF Absent(c, Ceiling(r))
            THEN [call[r] EXCEPT !.at = "none",
                     !.answer = [state |-> "absent", fresh |-> 0, holds |-> {},
                                 calm |-> FALSE]]
            ELSE [call[r] EXCEPT !.at = "validate", !.ceiling = Ceiling(r), !.record = record,
                     !.holds = {i \in 0..Ceiling(r) : Replay(i)[c] = record.value}])
    /\ UNCHANGED <<log, mark, broken, round, wait, left>>

Judged(r, state, fresh) ==
    Become(r, [call[r] EXCEPT !.at = "judge",
                 !.answer = [state |-> state, fresh |-> fresh, holds |-> call[r].holds,
                             calm |-> call[r].calm]])

Validate(r) ==
    /\ call[r].at = "validate"
    /\ LET record    == call[r].record
           ceiling   == call[r].ceiling
           watermark == Validated(record, ceiling)
       IN IF call[r].ask.want = "any"
          THEN IF record.fresh >= ceiling THEN Judged(r, "current", ceiling)
               ELSE Judged(r, "unvalidated", record.fresh)
          ELSE IF watermark >= ceiling THEN Judged(r, "current", ceiling)
               ELSE Judged(r, "stale", watermark)
    /\ UNCHANGED <<log, mark, broken, round, wait, left>>

\* A broken producer overrides what validation said.
Judge(r) ==
    /\ call[r].at = "judge"
    /\ Become(r, [NoCall EXCEPT !.ask = call[r].ask, !.answer =
                    IF call[r].ask.cell \in broken.now
                    THEN [call[r].answer EXCEPT !.state = "broken"] ELSE call[r].answer])
    /\ UNCHANGED <<log, mark, broken, round, wait, left>>

---------------------------------------------------------------------------
(* Waiting for the frontier                                                *)

Await(w, target) ==
    /\ wait[w].at = "none" /\ left.waits > 0 /\ left' = [left EXCEPT !.waits = @ - 1]
    /\ target \in Committed /\ log[target].by = "client"
    /\ wait' = [wait EXCEPT ![w] = [at |-> "arm", target |-> target, woken |-> FALSE]]
    /\ UNCHANGED <<log, mark, broken, round, call>>

\* reaches: interest first, then the check, then sleep.
Arm(w) ==
    /\ wait[w].at = "arm"
    /\ wait' = [wait EXCEPT ![w].at = "check", ![w].woken = FALSE]
    /\ UNCHANGED <<log, mark, broken, round, call, left>>

Compare(w) ==
    /\ wait[w].at = "check"
    /\ wait' = [wait EXCEPT ![w].at = IF SpanFrom >= wait[w].target THEN "done" ELSE "unmet"]
    /\ UNCHANGED <<log, mark, broken, round, call, left>>

Sleep(w) ==
    /\ wait[w].at = "unmet"
    /\ wait' = [wait EXCEPT ![w].at = "asleep"]
    /\ UNCHANGED <<log, mark, broken, round, call, left>>

Wake(w) ==
    /\ wait[w].at = "asleep" /\ wait[w].woken
    /\ wait' = [wait EXCEPT ![w].at = "arm"]
    /\ UNCHANGED <<log, mark, broken, round, call, left>>

---------------------------------------------------------------------------
\* A branch whose source cells were all written and derived from, in one round.
SettledLog ==
    LET n == Cardinality(Source)
        written == SetToSeq(Source)
        value == Composed([c \in Source |-> <<CHOOSE i \in 1..n : written[i] = c>>], Derived)
    IN [i \in 1..n |->
          [by |-> "client", state |-> "committed", reflects |-> 0,
           cells |-> [c \in {written[i]} |->
                        [value |-> value[c], fresh |-> 0, reads |-> <<>>]]]]
       \o <<[by |-> "engine", state |-> "committed", reflects |-> n,
             cells |-> [c \in Derived |->
                          [value |-> value[c], fresh |-> n, reads |-> Reads[c]]]]>>

Init ==
    /\ left \in Budgets
    /\ log = IF left.settled THEN SettledLog ELSE <<>>
    /\ mark = [p \in Derived |-> IF left.settled THEN Len(log) - 1 ELSE 0]
    /\ broken = [now |-> {}, ever |-> FALSE] /\ round = NoRound
    /\ call = [r \in Reader |-> NoCall] /\ wait = [w \in Waiter |-> NoWait]

Reading(r) == Check(r) \/ Claim(r) \/ Run(r) \/ Look(r) \/ Validate(r) \/ Judge(r)
Waiting(w) == Arm(w) \/ Compare(w) \/ Sleep(w) \/ Wake(w)

Next ==
    \/ \E c \in Source : Write(c)
    \/ \E i \in DOMAIN log : Commit(i, "committed") \/ Commit(i, "aborted")
    \/ Fork \/ Land \/ Advance
    \/ \E p \in Derived : Break(p) \/ Recover(p)
    \/ \E r \in Reader : Reading(r) \/ \E q \in Requests, pin \in 0..Top : Ask(r, q, pin)
    \/ \E w \in Waiter : Waiting(w) \/ \E target \in DOMAIN log : Await(w, target)

\* A client finishes the layer it opened, rounds are run as long as there is work,
\* and tasks are scheduled.
Spec ==
    /\ Init /\ [][Next]_vars
    /\ WF_vars(\E i \in DOMAIN log : Commit(i, "committed") \/ Commit(i, "aborted"))
    /\ WF_vars(Fork \/ Land \/ Advance)
    /\ \A w \in Waiter : WF_vars(Waiting(w))
    /\ \A r \in Reader : WF_vars(Claim(r) \/ Run(r))

---------------------------------------------------------------------------
(* Properties *)

\* A read that says current is right: a replay of the world through the layer it
\* names, as it stood when the record was looked up, gives the value it returned,
\* whatever landed or broke while the read was being validated.
CurrentIsTrue ==
    \A r \in Reader :
        call[r].answer # None /\ call[r].answer.state = "current"
            => call[r].answer.fresh \in call[r].answer.holds

\* The stamp on a stored value means what it says, in rounds and in inline runs, as
\* long as no producer was ever broken: replay the world at it and get that value.
StampIsTrue ==
    ~broken.ever =>
        \A i \in Committed : log[i].by = "engine" =>
            \A c \in DOMAIN log[i].cells :
                log[i].cells[c].value = Replay(log[i].cells[c].fresh)[c]

\* A client that asked for the current value gets it, if nobody wrote, failed or
\* landed anything while its cells were being computed.
CurrentPays ==
    \A r \in Reader :
        /\ call[r].answer # None /\ call[r].ask.want = "current" /\ ~call[r].ask.pinned
        /\ call[r].answer.calm /\ ~broken.ever
        => call[r].answer.state = "current"

\* The shape of what a reader can be doing, and that asking for the current value is
\* not in vain (resolve.rs resolve, settled_here).
ReadsInv == TypeOK /\ CurrentPays

\* Whoever waits for the frontier wakes up: no advance is missed between the look
\* at the frontier and the sleep, and no broken producer holds it back.
Reached ==
    \A w \in Waiter : wait[w].at = "arm" ~> wait[w].at = "done"
=============================================================================
