------------------------------ MODULE Workers ------------------------------
(***************************************************************************)
(* Worker processes: the pool of one command, the conversation of an       *)
(* invocation with its worker, and the repo push that moves the code under *)
(* them while a server is up.                                              *)
(*                                                                         *)
(* The code of the command is a number that grows with every edit.  A pool *)
(* is a number as well: emptying the executor's map makes the next         *)
(* invocation start a new pool, and the old one lives as long as somebody  *)
(* still holds a worker of it.                                             *)
(***************************************************************************)
EXTENDS Naturals, Sequences, FiniteSets, SequencesExt

CONSTANTS
    Proc,      \* process slots of the machine
    Inv,       \* invocations a round can run at a time
    MaxCode,   \* versions of the command file
    MaxPool,   \* pools that can be made
    MaxAsk,    \* cell accesses of an invocation
    Scenarios, \* what may go wrong, and the processes one command may have
    None

ASSUME WorkersAssumption ==
    /\ MaxCode \in Nat \ {0}
    /\ MaxPool \in Nat \ {0} /\ MaxAsk \in Nat
    /\ \A sc \in Scenarios :
          /\ sc.faults \subseteq {"start", "die", "cell", "panic", "edit"}
          /\ sc.size \in Nat \ {0}
    /\ None \notin Proc \cup Inv /\ IsFiniteSet(Inv)

VARIABLES
    fault,    \* what may go wrong
    size,     \* the processes one command may have
    disk,     \* the code in the command file
    def,      \* the code the definition in force was pushed with
    gate,     \* who is inside the registry: nobody, a round, or a push and its stage
    pushing,  \* the code that push described, and the pool it is emptying
    current,  \* the pool in the executor's map, 0 when there is none
    made,     \* pools made
    idle,     \* the idle workers of each pool, the last one in is the first one out
    proc,     \* every process: alive or not, its code, its pipes
    inv       \* every invocation: where it is, its pool and its worker

pushVars == <<disk, def, gate, pushing>>
poolVars == <<current, made, idle>>
vars     == <<fault, size, pushVars, poolVars, proc, inv>>

Pool    == 1..MaxPool
NoProc  == [life |-> "none", code |-> 0, open |-> FALSE, asked |-> 0,
            in |-> None, out |-> None]
NoInv   == [at |-> "none", pool |-> 0, proc |-> None, stray |-> FALSE]
Gates   == {"free", "round", "described", "landed", "saved", "emptying"}
\* An invocation has a permit from its checkout until it is over.
Permitted == {"spawning", "starting", "ready", "talking", "handling", "returning",
              "closing"}

Holders(g) == {i \in Inv : inv[i].pool = g /\ inv[i].at \in Permitted}
Held(g)    == {inv[i].proc : i \in Holders(g)} \ {None}
InPool(g)  == Held(g) \cup ToSet(idle[g])

TypeOK ==
    /\ disk \in 1..MaxCode /\ def \in 0..MaxCode /\ gate \in Gates
    /\ pushing \in [code : 0..MaxCode, pool : 0..MaxPool, last : Proc \cup {None}]
    /\ current \in 0..made /\ made \in 0..MaxPool
    /\ \A g \in Pool : ToSet(idle[g]) \subseteq Proc /\ IsInjective(idle[g])
    /\ \A p \in Proc :
          /\ proc[p].life \in {"none", "up", "dead"} /\ proc[p].code \in 0..MaxCode
          /\ proc[p].asked \in 0..MaxAsk
    /\ \A i \in Inv :
          /\ inv[i].at \in Permitted \cup {"none", "waiting"}
          /\ inv[i].proc \in Proc \cup {None} /\ inv[i].pool \in 0..made
    \* a worker is in one pair of hands
    /\ \A i, j \in Inv : i # j /\ inv[i].proc # None => inv[i].proc # inv[j].proc
    /\ \A g \in Pool : Held(g) \cap ToSet(idle[g]) = {}

---------------------------------------------------------------------------
(* Rounds and the developer                                                *)

Edit ==
    /\ "edit" \in fault /\ disk < MaxCode /\ disk' = disk + 1
    /\ UNCHANGED <<fault, size, def, gate, pushing, poolVars, proc, inv>>

RoundBegins ==
    /\ gate = "free" /\ gate' = "round"
    /\ UNCHANGED <<fault, size, disk, def, pushing, poolVars, proc, inv>>

\* Every task has been joined.
RoundEnds ==
    /\ gate = "round" /\ \A i \in Inv : inv[i].at # "none" => inv[i].stray
    /\ gate' = "free"
    /\ UNCHANGED <<fault, size, disk, def, pushing, poolVars, proc, inv>>

\* A task panics in the engine's own code, in the middle of a conversation.  Its
\* worker is shut down on the way out; the error ends the round there and then, and
\* its siblings are aborted, which reaches each at its next await and no earlier.
RoundPanics(i) ==
    /\ "panic" \in fault /\ gate = "round" /\ inv[i].at = "handling" /\ ~inv[i].stray
    /\ proc' = [proc EXCEPT ![inv[i].proc].open = FALSE]
    /\ inv' = [j \in Inv |-> IF j = i
                             THEN [inv[i] EXCEPT !.at = "closing", !.stray = TRUE]
                             ELSE [inv[j] EXCEPT !.stray = inv[j].at # "none"]]
    /\ gate' = "free"
    /\ UNCHANGED <<fault, size, disk, def, pushing, poolVars>>

---------------------------------------------------------------------------
(* The pool                                                                *)

\* An invocation of the round looks up its command's pool, making it if need be.
Start(i) ==
    /\ gate = "round" /\ inv[i].at = "none"
    /\ IF current = 0
       THEN made < MaxPool /\ made' = made + 1 /\ current' = made + 1
       ELSE UNCHANGED <<made, current>>
    /\ inv' = [inv EXCEPT ![i] = [NoInv EXCEPT !.at = "waiting", !.pool = current']]
    /\ UNCHANGED <<fault, size, pushVars, idle, proc>>

\* Mutation: the permit is taken after a worker was looked for.
CheckoutLate(i) ==
    LET g == inv[i].pool
    IN  /\ inv[i].at = "waiting" /\ pushing.pool # g
        /\ IF idle[g] = <<>>
           THEN /\ inv' = [inv EXCEPT ![i].at = "spawning"] /\ UNCHANGED idle
           ELSE /\ Cardinality(Holders(g)) < size
                /\ idle' = [idle EXCEPT ![g] = Front(@)]
                /\ inv' = [inv EXCEPT ![i].at = "ready", ![i].proc = Last(idle[g])]
        /\ UNCHANGED <<fault, size, pushVars, current, made, proc>>

\* A permit first, then an idle worker, or else the right to start one.
Checkout(i) ==
    LET g == inv[i].pool
    IN  /\ inv[i].at = "waiting" /\ Cardinality(Holders(g)) < size
        /\ pushing.pool # g
        /\ IF idle[g] = <<>>
           THEN /\ inv' = [inv EXCEPT ![i].at = "spawning"] /\ UNCHANGED idle
           ELSE /\ idle' = [idle EXCEPT ![g] = Front(@)]
                /\ inv' = [inv EXCEPT ![i].at = "ready", ![i].proc = Last(idle[g])]
        /\ UNCHANGED <<fault, size, pushVars, current, made, proc>>

\* The pool of an invocation that ends goes with the last one that holds it, and
\* so do the idle workers a removed pool still had: their pipes close.
Orphaned(i) ==
    LET g == inv[i].pool
    IN  IF g # current /\ g # pushing.pool
           /\ \A j \in Inv \ {i} : inv[j].pool # g
        THEN ToSet(idle[g]) ELSE {}

\* What a step of the process table looks like when some pipes close on top of it.
Closing(table, some) ==
    [p \in Proc |-> IF p \in some THEN [table[p] EXCEPT !.open = FALSE] ELSE table[p]]

EndsLeaving(i, table) ==
    /\ inv' = [inv EXCEPT ![i] = NoInv]
    /\ proc' = Closing(table, Orphaned(i))
    /\ idle' = IF Orphaned(i) = {} THEN idle ELSE [idle EXCEPT ![inv[i].pool] = <<>>]

\* The command is started with the code on disk: over pipes, or listening first on a
\* socket it has to connect to.  It may not start: missing, or busy ten times over.
Spawn(i) ==
    /\ inv[i].at = "spawning"
    /\ \/ LET p == CHOOSE q \in Proc : proc[q].life = "none"
          IN /\ \E q \in Proc : proc[q].life = "none"
             /\ proc' = [proc EXCEPT ![p] = [NoProc EXCEPT !.life = "up", !.code = disk,
                                                           !.open = TRUE]]
             /\ inv' = [inv EXCEPT ![i].at = "starting", ![i].proc = p]
             /\ UNCHANGED idle
       \/ "start" \in fault /\ EndsLeaving(i, proc)
    /\ UNCHANGED <<fault, size, pushVars, current, made>>

\* Connected, hellos exchanged and a codec agreed.
Greet(i) ==
    /\ inv[i].at = "starting" /\ proc[inv[i].proc].life = "up"
    /\ inv' = [inv EXCEPT ![i].at = "ready"]
    /\ UNCHANGED <<fault, size, pushVars, poolVars, proc>>

\* It died before it connected or answered, or it did not connect in time and is
\* killed: both are reaped.
StartFails(i) ==
    /\ "start" \in fault /\ inv[i].at = "starting"
    /\ EndsLeaving(i, [proc EXCEPT ![inv[i].proc] = NoProc])
    /\ UNCHANGED <<fault, size, pushVars, current, made>>

\* It answered with a codec nobody offered: let go of, not waited for.
GreetFails(i) ==
    /\ "start" \in fault /\ inv[i].at = "starting"
    /\ EndsLeaving(i, [proc EXCEPT ![inv[i].proc].open = FALSE])
    /\ UNCHANGED <<fault, size, pushVars, current, made>>

---------------------------------------------------------------------------
(* The conversation                                                        *)

\* Mutation: a conversation that broke off gives its worker back.
DropKeeping(i) ==
    /\ inv' = [inv EXCEPT ![i].at = "returning"]
    /\ UNCHANGED proc

\* Mutation: the reading half stays open while the worker is waited for.
DropHalf(i) ==
    /\ inv' = [inv EXCEPT ![i].at = "closing"]
    /\ UNCHANGED proc

\* An error path: the checkout is dropped, both pipes go, and the worker is waited
\* for with the permit still held.
Drop(i) ==
    /\ inv' = [inv EXCEPT ![i].at = "closing"]
    /\ proc' = [proc EXCEPT ![inv[i].proc].open = FALSE]

Invoke(i) ==
    LET p == inv[i].proc
    IN  /\ inv[i].at = "ready"
        /\ \/ /\ proc' = [proc EXCEPT ![p].in = [kind |-> "invoke", for |-> i]]
              /\ inv' = [inv EXCEPT ![i].at = "talking"]
           \/ proc[p].life = "dead" /\ Drop(i)
        /\ UNCHANGED <<fault, size, pushVars, poolVars>>

\* The worker reads what it was sent and says one thing back.
Work(p) ==
    /\ proc[p].life = "up" /\ proc[p].open /\ proc[p].in # None /\ proc[p].out = None
    /\ LET asked == IF proc[p].in.kind = "invoke" THEN 0 ELSE proc[p].asked
       IN \E kind \in {"access", "done", "error"} :
            /\ kind = "access" => asked < MaxAsk
            /\ proc' = [proc EXCEPT ![p].in = None,
                   ![p].asked = IF kind = "access" THEN asked + 1 ELSE 0,
                   ![p].out = [kind |-> kind, for |-> proc[p].in.for]]
    /\ UNCHANGED <<fault, size, pushVars, poolVars, inv>>

\* The engine reads the next message: an access to serve, or the end of it.
Receive(i) ==
    LET p == inv[i].proc
    IN  /\ inv[i].at = "talking" /\ proc[p].out # None
        /\ proc' = [proc EXCEPT ![p].out = None]
        /\ inv' = [inv EXCEPT ![i].at =
                      IF proc[p].out.kind = "access" THEN "handling" ELSE "returning"]
        /\ UNCHANGED <<fault, size, pushVars, poolVars>>

\* The pipe ended.
ReceiveNothing(i) ==
    LET p == inv[i].proc
    IN  /\ inv[i].at = "talking" /\ proc[p].out = None /\ proc[p].life = "dead"
        /\ Drop(i) /\ UNCHANGED <<fault, size, pushVars, poolVars>>

\* get, get_input or set through the context, and the answer; an address that does
\* not parse, a cell this producer may not write or a closed pipe ends it.
Handle(i) ==
    LET p == inv[i].proc
    IN  /\ inv[i].at = "handling"
        /\ \/ /\ proc' = [proc EXCEPT ![p].in = [kind |-> "answer", for |-> i]]
              /\ inv' = [inv EXCEPT ![i].at = "talking"]
           \/ ("cell" \in fault \/ proc[p].life = "dead" \/ inv[i].stray) /\ Drop(i)
        /\ UNCHANGED <<fault, size, pushVars, poolVars>>

\* Done and Error both hand the worker back, and then the permit: a worker that
\* reported a failure is not out of step.  It goes to the pool it came from.
Release(i) ==
    LET g == inv[i].pool
        p == inv[i].proc
    IN  /\ inv[i].at = "returning" /\ pushing.pool # g
        /\ IF g # current /\ \A j \in Inv \ {i} : inv[j].pool # g
           THEN /\ idle' = [idle EXCEPT ![g] = <<>>]
                /\ proc' = Closing(proc, Orphaned(i) \cup {p})
           ELSE /\ idle' = [idle EXCEPT ![g] = Append(@, p)] /\ UNCHANGED proc
        /\ inv' = [inv EXCEPT ![i] = NoInv]
        /\ UNCHANGED <<fault, size, pushVars, current, made>>

Reap(i) ==
    /\ inv[i].at = "closing" /\ proc[inv[i].proc].life = "dead"
    /\ EndsLeaving(i, [proc EXCEPT ![inv[i].proc] = NoProc])
    /\ UNCHANGED <<fault, size, pushVars, current, made>>

\* An abort that reaches a task where it waits for a permit or a connection.
Cancel(i) ==
    /\ inv[i].stray /\ inv[i].at \in {"waiting", "starting"}
    /\ EndsLeaving(i, IF inv[i].proc = None THEN proc
                      ELSE [proc EXCEPT ![inv[i].proc].open = FALSE])
    /\ UNCHANGED <<fault, size, pushVars, current, made>>

\* A worker whose pipes closed exits; others may crash.
Exit(p) ==
    /\ proc[p].life = "up" /\ ~proc[p].open
    /\ proc' = [proc EXCEPT ![p] =
          IF \E i \in Inv : inv[i].proc = p THEN [@ EXCEPT !.life = "dead"]
          ELSE IF pushing.last = p THEN [@ EXCEPT !.life = "dead"] ELSE NoProc]
    /\ UNCHANGED <<fault, size, pushVars, poolVars, inv>>

Die(p) ==
    /\ "die" \in fault /\ proc[p].life = "up" /\ proc[p].open
    /\ proc' = [proc EXCEPT ![p].life = "dead"]
    /\ UNCHANGED <<fault, size, pushVars, poolVars, inv>>

---------------------------------------------------------------------------
(* repo push, with the gate held to its end                                *)

\* Every script describes itself and is hashed.
Describe ==
    /\ gate = "free" /\ gate' = "described"
    /\ pushing' = [pushing EXCEPT !.code = disk]
    /\ UNCHANGED <<fault, size, disk, def, poolVars, proc, inv>>

\* A definition whose fingerprint moved lands in a layer of its own; no other does.
Land ==
    /\ gate = "described" /\ def' = pushing.code /\ gate' = "landed"
    /\ UNCHANGED <<fault, size, disk, pushing, poolVars, proc, inv>>

SaveTable ==
    /\ gate = "landed" /\ gate' = "saved"
    /\ UNCHANGED <<fault, size, disk, def, pushing, poolVars, proc, inv>>

\* Mutation: the idle workers are stopped and their pool stays.
ReloadInPlace ==
    /\ gate = "saved" /\ gate' = "emptying"
    /\ pushing' = [pushing EXCEPT !.pool = current]
    /\ UNCHANGED <<fault, size, disk, def, poolVars, proc, inv>>

\* reload_producers: the executor's map is emptied ...
Reload ==
    /\ gate = "saved" /\ gate' = "emptying"
    /\ pushing' = [pushing EXCEPT !.pool = current] /\ current' = 0
    /\ UNCHANGED <<fault, size, disk, def, made, idle, proc, inv>>

\* ... and its idle workers stopped, one after the other, each waited for.
StopIdle ==
    /\ gate = "emptying" /\ pushing.pool # 0 /\ pushing.last = None
    /\ idle[pushing.pool] # <<>>
    /\ LET p == Head(idle[pushing.pool])
       IN /\ proc' = [proc EXCEPT ![p].open = FALSE]
          /\ pushing' = [pushing EXCEPT !.last = p]
          /\ idle' = [idle EXCEPT ![pushing.pool] = Tail(@)]
    /\ UNCHANGED <<fault, size, disk, def, gate, current, made, inv>>

StopWaits ==
    /\ gate = "emptying" /\ pushing.last # None /\ proc[pushing.last].life = "dead"
    /\ proc' = [proc EXCEPT ![pushing.last] = NoProc]
    /\ pushing' = [pushing EXCEPT !.last = None]
    /\ UNCHANGED <<fault, size, disk, def, gate, poolVars, inv>>

\* The catch-up of the push follows under the same gate.
Reloaded ==
    /\ gate = "emptying" /\ pushing.last = None
    /\ pushing.pool # 0 => idle[pushing.pool] = <<>>
    /\ gate' = "round" /\ pushing' = [code |-> 0, pool |-> 0, last |-> None]
    /\ UNCHANGED <<fault, size, disk, def, poolVars, proc, inv>>

---------------------------------------------------------------------------
Init ==
    /\ \E sc \in Scenarios : fault = sc.faults /\ size = sc.size
    /\ disk = 1 /\ def = 0 /\ gate = "free"
    /\ pushing = [code |-> 0, pool |-> 0, last |-> None]
    /\ current = 0 /\ made = 0 /\ idle = [g \in Pool |-> <<>>]
    /\ proc = [p \in Proc |-> NoProc] /\ inv = [i \in Inv |-> NoInv]

Pooling(i) == Checkout(i) \/ Spawn(i) \/ Greet(i) \/ StartFails(i) \/ GreetFails(i)

Talking(i) ==
    \/ Invoke(i) \/ Receive(i) \/ ReceiveNothing(i) \/ Handle(i) \/ Release(i)
    \/ Reap(i) \/ Cancel(i)

Pushing == Land \/ SaveTable \/ Reload \/ StopIdle \/ StopWaits \/ Reloaded

Next ==
    \/ Edit \/ RoundBegins \/ RoundEnds \/ Describe \/ Pushing
    \/ \E i \in Inv : RoundPanics(i) \/ Start(i) \/ Pooling(i) \/ Talking(i)
    \/ \E p \in Proc : Work(p) \/ Exit(p) \/ Die(p)

\* Tasks and threads are scheduled, a semaphore is fair, and a worker works: it
\* answers what it reads and exits when its pipes end.
Spec ==
    /\ Init /\ [][Next]_vars
    /\ WF_vars(Pushing) /\ WF_vars(RoundEnds)
    /\ \A i \in Inv : WF_vars(Pooling(i)) /\ WF_vars(Talking(i)) /\ SF_vars(Checkout(i))
    /\ \A p \in Proc : WF_vars(Work(p)) /\ WF_vars(Exit(p))

---------------------------------------------------------------------------
(* Properties *)

\* A pool never has more processes than its size, the idle and the dying ones
\* counted, however checkouts, returns and failures overlap.
PoolBounded ==
    \A g \in Pool : Cardinality(InPool(g)) <= size

\* A worker is in one pair of hands, and there are never more than the pool may have
\* (lib.rs checkout and release).
WorkersInv == TypeOK /\ PoolBounded

\* No invocation reads what a worker said to another, and no worker is told
\* something meant for another: a conversation that broke off is not inherited.
RepliesMatch ==
    \A i \in Inv : inv[i].at \in {"ready", "talking", "handling"} =>
        LET p == inv[i].proc
        IN  /\ inv[i].at # "talking" => proc[p].out = None /\ proc[p].in = None
            /\ proc[p].out # None => proc[p].out.for = i
            /\ proc[p].in # None => proc[p].in.for = i

\* A round of the pushed definition never runs in a process that has older code,
\* not even in one that a task of an earlier, panicked round gives back late.
NoStaleCode ==
    \A i \in Inv : gate = "round" /\ ~inv[i].stray /\ inv[i].proc # None
        => proc[inv[i].proc].code >= def

\* A round that stops starting invocations ends, whatever its workers do: a permit
\* is never lost and a worker that is waited for does exit.
EveryInvocationEnds ==
    \A i \in Inv : inv[i].at # "none" ~> inv[i].at = "none"
=============================================================================
