--------------------------- MODULE WorkersProofs ---------------------------
(***************************************************************************)
(* What a command's pool of workers promises, for any number of            *)
(* invocations, processes, pools and versions of the code, and whatever    *)
(* fails meanwhile.                                                        *)
(***************************************************************************)
EXTENDS Workers, FiniteSetTheorems, TLAPS

---------------------------------------------------------------------------
(* The inductive invariant, one part for each thing the code keeps straight*)

Asked  == [kind : {"invoke", "answer"}, for : Inv]
Said   == [kind : {"access", "done", "error"}, for : Inv]
Process == [life : {"none", "up", "dead"}, code : 0..MaxCode, open : BOOLEAN,
            asked : 0..MaxAsk, in : Asked \cup {None}, out : Said \cup {None}]
Invocation == [at : Permitted \cup {"none", "waiting"}, pool : 0..MaxPool,
               proc : Proc \cup {None}, stray : BOOLEAN]

\* What each variable is.
Shaped ==
    /\ size \in Nat \ {0}
    /\ disk \in 1..MaxCode /\ def \in 0..MaxCode /\ gate \in Gates
    /\ pushing \in [code : 0..MaxCode, pool : 0..MaxPool, last : Proc \cup {None}]
    /\ made \in 0..MaxPool /\ current \in 0..made
    /\ idle \in [Pool -> Seq(Proc)]
    /\ proc \in [Proc -> Process] /\ inv \in [Inv -> Invocation]

\* An invocation has a pool while it lasts and a worker from the start of one or
\* the checkout of an idle one; only a push that empties a pool waits for a worker
\* itself; a pool that was not made yet is empty.
Staged ==
    /\ \A i \in Inv :
          /\ inv[i].at = "none" => inv[i].pool = 0
          /\ inv[i].at # "none" => inv[i].pool \in 1..made
          /\ inv[i].at \in {"none", "waiting", "spawning"} <=> inv[i].proc = None
    /\ \A g \in Pool : g > made => idle[g] = <<>>
    /\ gate # "emptying" => pushing.last = None /\ pushing.pool = 0

\* A worker is with one invocation, or idle in one place of one pool, or the one the
\* push waits for.
OneHand ==
    /\ \A i, j \in Inv : i # j /\ inv[i].proc # None => inv[i].proc # inv[j].proc
    /\ \A g \in Pool : \A k \in 1..Len(idle[g]) :
          /\ \A i \in Inv : inv[i].proc # idle[g][k]
          /\ pushing.last # idle[g][k]
          /\ \A h \in Pool : \A m \in 1..Len(idle[h]) :
                idle[g][k] = idle[h][m] => g = h /\ k = m
    /\ \A i \in Inv : inv[i].proc # None => inv[i].proc # pushing.last

\* A process somebody has a hand on was started and not reaped: its slot is not
\* given to another.
Alive ==
    /\ \A i \in Inv : inv[i].proc # None => proc[inv[i].proc].life # "none"
    /\ \A g \in Pool : \A k \in 1..Len(idle[g]) : proc[idle[g][k]].life # "none"
    /\ pushing.last # None => proc[pushing.last].life # "none"

\* Nothing is in the pipes of this worker, and they are open.
Quiet(p) == proc[p].open /\ proc[p].in = None /\ proc[p].out = None

\* A worker that is idle, just started or between two messages has empty pipes; one
\* that is talked to has one message in them, and it is the invocation's.
InStepOf(i) ==
    /\ inv[i].at \in {"starting", "ready", "handling", "returning"}
          => Quiet(inv[i].proc)
    /\ inv[i].at = "talking" =>
          /\ proc[inv[i].proc].open
          /\ proc[inv[i].proc].in = None \/ proc[inv[i].proc].out = None
          /\ proc[inv[i].proc].in # None => proc[inv[i].proc].in.for = i
          /\ proc[inv[i].proc].out # None => proc[inv[i].proc].out.for = i

InStep ==
    /\ \A g \in Pool : \A k \in 1..Len(idle[g]) : Quiet(idle[g][k])
    /\ \A i \in Inv : InStepOf(i)

\* The permits that are out and the workers that are idle are never more than the
\* processes a command may have.
Loaded ==
    \A g \in Pool : Cardinality(Holders(g)) + Len(idle[g]) <= size

\* Outside a round only strays are left.  What a round runs it runs in the pool of
\* the map; and but for the stretch of a push in which the definition moved and the
\* map was not emptied yet, nothing in that pool is older than the definition.
Current ==
    /\ def <= disk /\ pushing.code <= disk
    /\ \A i \in Inv : inv[i].at # "none" /\ ~inv[i].stray =>
          gate = "round" /\ inv[i].pool = current
    /\ gate \notin {"landed", "saved"} /\ current # 0 =>
          /\ \A i \in Inv : inv[i].pool = current /\ inv[i].proc # None
                => proc[inv[i].proc].code >= def
          /\ \A k \in 1..Len(idle[current]) : proc[idle[current][k]].code >= def

PoolSafe == Shaped /\ Staged /\ OneHand /\ Alive /\ InStep /\ Loaded /\ Current

---------------------------------------------------------------------------
(* The steps, as far as the parts need to know                             *)

\* An invocation is over and left its worker: what somebody else still has a hand on
\* is as it was, and its pool stays as it was or was emptied.
Left(i) ==
    /\ inv[i].at # "none" /\ inv' = [inv EXCEPT ![i] = NoInv]
    /\ idle' \in [Pool -> Seq(Proc)] /\ proc' \in [Proc -> Process]
    /\ \A g \in Pool : idle'[g] = idle[g] \/ idle'[g] = <<>>
    /\ \A g \in Pool : \A k \in 1..Len(idle'[g]) :
          proc'[idle'[g][k]] = proc[idle'[g][k]]
    /\ \A j \in Inv \ {i} : inv[j].proc # None =>
          proc'[inv[j].proc] = proc[inv[j].proc]
    /\ pushing.last # None => proc'[pushing.last] = proc[pushing.last]
    /\ UNCHANGED <<size, pushVars, current, made>>

\* An invocation goes on with the worker it has.
GoneOn(i) ==
    /\ inv[i].at \in {"starting", "ready", "talking", "handling"}
    /\ \E at \in {"ready", "talking", "handling", "returning", "closing"} :
          inv' = [inv EXCEPT ![i].at = at]
    /\ proc' \in [Proc -> Process]
    /\ proc'[inv[i].proc].life = proc[inv[i].proc].life
    /\ proc'[inv[i].proc].code = proc[inv[i].proc].code
    /\ \A p \in Proc \ {inv[i].proc} : proc'[p] = proc[p]
    /\ UNCHANGED <<size, pushVars, poolVars>>

\* No process is an invocation, and neither is the absence of one.
LEMMA NothingIsNone == None \notin Proc /\ None \notin Inv
  BY WorkersAssumption

\* What happens to a process, and to an invocation, leaves it one.
LEMMA ProcessEdits ==
    /\ NoProc \in Process
    /\ \A q \in Process : [q EXCEPT !.open = FALSE] \in Process
    /\ \A q \in Process : [q EXCEPT !.life = "dead"] \in Process
    /\ \A c \in 0..MaxCode :
          [NoProc EXCEPT !.life = "up", !.code = c, !.open = TRUE] \in Process
  <1>1. 0 \in 0..MaxAsk /\ 0 \in 0..MaxCode
    BY WorkersAssumption
  <1>2. NoProc \in Process
    BY <1>1 DEF NoProc, Process
  <1>3. \A q \in Process : [q EXCEPT !.open = FALSE] \in Process
    BY DEF Process
  <1>4. \A q \in Process : [q EXCEPT !.life = "dead"] \in Process
    BY DEF Process
  <1>5. \A c \in 0..MaxCode :
          [NoProc EXCEPT !.life = "up", !.code = c, !.open = TRUE] \in Process
    BY <1>1 DEF NoProc, Process
  <1> QED  BY <1>2, <1>3, <1>4, <1>5

LEMMA InvocationEdits ==
    /\ NoInv \in Invocation
    /\ \A g \in 0..MaxPool : [NoInv EXCEPT !.at = "waiting", !.pool = g] \in Invocation
    /\ \A v \in Invocation : [v EXCEPT !.at = "closing", !.stray = TRUE] \in Invocation
    /\ \A v \in Invocation : [v EXCEPT !.stray = v.at # "none"] \in Invocation
    /\ \A v \in Invocation, at \in Permitted : [v EXCEPT !.at = at] \in Invocation
    /\ \A v \in Invocation, at \in Permitted, p \in Proc :
          [v EXCEPT !.at = at, !.proc = p] \in Invocation
  <1>1. 0 \in 0..MaxPool /\ "closing" \in Permitted
    BY WorkersAssumption DEF Permitted
  <1>2. NoInv \in Invocation
    BY <1>1 DEF NoInv, Invocation
  <1>3. \A g \in 0..MaxPool : [NoInv EXCEPT !.at = "waiting", !.pool = g] \in Invocation
    BY DEF NoInv, Invocation
  <1>4. \A v \in Invocation : [v EXCEPT !.at = "closing", !.stray = TRUE] \in Invocation
    BY <1>1 DEF Invocation
  <1>5. \A v \in Invocation : [v EXCEPT !.stray = v.at # "none"] \in Invocation
    BY DEF Invocation
  <1>6. \A v \in Invocation, at \in Permitted : [v EXCEPT !.at = at] \in Invocation
    BY DEF Invocation
  <1>7. \A v \in Invocation, at \in Permitted, p \in Proc :
           [v EXCEPT !.at = at, !.proc = p] \in Invocation
    BY DEF Invocation
  <1> QED  BY <1>2, <1>3, <1>4, <1>5, <1>6, <1>7

\* A pool with no idle worker has an empty row of them.
LEMMA NobodyIdle ==
    ASSUME NEW s \in Seq(Proc), ToSet(s) = {} PROVE s = <<>>
  <1>1. \A k \in 1..Len(s) : s[k] \in ToSet(s)
    BY DEF ToSet
  <1>2. Len(s) = 0
    <2> SUFFICES ASSUME Len(s) # 0 PROVE FALSE
      OBVIOUS
    <2>1. 1 \in 1..Len(s)
      OBVIOUS
    <2> QED  BY <1>1, <2>1
  <1> QED  BY <1>2

\* Leaving closes the idle workers of an orphaned pool and nobody else's.
LEMMA LeavingFrees ==
    ASSUME Shaped, Staged, OneHand, NEW i \in Inv, inv[i].at # "none",
           NEW table \in [Proc -> Process], EndsLeaving(i, table),
           \A p \in Proc \ {inv[i].proc} : table[p] = proc[p],
           UNCHANGED <<size, pushVars, current, made>>
    PROVE  Left(i)
  <1> DEFINE g == inv[i].pool
  <1>1. g \in Pool /\ inv[i] \in Invocation
    BY DEF Shaped, Staged, Invocation, Pool
  <1>2. Orphaned(i) \subseteq ToSet(idle[g])
    BY DEF Orphaned
  <1>3. Orphaned(i) = {} \/ Orphaned(i) = ToSet(idle[g])
    BY DEF Orphaned
  <1>4. ToSet(idle[g]) = {idle[g][k] : k \in 1..Len(idle[g])}
    BY <1>1 DEF ToSet, Shaped
  <1>5. \A p \in Proc : /\ p \in Orphaned(i) => proc'[p] = [table[p] EXCEPT !.open = FALSE]
                        /\ p \notin Orphaned(i) => proc'[p] = table[p]
    BY DEF EndsLeaving, Closing
  <1>6. proc' \in [Proc -> Process]
    <2>1. \A p \in Proc : [table[p] EXCEPT !.open = FALSE] \in Process
      BY ZenonT(60) DEF Process
    <2> QED  BY <2>1 DEF EndsLeaving, Closing
  <1>7. idle' \in [Pool -> Seq(Proc)]
    <2>1. <<>> \in Seq(Proc)
      OBVIOUS
    <2>2. [idle EXCEPT ![g] = <<>>] \in [Pool -> Seq(Proc)]
      BY <2>1 DEF Shaped
    <2> QED  BY <2>2 DEF EndsLeaving, Shaped
  <1>8. \A h \in Pool : idle'[h] = idle[h] \/ idle'[h] = <<>>
    BY DEF EndsLeaving, Shaped
  <1>9. \A h \in Pool : \A k \in 1..Len(idle'[h]) : idle'[h][k] \notin Orphaned(i)
    <2> SUFFICES ASSUME NEW h \in Pool, NEW k \in 1..Len(idle'[h]),
                        idle'[h][k] \in Orphaned(i)
                 PROVE  FALSE
      OBVIOUS
    <2>1. idle'[h] = idle[h]
      BY <1>8
    <2>2. PICK m \in 1..Len(idle[g]) : idle[g][m] = idle[h][k]
      BY <1>2, <1>4, <2>1
    <2>3. g = h
      BY <1>1, <2>1, <2>2 DEF OneHand
    <2>4. idle'[g] = <<>>
      BY <1>1 DEF EndsLeaving, Shaped
    <2> QED  BY <2>3, <2>4
  <1>10. \A h \in Pool : \A k \in 1..Len(idle'[h]) :
            idle'[h][k] \in Proc /\ proc'[idle'[h][k]] = proc[idle'[h][k]]
    <2> SUFFICES ASSUME NEW h \in Pool, NEW k \in 1..Len(idle'[h])
                 PROVE  /\ idle'[h][k] \in Proc /\ idle'[h][k] # inv[i].proc
      BY <1>5, <1>9
    <2> QED  BY <1>7, <1>8 DEF OneHand
  <1>11. \A j \in Inv \ {i} : inv[j].proc # None =>
            proc'[inv[j].proc] = proc[inv[j].proc]
    <2> SUFFICES ASSUME NEW j \in Inv \ {i}, inv[j].proc # None
                 PROVE  /\ inv[j].proc \in Proc \ {inv[i].proc}
                        /\ inv[j].proc \notin Orphaned(i)
      BY <1>5
    <2>1. inv[j] \in Invocation
      BY DEF Shaped
    <2>2. inv[j].proc \notin ToSet(idle[g])
      BY <1>1, <1>4 DEF OneHand
    <2> QED  BY <1>2, <2>1, <2>2 DEF OneHand, Invocation
  <1>12. pushing.last # None => proc'[pushing.last] = proc[pushing.last]
    <2> SUFFICES ASSUME pushing.last # None
                 PROVE  /\ pushing.last \in Proc \ {inv[i].proc}
                        /\ pushing.last \notin Orphaned(i)
      BY <1>5
    <2>1. pushing.last \in Proc
      BY DEF Shaped
    <2>2. pushing.last \notin ToSet(idle[g])
      BY <1>1, <1>4 DEF OneHand
    <2> QED  BY <1>2, <2>1, <2>2 DEF OneHand
  <1> QED  BY <1>6, <1>7, <1>8, <1>10, <1>11, <1>12 DEF EndsLeaving, Left

\* An invocation that got no worker, or gives one up, leaves (lib.rs start, Drop of
\* a checkout): whatever happens to the worker happens to nobody else's.
LEMMA GivingUpLeaves ==
    ASSUME Shaped, Staged, OneHand, NEW i \in Inv,
           \/ inv[i].at = "spawning" /\ EndsLeaving(i, proc)
                 /\ UNCHANGED <<fault, size, pushVars, current, made>>
           \/ StartFails(i) \/ GreetFails(i) \/ Reap(i) \/ Cancel(i)
    PROVE  Left(i)
  <1>1. inv[i] \in Invocation /\ inv[i].at # "none"
    BY DEF Shaped, StartFails, GreetFails, Reap, Cancel
  <1>2. NoProc \in Process /\ proc \in [Proc -> Process]
    BY WorkersAssumption DEF Shaped, NoProc, Process
  <1>3. inv[i].proc \in Proc => [proc[inv[i].proc] EXCEPT !.open = FALSE] \in Process
    BY <1>2 DEF Process
  <1>4. CASE inv[i].at = "spawning" /\ EndsLeaving(i, proc)
                /\ UNCHANGED <<fault, size, pushVars, current, made>>
    BY <1>1, <1>2, <1>4, LeavingFrees
  <1>5. CASE StartFails(i) \/ Reap(i)
    <2>1. [proc EXCEPT ![inv[i].proc] = NoProc] \in [Proc -> Process]
      BY <1>2
    <2> QED  BY <1>1, <1>2, <1>5, <2>1, LeavingFrees DEF StartFails, Reap
  <1>6. CASE GreetFails(i) \/ Cancel(i)
    <2>1. [proc EXCEPT ![inv[i].proc].open = FALSE] \in [Proc -> Process]
      BY <1>2, <1>3
    <2> QED  BY <1>1, <1>2, <1>6, <2>1, LeavingFrees DEF GreetFails, Cancel
  <1> QED  BY <1>4, <1>5, <1>6

\* A worker goes back to a pool nobody will use again, and is let go of with the
\* idle ones of that pool (lib.rs release).
LEMMA LastReleaseLeaves ==
    ASSUME Shaped, Staged, OneHand, NEW i \in Inv, Release(i),
           inv[i].pool # current, \A j \in Inv \ {i} : inv[j].pool # inv[i].pool
    PROVE  Left(i)
  <1> DEFINE p == inv[i].proc
             table == [proc EXCEPT ![p].open = FALSE]
  <1>1. inv[i] \in Invocation /\ inv[i].pool \in Pool /\ inv[i].at = "returning"
        /\ p \in Proc /\ idle[inv[i].pool] \in Seq(Proc)
    BY DEF Release, Shaped, Staged, Invocation, Pool
  <1>2. table \in [Proc -> Process]
    <2>1. [proc[p] EXCEPT !.open = FALSE] \in Process
      BY ZenonT(60), <1>1 DEF Shaped, Process
    <2> QED  BY <2>1 DEF Shaped
  <1>3. Orphaned(i) = ToSet(idle[inv[i].pool])
    BY DEF Orphaned, Release
  <1>4. idle' = IF Orphaned(i) = {} THEN idle ELSE [idle EXCEPT ![inv[i].pool] = <<>>]
    <2>1. Orphaned(i) = {} => idle[inv[i].pool] = <<>>
      BY <1>1, <1>3, NobodyIdle
    <2>2. idle' = [idle EXCEPT ![inv[i].pool] = <<>>]
      BY DEF Release
    <2>3. CASE Orphaned(i) = {}
      BY <1>1, <2>1, <2>2, <2>3 DEF Shaped
    <2> QED  BY <2>2, <2>3
  <1>5. proc' = Closing(table, Orphaned(i))
    <2>1. proc' = Closing(proc, Orphaned(i) \cup {p})
      BY DEF Release
    <2>2. p \notin Orphaned(i)
      BY <1>1, <1>3 DEF OneHand, ToSet
    <2>3. \A q \in Proc : table[q] = IF q = p THEN [proc[p] EXCEPT !.open = FALSE]
                                              ELSE proc[q]
      BY DEF Shaped
    <2> HIDE DEF table, p
    <2> QED  BY <2>1, <2>2, <2>3 DEF Closing
  <1>6. EndsLeaving(i, table)
    BY <1>4, <1>5 DEF EndsLeaving, Release
  <1>7. \A q \in Proc \ {p} : table[q] = proc[q]
    BY DEF Shaped
  <1> QED  BY <1>1, <1>2, <1>6, <1>7, LeavingFrees DEF Release

\* Talking to its worker changes neither who has it nor what code it runs.
LEMMA TalkingGoesOn ==
    ASSUME Shaped, Staged, NEW i \in Inv,
           Greet(i) \/ Invoke(i) \/ Receive(i) \/ ReceiveNothing(i) \/ Handle(i)
    PROVE  GoneOn(i) /\ inv[i].proc \in Proc
  <1> DEFINE p == inv[i].proc
  <1>1. inv[i] \in Invocation /\ p \in Proc /\ proc[p] \in Process
    BY DEF Shaped, Staged, Invocation, Greet, Invoke, Receive, ReceiveNothing, Handle
  <1>2. \E new \in Process : /\ proc' = [proc EXCEPT ![p] = new]
                             /\ new.life = proc[p].life /\ new.code = proc[p].code
    <2>1. \A a \in Asked : [proc[p] EXCEPT !.in = a] \in Process
      BY <1>1 DEF Process
    <2>2. /\ [proc[p] EXCEPT !.open = FALSE] \in Process
          /\ [proc[p] EXCEPT !.out = None] \in Process
      BY <1>1 DEF Process
    <2>3. /\ [kind |-> "invoke", for |-> i] \in Asked
          /\ [kind |-> "answer", for |-> i] \in Asked
      BY DEF Asked
    <2>4. CASE Greet(i)
      BY <1>1, <2>4 DEF Greet, Shaped
    <2>5. CASE Invoke(i)
      BY <1>1, <2>1, <2>2, <2>3, <2>5 DEF Invoke, Drop, Process
    <2>6. CASE Receive(i)
      BY <1>1, <2>2, <2>6 DEF Receive, Process
    <2>7. CASE ReceiveNothing(i)
      BY <1>1, <2>2, <2>7 DEF ReceiveNothing, Drop, Process
    <2>8. CASE Handle(i)
      BY <1>1, <2>1, <2>2, <2>3, <2>8 DEF Handle, Drop, Process
    <2> QED  BY <2>4, <2>5, <2>6, <2>7, <2>8
  <1>3. \E at \in {"ready", "talking", "handling", "returning", "closing"} :
           inv' = [inv EXCEPT ![i].at = at]
    BY DEF Greet, Invoke, Receive, ReceiveNothing, Handle, Drop
  <1>4. /\ inv[i].at \in {"starting", "ready", "talking", "handling"}
        /\ UNCHANGED <<size, pushVars, poolVars>>
    BY DEF Greet, Invoke, Receive, ReceiveNothing, Handle
  <1>5. /\ proc' \in [Proc -> Process]
        /\ proc'[p].life = proc[p].life /\ proc'[p].code = proc[p].code
        /\ \A q \in Proc \ {p} : proc'[q] = proc[q]
    BY <1>1, <1>2 DEF Shaped
  <1> QED  BY <1>1, <1>3, <1>4, <1>5 DEF GoneOn

---------------------------------------------------------------------------
(* The kinds of step                                                       *)

\* The developer, the registry and the push, as far as no worker is touched.
Governs ==
    \/ Edit \/ RoundBegins \/ RoundEnds \/ Describe \/ Land \/ SaveTable \/ Reload
    \/ Reloaded

\* A new process runs the code on disk, for the invocation that started it.
Started(i) ==
    \E p \in Proc :
        /\ inv[i].at = "spawning" /\ proc[p].life = "none"
        /\ proc' = [proc EXCEPT ![p] = [NoProc EXCEPT !.life = "up", !.code = disk,
                                                      !.open = TRUE]]
        /\ inv' = [inv EXCEPT ![i].at = "starting", ![i].proc = p]
        /\ UNCHANGED <<fault, size, pushVars, poolVars>>

\* The idle workers of a pool get one more, and its permits one back.
Returned(i) ==
    /\ inv[i].at = "returning"
    /\ idle' = [idle EXCEPT ![inv[i].pool] = Append(@, inv[i].proc)]
    /\ inv' = [inv EXCEPT ![i] = NoInv]
    /\ UNCHANGED <<fault, size, pushVars, current, made, proc>>

Talks(i) == Greet(i) \/ Invoke(i) \/ Receive(i) \/ ReceiveNothing(i) \/ Handle(i)

Kinds ==
    \/ Governs \/ StopIdle \/ StopWaits
    \/ \E i \in Inv :
          \/ RoundPanics(i) \/ Start(i) \/ Checkout(i) \/ Started(i)
          \/ Talks(i) \/ Returned(i) \/ Left(i)
    \/ \E p \in Proc : Work(p) \/ Exit(p) \/ Die(p)

\* Every step is of one of these kinds.
LEMMA StepKinds ==
    ASSUME Shaped, Staged, OneHand, Next PROVE Kinds
  <1>1. ASSUME NEW i \in Inv, Spawn(i) PROVE Started(i) \/ Left(i)
    <2>1. CASE inv[i].at = "spawning" /\ EndsLeaving(i, proc)
                  /\ UNCHANGED <<fault, size, pushVars, current, made>>
      BY <2>1, GivingUpLeaves
    <2>2. CASE ~(inv[i].at = "spawning" /\ EndsLeaving(i, proc)
                   /\ UNCHANGED <<fault, size, pushVars, current, made>>)
      <3> DEFINE p == CHOOSE q \in Proc : proc[q].life = "none"
      <3>1. p \in Proc /\ proc[p].life = "none"
        BY <1>1, <2>2 DEF Spawn
      <3>2. /\ inv[i].at = "spawning"
            /\ proc' = [proc EXCEPT ![p] = [NoProc EXCEPT !.life = "up", !.code = disk,
                                                          !.open = TRUE]]
            /\ inv' = [inv EXCEPT ![i].at = "starting", ![i].proc = p]
            /\ UNCHANGED <<fault, size, pushVars, poolVars>>
        BY <1>1, <2>2 DEF Spawn, poolVars
      <3> HIDE DEF p
      <3> QED  BY <3>1, <3>2 DEF Started
    <2> QED  BY <2>1, <2>2
  <1>2. ASSUME NEW i \in Inv, Release(i) PROVE Returned(i) \/ Left(i)
    <2>1. CASE inv[i].pool # current /\ \A j \in Inv \ {i} : inv[j].pool # inv[i].pool
      BY <1>2, <2>1, LastReleaseLeaves
    <2>2. CASE ~(inv[i].pool # current /\ \A j \in Inv \ {i} : inv[j].pool # inv[i].pool)
      BY <1>2, <2>2 DEF Release, Returned
    <2> QED  BY <2>1, <2>2
  <1>3. ASSUME NEW i \in Inv, Pooling(i) \/ Talking(i)
        PROVE  Checkout(i) \/ Started(i) \/ Talks(i) \/ Returned(i) \/ Left(i)
    BY <1>1, <1>2, <1>3, GivingUpLeaves DEF Pooling, Talking, Talks
  <1> QED  BY <1>3 DEF Next, Kinds, Governs, Pushing

\* The types hold initially and after every step.
LEMMA StartsShaped == Init => Shaped
  <1> SUFFICES ASSUME Init PROVE Shaped
    OBVIOUS
  <1>1. NoProc \in Process /\ NoInv \in Invocation
    BY ProcessEdits, InvocationEdits
  <1>2. <<>> \in Seq(Proc)
    OBVIOUS
  <1>3. size \in Nat \ {0}
    BY WorkersAssumption DEF Init
  <1> QED  BY <1>1, <1>2, <1>3, WorkersAssumption DEF Init, Shaped, Gates

LEMMA ShapedStays ==
    ASSUME Shaped, Staged, OneHand, Kinds PROVE Shaped'
  <1> USE DEF pushVars, poolVars
  <1>1. CASE Governs
    <2> USE WorkersAssumption DEF Shaped, Gates
    <2>1. CASE Edit  BY <2>1 DEF Edit
    <2>2. CASE RoundBegins  BY <2>2 DEF RoundBegins
    <2>3. CASE RoundEnds  BY <2>3 DEF RoundEnds
    <2>4. CASE Describe
      <3>1. disk \in 0..MaxCode
        OBVIOUS
      <3> QED  BY <2>4, <3>1 DEF Describe
    <2>5. CASE Land  BY <2>5 DEF Land
    <2>6. CASE SaveTable  BY <2>6 DEF SaveTable
    <2>7. CASE Reload
      <3>1. current \in 0..MaxPool /\ 0 \in 0..made
        OBVIOUS
      <3> QED  BY <2>7, <3>1 DEF Reload
    <2>8. CASE Reloaded  BY <2>8 DEF Reloaded
    <2> QED
      BY <1>1, <2>1, <2>2, <2>3, <2>4, <2>5, <2>6, <2>7, <2>8 DEF Governs
  <1>2. CASE StopIdle
    <2> DEFINE g == pushing.pool
               p == Head(idle[g])
    <2>1. g \in Pool /\ idle[g] \in Seq(Proc) /\ idle[g] # <<>>
      BY <1>2 DEF StopIdle, Shaped, Pool
    <2>2. p \in Proc /\ Tail(idle[g]) \in Seq(Proc)
      BY <2>1
    <2>3. [proc[p] EXCEPT !.open = FALSE] \in Process
      BY <2>2, ProcessEdits DEF Shaped
    <2>4. proc' \in [Proc -> Process]
      BY <1>2, <2>2, <2>3 DEF StopIdle, Shaped
    <2>5. idle' \in [Pool -> Seq(Proc)]
      BY <1>2, <2>1, <2>2 DEF StopIdle, Shaped
    <2>6. pushing' \in [code : 0..MaxCode, pool : 0..MaxPool, last : Proc \cup {None}]
      BY <1>2, <2>2 DEF StopIdle, Shaped
    <2> QED  BY <1>2, <2>4, <2>5, <2>6 DEF StopIdle, Shaped
  <1>3. CASE StopWaits
    <2>1. NoProc \in Process
      BY ProcessEdits
    <2> QED  BY <1>3, <2>1 DEF StopWaits, Shaped
  <1>4. ASSUME NEW i \in Inv, RoundPanics(i) PROVE Shaped'
    <2>1. inv[i].proc \in Proc
      BY <1>4 DEF RoundPanics, Shaped, Staged, Invocation
    <2>2. [proc[inv[i].proc] EXCEPT !.open = FALSE] \in Process
      BY <2>1, ProcessEdits DEF Shaped
    <2>3. \A j \in Inv : /\ [inv[j] EXCEPT !.at = "closing", !.stray = TRUE] \in Invocation
                         /\ [inv[j] EXCEPT !.stray = inv[j].at # "none"] \in Invocation
      BY InvocationEdits DEF Shaped
    <2>4. inv' \in [Inv -> Invocation]
      BY <1>4, <2>3 DEF RoundPanics
    <2> QED  BY <1>4, <2>1, <2>2, <2>4 DEF RoundPanics, Shaped, Gates
  <1>5. ASSUME NEW i \in Inv, Start(i) PROVE Shaped'
    <2>1. made' \in 0..MaxPool /\ current' \in 0..made'
      BY <1>5, WorkersAssumption DEF Start, Shaped
    <2>2. [NoInv EXCEPT !.at = "waiting", !.pool = current'] \in Invocation
      <3>1. current' \in 0..MaxPool
        BY <2>1, WorkersAssumption
      <3> QED  BY <3>1, InvocationEdits
    <2> QED  BY <1>5, <2>1, <2>2 DEF Start, Shaped
  <1>6. ASSUME NEW i \in Inv, Checkout(i) PROVE Shaped'
    <2> DEFINE g == inv[i].pool
    <2>1. g \in Pool /\ idle[g] \in Seq(Proc) /\ inv[i] \in Invocation
      BY <1>6 DEF Checkout, Shaped, Staged, Invocation, Pool
    <2>2. CASE idle[g] = <<>>
      <3>1. [inv[i] EXCEPT !.at = "spawning"] \in Invocation
        BY <2>1, InvocationEdits DEF Permitted
      <3> QED  BY <1>6, <2>2, <3>1 DEF Checkout, Shaped
    <2>3. CASE idle[g] # <<>>
      <3>1. Front(idle[g]) \in Seq(Proc) /\ Last(idle[g]) \in Proc
        BY <2>1, <2>3 DEF Front, Last
      <3>2. [inv[i] EXCEPT !.at = "ready", !.proc = Last(idle[g])] \in Invocation
        BY <2>1, <3>1, InvocationEdits DEF Permitted
      <3>3. inv' \in [Inv -> Invocation] /\ idle' \in [Pool -> Seq(Proc)]
        BY <1>6, <2>1, <2>3, <3>1, <3>2 DEF Checkout, Shaped
      <3> QED  BY <1>6, <3>3 DEF Checkout, Shaped
    <2> QED  BY <2>2, <2>3
  <1>7. ASSUME NEW i \in Inv, Started(i) PROVE Shaped'
    <2>1. PICK p \in Proc :
              /\ proc' = [proc EXCEPT ![p] = [NoProc EXCEPT !.life = "up", !.code = disk,
                                                            !.open = TRUE]]
              /\ inv' = [inv EXCEPT ![i].at = "starting", ![i].proc = p]
              /\ UNCHANGED <<fault, size, pushVars, poolVars>>
      BY <1>7 DEF Started
    <2>2. [NoProc EXCEPT !.life = "up", !.code = disk, !.open = TRUE] \in Process
      <3>1. disk \in 0..MaxCode
        BY WorkersAssumption DEF Shaped
      <3> QED  BY <3>1, ProcessEdits
    <2>3. [inv[i] EXCEPT !.at = "starting", !.proc = p] \in Invocation
      BY InvocationEdits DEF Shaped, Permitted
    <2> QED  BY <2>1, <2>2, <2>3 DEF Shaped
  <1>8. ASSUME NEW i \in Inv, Talks(i) PROVE Shaped'
    <2>1. GoneOn(i)
      BY <1>8, TalkingGoesOn DEF Talks
    <2>2. \A at \in {"ready", "talking", "handling", "returning", "closing"} :
             [inv[i] EXCEPT !.at = at] \in Invocation
      BY InvocationEdits DEF Shaped, Permitted
    <2> QED  BY <2>1, <2>2 DEF GoneOn, Shaped
  <1>9. ASSUME NEW i \in Inv, Returned(i) PROVE Shaped'
    <2>1. NoInv \in Invocation
      BY InvocationEdits
    <2>2. inv[i].pool \in Pool /\ inv[i].proc \in Proc
      <3>1. inv[i] \in Invocation /\ inv[i].at = "returning"
        BY <1>9 DEF Returned, Shaped
      <3> QED  BY <3>1 DEF Shaped, Staged, Invocation, Pool
    <2>3. Append(idle[inv[i].pool], inv[i].proc) \in Seq(Proc)
      BY <2>2 DEF Shaped
    <2> QED  BY <1>9, <2>1, <2>2, <2>3 DEF Returned, Shaped
  <1>10. ASSUME NEW i \in Inv, Left(i) PROVE Shaped'
    <2>1. NoInv \in Invocation
      BY InvocationEdits
    <2> QED  BY <1>10, <2>1 DEF Left, Shaped
  <1>11. ASSUME NEW p \in Proc, Work(p) PROVE Shaped'
    <2>1. proc[p] \in Process /\ proc[p].in \in Asked
      BY <1>11 DEF Work, Shaped, Process
    <2> DEFINE asked == IF proc[p].in.kind = "invoke" THEN 0 ELSE proc[p].asked
    <2>2. asked \in 0..MaxAsk
      BY <2>1, WorkersAssumption DEF Process
    <2>3. PICK kind \in {"access", "done", "error"} :
             /\ kind = "access" => asked < MaxAsk
             /\ proc' = [proc EXCEPT ![p].in = None,
                   ![p].asked = IF kind = "access" THEN asked + 1 ELSE 0,
                   ![p].out = [kind |-> kind, for |-> proc[p].in.for]]
      BY <1>11 DEF Work
    <2> HIDE DEF asked
    <2>4. [kind |-> kind, for |-> proc[p].in.for] \in Said
      BY <2>1 DEF Said, Asked
    <2>5. (IF kind = "access" THEN asked + 1 ELSE 0) \in 0..MaxAsk
      BY <2>3, <2>2, WorkersAssumption
    <2>6. [proc[p] EXCEPT !.in = None,
                   !.asked = IF kind = "access" THEN asked + 1 ELSE 0,
                   !.out = [kind |-> kind, for |-> proc[p].in.for]] \in Process
      BY <2>1, <2>4, <2>5 DEF Process
    <2> QED  BY <1>11, <2>3, <2>6 DEF Work, Shaped
  <1>12. ASSUME NEW p \in Proc, Exit(p) \/ Die(p) PROVE Shaped'
    <2>1. NoProc \in Process /\ [proc[p] EXCEPT !.life = "dead"] \in Process
      BY ProcessEdits DEF Shaped
    <2>2. \/ proc' = [proc EXCEPT ![p] = NoProc]
          \/ proc' = [proc EXCEPT ![p] = [proc[p] EXCEPT !.life = "dead"]]
      BY <1>12 DEF Exit, Die, Shaped
    <2> QED  BY ZenonT(60), <1>12, <2>1, <2>2 DEF Exit, Die, Shaped
  <1> QED
    BY <1>1, <1>2, <1>3, <1>4, <1>5, <1>6, <1>7, <1>8, <1>9, <1>10, <1>11, <1>12
    DEF Kinds

---------------------------------------------------------------------------
(* Who has which worker                                                    *)

\* A checkout finds a permit, and takes the last idle worker or the right to start
\* one.
LEMMA CheckoutTakes ==
    ASSUME Shaped, Staged, NEW i \in Inv, Checkout(i)
    PROVE  LET g == inv[i].pool
           IN  /\ inv[i].at = "waiting" /\ inv[i].proc = None
               /\ g \in Pool /\ g \in 1..made /\ idle[g] \in Seq(Proc)
               /\ Cardinality(Holders(g)) < size
               /\ \A j \in Inv \ {i} : inv'[j] = inv[j]
               /\ inv'[i].pool = g /\ inv'[i].stray = inv[i].stray
               /\ \/ /\ idle[g] = <<>> /\ idle' = idle
                     /\ inv'[i].at = "spawning" /\ inv'[i].proc = None
                  \/ /\ idle[g] # <<>> /\ Len(idle[g]) \in 1..Len(idle[g])
                     /\ idle'[g] = SubSeq(idle[g], 1, Len(idle[g]) - 1)
                     /\ \A h \in Pool : h # g => idle'[h] = idle[h]
                     /\ inv'[i].at = "ready" /\ inv'[i].proc \in Proc
                     /\ inv'[i].proc = idle[g][Len(idle[g])]
               /\ UNCHANGED <<fault, size, pushVars, current, made, proc>>
  <1> DEFINE g == inv[i].pool
  <1>1. inv[i] \in Invocation /\ inv[i].at = "waiting" /\ inv[i].proc = None
        /\ Cardinality(Holders(g)) < size
        /\ UNCHANGED <<fault, size, pushVars, current, made, proc>>
    BY DEF Checkout, Shaped, Staged
  <1>2. g \in 1..made
    BY <1>1 DEF Staged
  <1>3. g \in Pool
    BY <1>2, WorkersAssumption DEF Shaped, Pool
  <1>4. idle[g] \in Seq(Proc)
    BY <1>3 DEF Shaped
  <1>5. CASE idle[g] = <<>>
    <2>1. inv' = [inv EXCEPT ![i].at = "spawning"] /\ idle' = idle
      BY <1>5 DEF Checkout
    <2>2. /\ \A j \in Inv \ {i} : inv'[j] = inv[j]
          /\ inv'[i].pool = g /\ inv'[i].stray = inv[i].stray
          /\ inv'[i].at = "spawning" /\ inv'[i].proc = None
      BY <1>1, <2>1 DEF Shaped, Invocation
    <2> QED  BY <1>1, <1>2, <1>3, <1>4, <1>5, <2>1, <2>2
  <1>6. CASE idle[g] # <<>>
    <2> DEFINE w == Last(idle[g])
    <2>1. inv' = [inv EXCEPT ![i].at = "ready", ![i].proc = w]
          /\ idle' = [idle EXCEPT ![g] = Front(@)]
      BY <1>6 DEF Checkout
    <2>2. w = idle[g][Len(idle[g])] /\ Len(idle[g]) \in 1..Len(idle[g]) /\ w \in Proc
      BY <1>4, <1>6 DEF Last
    <2>3. /\ \A j \in Inv \ {i} : inv'[j] = inv[j]
          /\ inv'[i].pool = g /\ inv'[i].stray = inv[i].stray
          /\ inv'[i].at = "ready" /\ inv'[i].proc = w
      <3> HIDE DEF w
      <3> QED  BY <1>1, <2>1 DEF Shaped, Invocation
    <2>4. /\ idle'[g] = SubSeq(idle[g], 1, Len(idle[g]) - 1)
          /\ \A h \in Pool : h # g => idle'[h] = idle[h]
      BY <1>3, <2>1 DEF Shaped, Front
    <2> QED  BY <1>1, <1>2, <1>3, <1>4, <1>6, <2>2, <2>3, <2>4
  <1> QED  BY <1>5, <1>6

\* The idle workers after a checkout were idle before, and the one taken is not
\* among them.
LEMMA CheckoutLeaves ==
    ASSUME Shaped, Staged, NEW i \in Inv, Checkout(i), NEW h \in Pool,
           NEW k \in 1..Len(idle'[h])
    PROVE  /\ k \in 1..Len(idle[h]) /\ idle'[h][k] = idle[h][k] /\ idle[h][k] \in Proc
           /\ h = inv[i].pool /\ idle[h] # <<>> => k # Len(idle[h])
  <1> DEFINE g == inv[i].pool
  <1>1. idle[h] \in Seq(Proc) /\ g \in Pool
    BY CheckoutTakes DEF Shaped
  <1>2. CASE h # g \/ idle[g] = <<>>
    <2>1. idle'[h] = idle[h]
      BY <1>2, CheckoutTakes
    <2> QED  BY <1>1, <1>2, <2>1
  <1>3. CASE h = g /\ idle[g] # <<>>
    <2>1. idle'[h] = SubSeq(idle[h], 1, Len(idle[h]) - 1)
      BY <1>3, CheckoutTakes
    <2> QED  BY <1>1, <1>3, <2>1
  <1> QED  BY <1>2, <1>3

\* The push takes the first idle worker of the pool it empties and moves the others up.
LEMMA StopTakes ==
    ASSUME Shaped, StopIdle
    PROVE  LET g == pushing.pool
           IN  /\ g \in Pool /\ 1 \in 1..Len(idle[g]) /\ idle[g][1] \in Proc
               /\ pushing'.last = idle[g][1] /\ pushing'.code = pushing.code
               /\ proc' = [proc EXCEPT ![idle[g][1]].open = FALSE]
               /\ \A h \in Pool : Len(idle'[h]) = IF h = g THEN Len(idle[h]) - 1
                                                           ELSE Len(idle[h])
               /\ \A h \in Pool : \A k \in 1..Len(idle'[h]) :
                     \E m \in 1..Len(idle[h]) :
                        /\ idle'[h][k] = idle[h][m] /\ idle[h][m] \in Proc
                        /\ m = (IF h = g THEN k + 1 ELSE k)
  <1> DEFINE g == pushing.pool
  <1>1. /\ g \in Pool /\ idle[g] \in Seq(Proc) /\ idle[g] # <<>>
        /\ idle'[g] = Tail(idle[g]) /\ pushing'.last = Head(idle[g])
        /\ pushing'.code = pushing.code
        /\ \A h \in Pool : h # g => idle'[h] = idle[h]
        /\ proc' = [proc EXCEPT ![Head(idle[g])].open = FALSE]
    BY DEF StopIdle, Shaped, Pool
  <1>2. 1 \in 1..Len(idle[g]) /\ Head(idle[g]) = idle[g][1] /\ idle[g][1] \in Proc
    BY <1>1
  <1>3. ASSUME NEW h \in Pool
        PROVE  /\ Len(idle'[h]) = IF h = g THEN Len(idle[h]) - 1 ELSE Len(idle[h])
               /\ \A k \in 1..Len(idle'[h]) :
                     \E m \in 1..Len(idle[h]) :
                        /\ idle'[h][k] = idle[h][m] /\ idle[h][m] \in Proc
                        /\ m = (IF h = g THEN k + 1 ELSE k)
    <2>1. idle[h] \in Seq(Proc)
      BY DEF Shaped
    <2>2. CASE h = g
      <3>1. Len(Tail(idle[h])) = Len(idle[h]) - 1
        BY <1>1, <2>1, <2>2
      <3>2. \A k \in 1..Len(Tail(idle[h])) :
               /\ k + 1 \in 1..Len(idle[h]) /\ Tail(idle[h])[k] = idle[h][k + 1]
               /\ idle[h][k + 1] \in Proc
        BY <1>1, <2>1, <2>2
      <3>3. idle'[h] = Tail(idle[h])
        BY <1>1, <2>2
      <3> HIDE DEF g
      <3> QED  BY <2>2, <3>1, <3>2, <3>3
    <2>3. CASE h # g
      BY <1>1, <2>1, <2>3
    <2> QED  BY <2>2, <2>3
  <1> QED  BY <1>1, <1>2, <1>3

\* A worker given back comes last in its pool, and nobody else's place changes.
LEMMA ReturnedLast ==
    ASSUME Shaped, Staged, NEW i \in Inv, Returned(i)
    PROVE  LET g == inv[i].pool
           IN  /\ g \in Pool /\ inv[i].proc \in Proc
               /\ inv'[i] = NoInv /\ \A j \in Inv \ {i} : inv'[j] = inv[j]
               /\ \A h \in Pool : Len(idle'[h]) = IF h = g THEN Len(idle[h]) + 1
                                                           ELSE Len(idle[h])
               /\ \A h \in Pool : \A k \in 1..Len(idle'[h]) :
                     \/ h = g /\ k = Len(idle[h]) + 1 /\ idle'[h][k] = inv[i].proc
                     \/ k \in 1..Len(idle[h]) /\ idle'[h][k] = idle[h][k]
                           /\ idle[h][k] \in Proc
  <1> DEFINE g == inv[i].pool
             p == inv[i].proc
  <1>1. inv[i] \in Invocation /\ inv[i].at = "returning"
    BY DEF Returned, Shaped
  <1>2. g \in Pool /\ p \in Proc
    BY <1>1 DEF Shaped, Staged, Invocation, Pool
  <1>3. /\ idle'[g] = Append(idle[g], p) /\ \A h \in Pool : h # g => idle'[h] = idle[h]
        /\ inv'[i] = NoInv /\ \A j \in Inv \ {i} : inv'[j] = inv[j]
    BY <1>2 DEF Returned, Shaped
  <1>4. ASSUME NEW h \in Pool
        PROVE  /\ Len(idle'[h]) = IF h = g THEN Len(idle[h]) + 1 ELSE Len(idle[h])
               /\ \A k \in 1..Len(idle'[h]) :
                     \/ h = g /\ k = Len(idle[h]) + 1 /\ idle'[h][k] = p
                     \/ k \in 1..Len(idle[h]) /\ idle'[h][k] = idle[h][k]
                           /\ idle[h][k] \in Proc
    <2>1. idle[h] \in Seq(Proc)
      BY DEF Shaped
    <2> HIDE DEF g, p
    <2>2. CASE h = g
      <3>1. idle'[h] = Append(idle[h], p)
        BY <1>3, <2>2
      <3>2. Len(Append(idle[h], p)) = Len(idle[h]) + 1
        BY <1>2, <2>1
      <3>3. \A k \in 1..(Len(idle[h]) + 1) :
               \/ k = Len(idle[h]) + 1 /\ Append(idle[h], p)[k] = p
               \/ k \in 1..Len(idle[h]) /\ Append(idle[h], p)[k] = idle[h][k]
                     /\ idle[h][k] \in Proc
        BY <1>2, <2>1
      <3> QED  BY <2>2, <3>1, <3>2, <3>3
    <2>3. CASE h # g
      BY <1>3, <2>1, <2>3
    <2> QED  BY <2>2, <2>3
  <1> QED  BY <1>2, <1>3, <1>4

\* What is in somebody's hands is a process.
LEMMA HandsOnProcesses ==
    ASSUME Shaped
    PROVE  /\ \A j \in Inv : inv[j].proc # None => inv[j].proc \in Proc
           /\ \A g \in Pool : \A k \in 1..Len(idle[g]) : idle[g][k] \in Proc
           /\ pushing.last # None => pushing.last \in Proc
  BY DEF Shaped, Invocation

\* An invocation's pool and worker go with where it is.
LEMMA StagedStays ==
    ASSUME Shaped, Staged, OneHand, Kinds, Shaped' PROVE Staged'
  <1> USE NothingIsNone DEF pushVars, poolVars
  <1>1. CASE Governs
    <2>1. UNCHANGED <<made, idle, inv>>
      BY <1>1 DEF Governs, Edit, RoundBegins, RoundEnds, Describe, Land, SaveTable, Reload,
                  Reloaded
    <2>2. gate' # "emptying" => pushing'.last = None /\ pushing'.pool = 0
      BY <1>1 DEF Governs, Edit, RoundBegins, RoundEnds, Describe, Land, SaveTable, Reload,
                  Reloaded, Staged, Shaped
    <2> QED  BY <2>1, <2>2 DEF Staged
  <1>2. CASE StopIdle
    BY <1>2 DEF StopIdle, Staged, Shaped
  <1>3. CASE StopWaits
    BY <1>3 DEF StopWaits, Staged, Shaped
  <1>4. ASSUME NEW i \in Inv, RoundPanics(i) PROVE Staged'
    BY <1>4 DEF RoundPanics, Staged, Shaped, Invocation
  <1>5. ASSUME NEW i \in Inv, Start(i) PROVE Staged'
    <2>1. made' >= made /\ made' \in Nat /\ current' \in 1..made'
      BY <1>5 DEF Start, Shaped
    <2>2. /\ inv'[i].at = "waiting" /\ inv'[i].pool = current' /\ inv'[i].proc = None
          /\ \A j \in Inv \ {i} : inv'[j] = inv[j]
      BY <1>5 DEF Start, Shaped, NoInv
    <2>3. ASSUME NEW j \in Inv
          PROVE  /\ inv'[j].at = "none" => inv'[j].pool = 0
                 /\ inv'[j].at # "none" => inv'[j].pool \in 1..made'
                 /\ inv'[j].at \in {"none", "waiting", "spawning"} <=> inv'[j].proc = None
      BY SMTT(60), <2>1, <2>2 DEF Staged, Shaped
    <2>4. \A g \in Pool : g > made' => idle'[g] = <<>>
      BY <1>5, <2>1 DEF Start, Staged, Shaped, Pool
    <2>5. gate' # "emptying" => pushing'.last = None /\ pushing'.pool = 0
      BY <1>5 DEF Start, Staged
    <2> QED  BY <2>3, <2>4, <2>5 DEF Staged
  <1>6. ASSUME NEW i \in Inv, Checkout(i) PROVE Staged'
    <2> DEFINE g == inv[i].pool
    <2>1. /\ \A j \in Inv \ {i} : inv'[j] = inv[j]
          /\ inv'[i].pool = g /\ g \in 1..made /\ UNCHANGED <<made, gate, pushing>>
          /\ \/ inv'[i].at = "spawning" /\ inv'[i].proc = None
             \/ inv'[i].at = "ready" /\ inv'[i].proc \in Proc
      BY <1>6, CheckoutTakes
    <2>2. \A h \in Pool : h # g => idle'[h] = idle[h]
      BY <1>6, CheckoutTakes
    <2>3. \A h \in Pool : h > made' => idle'[h] = <<>>
      BY <2>1, <2>2 DEF Staged, Shaped, Pool
    <2>4. ASSUME NEW j \in Inv
          PROVE  /\ inv'[j].at = "none" => inv'[j].pool = 0
                 /\ inv'[j].at # "none" => inv'[j].pool \in 1..made'
                 /\ inv'[j].at \in {"none", "waiting", "spawning"} <=> inv'[j].proc = None
      BY <2>1 DEF Staged
    <2> QED  BY <2>1, <2>3, <2>4 DEF Staged
  <1>7. ASSUME NEW i \in Inv, Started(i) PROVE Staged'
    BY <1>7 DEF Started, Staged, Shaped, Invocation
  <1>8. ASSUME NEW i \in Inv, Talks(i) PROVE Staged'
    <2>1. GoneOn(i)
      BY <1>8, TalkingGoesOn DEF Talks
    <2> QED  BY <2>1 DEF GoneOn, Staged, Shaped, Invocation
  <1>9. ASSUME NEW i \in Inv, Returned(i) PROVE Staged'
    <2>1. inv[i].pool \in 1..made
      BY <1>9 DEF Returned, Staged
    <2>2. \A h \in Pool : h # inv[i].pool => idle'[h] = idle[h]
      BY <1>9 DEF Returned, Shaped
    <2>3. \A h \in Pool : h > made => idle'[h] = <<>>
      BY SMTT(60), <2>1, <2>2 DEF Staged, Shaped
    <2> QED  BY <1>9, <2>3 DEF Returned, Staged, Shaped, NoInv
  <1>10. ASSUME NEW i \in Inv, Left(i) PROVE Staged'
    BY <1>10 DEF Left, Staged, Shaped, NoInv
  <1>11. ASSUME NEW p \in Proc, Work(p) \/ Exit(p) \/ Die(p) PROVE Staged'
    BY <1>11 DEF Work, Exit, Die, Staged
  <1> QED
    BY <1>1, <1>2, <1>3, <1>4, <1>5, <1>6, <1>7, <1>8, <1>9, <1>10, <1>11 DEF Kinds

\* The invocations that have a worker have the ones they had, and the pools and the
\* push keep a part of what they had: nobody shares a worker who did not before.
LEMMA FewerHands ==
    ASSUME Shaped, OneHand, Shaped',
           \A i \in Inv : inv'[i].proc = inv[i].proc \/ inv'[i].proc = None,
           \A g \in Pool : idle'[g] = idle[g] \/ idle'[g] = <<>>,
           pushing'.last = pushing.last \/ pushing'.last = None
    PROVE  OneHand'
  <1> USE NothingIsNone
  <1>1. \A i, j \in Inv : i # j /\ inv'[i].proc # None => inv'[i].proc # inv'[j].proc
    BY DEF OneHand
  <1>2. \A i \in Inv : inv'[i].proc # None => inv'[i].proc # pushing'.last
    BY DEF OneHand
  <1>3. ASSUME NEW g \in Pool, NEW k \in 1..Len(idle'[g])
        PROVE  /\ \A i \in Inv : inv'[i].proc # idle'[g][k]
               /\ pushing'.last # idle'[g][k]
               /\ \A h \in Pool : \A m \in 1..Len(idle'[h]) :
                     idle'[g][k] = idle'[h][m] => g = h /\ k = m
    <2>1. idle'[g] = idle[g] /\ idle[g][k] \in Proc
      BY SMTT(60), <1>3 DEF Shaped
    <2>2. \A h \in Pool : \A m \in 1..Len(idle'[h]) : idle'[h] = idle[h]
      OBVIOUS
    <2> QED  BY <1>3, <2>1, <2>2 DEF OneHand
  <1> QED  BY <1>1, <1>2, <1>3 DEF OneHand

\* A worker changes hands whole: what is taken from a pool is not left in it, and
\* what is started or given back was nobody else's.
LEMMA OneHandStays ==
    ASSUME Shaped, Staged, OneHand, Alive, Kinds, Shaped', Staged' PROVE OneHand'
  <1> USE NothingIsNone DEF pushVars, poolVars
  <1>1. CASE Governs
    <2>1. pushing'.last = pushing.last \/ pushing'.last = None
      BY <1>1 DEF Governs, Edit, RoundBegins, RoundEnds, Describe, Land, SaveTable, Reload,
                  Reloaded, Shaped
    <2> QED
      BY <1>1, <2>1, FewerHands DEF Governs, Edit, RoundBegins, RoundEnds, Describe, Land,
                                    SaveTable, Reload, Reloaded
  <1>2. CASE StopIdle
    <2> DEFINE g == pushing.pool
    <2>1. g \in Pool /\ inv' = inv
      BY <1>2, StopTakes DEF StopIdle
    <2>3. 1 \in 1..Len(idle[g]) /\ pushing'.last = idle[g][1] /\ idle[g][1] \in Proc
      BY <1>2, StopTakes
    <2>4. \A i, j \in Inv : i # j /\ inv'[i].proc # None => inv'[i].proc # inv'[j].proc
      BY <2>1 DEF OneHand
    <2>5. \A i \in Inv : inv'[i].proc # None => inv'[i].proc # pushing'.last
      BY <2>1, <2>3 DEF OneHand
    <2>6. ASSUME NEW h \in Pool, NEW k \in 1..Len(idle'[h])
          PROVE  \E m \in 1..Len(idle[h]) : /\ idle'[h][k] = idle[h][m]
                                            /\ m = (IF h = g THEN k + 1 ELSE k)
      BY <1>2, StopTakes
    <2>7. ASSUME NEW h \in Pool, NEW k \in 1..Len(idle'[h])
          PROVE  /\ \A i \in Inv : inv'[i].proc # idle'[h][k]
                 /\ pushing'.last # idle'[h][k]
                 /\ \A f \in Pool : \A m \in 1..Len(idle'[f]) :
                       idle'[h][k] = idle'[f][m] => h = f /\ k = m
      <3>1. PICK a \in 1..Len(idle[h]) : /\ idle'[h][k] = idle[h][a]
                                         /\ a = (IF h = g THEN k + 1 ELSE k)
        BY <2>6
      <3>2. \A i \in Inv : inv'[i].proc # idle'[h][k]
        BY <2>1, <3>1 DEF OneHand
      <3>3. pushing'.last # idle'[h][k]
        BY <2>1, <2>3, <3>1 DEF OneHand
      <3>4. ASSUME NEW f \in Pool, NEW m \in 1..Len(idle'[f]), idle'[h][k] = idle'[f][m]
            PROVE  h = f /\ k = m
        <4>1. PICK b \in 1..Len(idle[f]) : /\ idle'[f][m] = idle[f][b]
                                           /\ b = (IF f = g THEN m + 1 ELSE m)
          BY <2>6
        <4>2. h = f /\ a = b
          BY <3>1, <3>4, <4>1 DEF OneHand
        <4> QED  BY <3>1, <4>1, <4>2
      <3> QED  BY <3>2, <3>3, <3>4
    <2> QED  BY <2>4, <2>5, <2>7 DEF OneHand
  <1>3. CASE StopWaits
    <2>1. pushing'.last = None
      BY <1>3 DEF StopWaits, Shaped
    <2> QED  BY <1>3, <2>1, FewerHands DEF StopWaits
  <1>4. ASSUME NEW i \in Inv, RoundPanics(i) PROVE OneHand'
    <2>1. \A j \in Inv : inv'[j].proc = inv[j].proc
      BY <1>4 DEF RoundPanics, Shaped, Invocation
    <2> QED  BY <1>4, <2>1, FewerHands DEF RoundPanics
  <1>5. ASSUME NEW i \in Inv, Start(i) PROVE OneHand'
    <2>1. \A j \in Inv : inv'[j].proc = inv[j].proc \/ inv'[j].proc = None
      BY <1>5 DEF Start, Shaped, NoInv
    <2> QED  BY <1>5, <2>1, FewerHands DEF Start
  <1>6. ASSUME NEW i \in Inv, Checkout(i) PROVE OneHand'
    <2> DEFINE g == inv[i].pool
               n == Len(idle[g])
    <2>1. /\ g \in Pool /\ idle[g] \in Seq(Proc) /\ pushing' = pushing
          /\ \A j \in Inv \ {i} : inv'[j] = inv[j]
      BY <1>6, CheckoutTakes
    <2>2. CASE idle[g] = <<>>
      <3>1. idle' = idle /\ inv'[i].proc = None
        BY <1>6, <2>2, CheckoutTakes
      <3> QED  BY <2>1, <3>1, FewerHands
    <2>3. CASE idle[g] # <<>>
      <3>1. /\ n \in 1..Len(idle[g]) /\ inv'[i].proc = idle[g][n]
            /\ \A j \in Inv \ {i} : inv'[j] = inv[j]
            /\ idle'[g] = SubSeq(idle[g], 1, n - 1)
            /\ \A h \in Pool : h # g => idle'[h] = idle[h]
            /\ pushing' = pushing
        BY <1>6, <2>3, CheckoutTakes
      <3>3. \A h \in Pool : \A k \in 1..Len(idle'[h]) :
               /\ k \in 1..Len(idle[h]) /\ idle'[h][k] = idle[h][k]
               /\ h = g => k # n
        BY <1>6, <2>3, CheckoutLeaves
      <3>4. \A j \in Inv \ {i} : inv'[j].proc # inv'[i].proc
        BY <2>1, <3>1 DEF OneHand
      <3>5. \A j, l \in Inv : j # l /\ inv'[j].proc # None => inv'[j].proc # inv'[l].proc
        BY <3>1, <3>4 DEF OneHand
      <3>6. \A j \in Inv : inv'[j].proc # None => inv'[j].proc # pushing'.last
        BY <2>1, <3>1 DEF OneHand
      <3>7. ASSUME NEW h \in Pool, NEW k \in 1..Len(idle'[h])
            PROVE  /\ \A j \in Inv : inv'[j].proc # idle'[h][k]
                   /\ pushing'.last # idle'[h][k]
                   /\ \A f \in Pool : \A m \in 1..Len(idle'[f]) :
                         idle'[h][k] = idle'[f][m] => h = f /\ k = m
        <4>1. k \in 1..Len(idle[h]) /\ idle'[h][k] = idle[h][k] /\ (h = g => k # n)
          BY <3>3
        <4>2. inv'[i].proc # idle'[h][k]
          BY <2>1, <3>1, <4>1 DEF OneHand
        <4>3. \A j \in Inv \ {i} : inv'[j].proc # idle'[h][k]
          BY <3>1, <4>1 DEF OneHand
        <4>4. \A f \in Pool : \A m \in 1..Len(idle'[f]) :
                 idle'[h][k] = idle'[f][m] => h = f /\ k = m
          BY <3>3, <4>1 DEF OneHand
        <4> QED  BY <3>1, <4>1, <4>2, <4>3, <4>4 DEF OneHand
      <3> QED  BY <3>5, <3>6, <3>7 DEF OneHand
    <2> QED  BY <2>2, <2>3
  <1>7. ASSUME NEW i \in Inv, Started(i) PROVE OneHand'
    <2>1. PICK p \in Proc :
              /\ proc[p].life = "none" /\ inv[i].at = "spawning"
              /\ inv' = [inv EXCEPT ![i].at = "starting", ![i].proc = p]
              /\ UNCHANGED <<fault, size, pushVars, poolVars>>
      BY <1>7 DEF Started
    <2>2. inv'[i].proc = p /\ \A j \in Inv \ {i} : inv'[j] = inv[j]
      BY <2>1 DEF Shaped, Invocation
    <2>3. \A j \in Inv : inv[j].proc # p
      BY <2>1 DEF Alive
    <2>4. \A g \in Pool : \A k \in 1..Len(idle[g]) : idle[g][k] # p
      BY <2>1 DEF Alive
    <2>5. pushing.last # p
      BY <2>1 DEF Alive
    <2>6. idle' = idle /\ pushing' = pushing
      BY <2>1
    <2> QED  BY <2>2, <2>3, <2>4, <2>5, <2>6 DEF OneHand
  <1>8. ASSUME NEW i \in Inv, Talks(i) PROVE OneHand'
    <2>1. GoneOn(i)
      BY <1>8, TalkingGoesOn DEF Talks
    <2>2. \A j \in Inv : inv'[j].proc = inv[j].proc
      BY <2>1 DEF GoneOn, Shaped, Invocation
    <2> QED  BY <2>1, <2>2, FewerHands DEF GoneOn
  <1>9. ASSUME NEW i \in Inv, Returned(i) PROVE OneHand'
    <2> DEFINE g == inv[i].pool
               p == inv[i].proc
               n == Len(idle[g]) + 1
    <2>2. g \in Pool /\ p \in Proc
      BY <1>9, ReturnedLast
    <2>3. /\ inv'[i].proc = None /\ \A j \in Inv \ {i} : inv'[j] = inv[j]
          /\ pushing' = pushing
      <3>1. inv'[i] = NoInv /\ \A j \in Inv \ {i} : inv'[j] = inv[j]
        BY <1>9, ReturnedLast
      <3>2. pushing' = pushing
        BY <1>9 DEF Returned
      <3> QED  BY <3>1, <3>2 DEF NoInv
    <2>4. ASSUME NEW h \in Pool, NEW k \in 1..Len(idle'[h])
          PROVE  \/ h = g /\ k = n /\ idle'[h][k] = p
                 \/ k \in 1..Len(idle[h]) /\ idle'[h][k] = idle[h][k]
      BY <1>9, <2>4, ReturnedLast
    <2>5. \A h \in Pool : \A k \in 1..Len(idle[h]) : idle[h][k] # p
      BY DEF OneHand
    <2>6. \A j, l \in Inv : j # l /\ inv'[j].proc # None => inv'[j].proc # inv'[l].proc
      BY <2>3 DEF OneHand
    <2>7. \A j \in Inv : inv'[j].proc # None => inv'[j].proc # pushing'.last
      BY <2>3 DEF OneHand
    <2>8. ASSUME NEW h \in Pool, NEW k \in 1..Len(idle'[h])
          PROVE  /\ \A j \in Inv : inv'[j].proc # idle'[h][k]
                 /\ pushing'.last # idle'[h][k]
                 /\ \A f \in Pool : \A m \in 1..Len(idle'[f]) :
                       idle'[h][k] = idle'[f][m] => h = f /\ k = m
      <3>1. CASE h = g /\ k = n /\ idle'[h][k] = p
        <4>1. \A j \in Inv : inv'[j].proc # p
          BY <2>2, <2>3 DEF OneHand
        <4>2. pushing'.last # p
          BY <2>2, <2>3 DEF OneHand
        <4>3. \A f \in Pool : \A m \in 1..Len(idle'[f]) : p = idle'[f][m] => g = f /\ n = m
          BY <2>4, <2>5
        <4> QED  BY <3>1, <4>1, <4>2, <4>3
      <3>2. CASE k \in 1..Len(idle[h]) /\ idle'[h][k] = idle[h][k]
        <4>1. idle[h][k] \in Proc
          BY <3>2 DEF Shaped
        <4>2. \A j \in Inv : inv'[j].proc # idle'[h][k]
          BY SMTT(60), <2>3, <3>2, <4>1 DEF OneHand
        <4>3. \A f \in Pool : \A m \in 1..Len(idle'[f]) :
                 idle'[h][k] = idle'[f][m] => h = f /\ k = m
          BY <2>4, <2>5, <3>2 DEF OneHand
        <4> QED  BY <2>3, <3>2, <4>2, <4>3 DEF OneHand
      <3> QED  BY <2>4, <3>1, <3>2
    <2> QED  BY <2>6, <2>7, <2>8 DEF OneHand
  <1>10. ASSUME NEW i \in Inv, Left(i) PROVE OneHand'
    <2>1. \A j \in Inv : inv'[j].proc = inv[j].proc \/ inv'[j].proc = None
      BY <1>10 DEF Left, Shaped, NoInv
    <2> QED  BY <1>10, <2>1, FewerHands DEF Left
  <1>11. ASSUME NEW p \in Proc, Work(p) \/ Exit(p) \/ Die(p) PROVE OneHand'
    BY <1>11, FewerHands DEF Work, Exit, Die
  <1> QED
    BY <1>1, <1>2, <1>3, <1>4, <1>5, <1>6, <1>7, <1>8, <1>9, <1>10, <1>11 DEF Kinds

\* A slot is freed only when its process was waited for and nobody has it.
LEMMA AliveStays ==
    ASSUME Shaped, Staged, OneHand, Alive, InStep, Kinds, Shaped' PROVE Alive'
  <1> USE NothingIsNone DEF pushVars, poolVars
  <1>1. CASE Governs
    <2>1. UNCHANGED <<idle, inv, proc>>
      BY <1>1 DEF Governs, Edit, RoundBegins, RoundEnds, Describe, Land, SaveTable, Reload,
                  Reloaded
    <2>2. pushing'.last = pushing.last \/ pushing'.last = None
      BY <1>1 DEF Governs, Edit, RoundBegins, RoundEnds, Describe, Land, SaveTable, Reload,
                  Reloaded, Shaped
    <2> QED  BY <2>1, <2>2 DEF Alive
  <1>2. CASE StopIdle
    <2> DEFINE g == pushing.pool
    <2>1. /\ g \in Pool /\ 1 \in 1..Len(idle[g]) /\ idle[g][1] \in Proc
          /\ pushing'.last = idle[g][1] /\ inv' = inv
          /\ proc' = [proc EXCEPT ![idle[g][1]].open = FALSE]
      BY <1>2, StopTakes DEF StopIdle
    <2>2. \A p \in Proc : proc'[p].life = proc[p].life
      BY ZenonT(60), <2>1 DEF Shaped, Process
    <2>3. \A h \in Pool : \A k \in 1..Len(idle'[h]) :
             \E m \in 1..Len(idle[h]) : idle'[h][k] = idle[h][m] /\ idle[h][m] \in Proc
      BY <1>2, StopTakes
    <2> QED  BY <2>1, <2>2, <2>3, HandsOnProcesses DEF Alive
  <1>3. CASE StopWaits
    <2>1. /\ pushing.last \in Proc /\ pushing'.last = None /\ UNCHANGED <<idle, inv>>
          /\ \A p \in Proc \ {pushing.last} : proc'[p] = proc[p]
      BY <1>3 DEF StopWaits, Shaped
    <2>2. \A i \in Inv : inv[i].proc # None => inv[i].proc \in Proc \ {pushing.last}
      BY SMTT(60) DEF Shaped, Invocation, OneHand
    <2>3. \A g \in Pool : \A k \in 1..Len(idle[g]) : idle[g][k] \in Proc \ {pushing.last}
      BY DEF Shaped, OneHand
    <2> QED  BY <2>1, <2>2, <2>3 DEF Alive
  <1>4. ASSUME NEW i \in Inv, RoundPanics(i) PROVE Alive'
    <2>1. \A j \in Inv : inv'[j].proc = inv[j].proc
      BY <1>4 DEF RoundPanics, Shaped, Invocation
    <2>2. \A p \in Proc : proc'[p].life = proc[p].life
      BY <1>4 DEF RoundPanics, Shaped, Process
    <2>3. /\ \A j \in Inv : inv[j].proc # None => inv[j].proc \in Proc
          /\ \A g \in Pool : \A k \in 1..Len(idle[g]) : idle[g][k] \in Proc
          /\ pushing.last # None => pushing.last \in Proc
      BY HandsOnProcesses
    <2> QED  BY <1>4, <2>1, <2>2, <2>3 DEF RoundPanics, Alive
  <1>5. ASSUME NEW i \in Inv, Start(i) PROVE Alive'
    <2>1. \A j \in Inv : inv'[j].proc = inv[j].proc \/ inv'[j].proc = None
      BY <1>5 DEF Start, Shaped, NoInv
    <2> QED  BY <1>5, <2>1 DEF Start, Alive
  <1>6. ASSUME NEW i \in Inv, Checkout(i) PROVE Alive'
    <2> DEFINE g == inv[i].pool
    <2>1. /\ g \in Pool /\ idle[g] \in Seq(Proc) /\ UNCHANGED <<pushing, proc>>
          /\ \A j \in Inv \ {i} : inv'[j] = inv[j]
      BY <1>6, CheckoutTakes
    <2>2. CASE idle[g] = <<>>
      <3>1. idle' = idle /\ inv'[i].proc = None
        BY <1>6, <2>2, CheckoutTakes
      <3> QED  BY <2>1, <3>1 DEF Alive
    <2>3. CASE idle[g] # <<>>
      <3>1. /\ Len(idle[g]) \in 1..Len(idle[g]) /\ inv'[i].proc = idle[g][Len(idle[g])]
        BY <1>6, <2>3, CheckoutTakes
      <3>2. \A h \in Pool : \A k \in 1..Len(idle'[h]) :
               k \in 1..Len(idle[h]) /\ idle'[h][k] = idle[h][k]
        BY <1>6, CheckoutLeaves
      <3> QED  BY <2>1, <3>1, <3>2 DEF Alive
    <2> QED  BY <2>2, <2>3
  <1>7. ASSUME NEW i \in Inv, Started(i) PROVE Alive'
    <2>1. PICK p \in Proc :
              /\ inv' = [inv EXCEPT ![i].at = "starting", ![i].proc = p]
              /\ proc' = [proc EXCEPT ![p] = [NoProc EXCEPT !.life = "up", !.code = disk,
                                                            !.open = TRUE]]
              /\ UNCHANGED <<fault, size, pushVars, poolVars>>
      BY <1>7 DEF Started
    <2>2. inv'[i].proc = p /\ \A j \in Inv \ {i} : inv'[j] = inv[j]
      BY <2>1 DEF Shaped, Invocation
    <2>3. proc'[p].life = "up" /\ \A q \in Proc \ {p} : proc'[q] = proc[q]
      BY <2>1 DEF Shaped, NoProc
    <2>4. /\ \A j \in Inv : inv[j].proc # None => inv[j].proc \in Proc
          /\ \A g \in Pool : \A k \in 1..Len(idle[g]) : idle[g][k] \in Proc
          /\ pushing.last # None => pushing.last \in Proc
      BY HandsOnProcesses
    <2>5. idle' = idle /\ pushing' = pushing
      BY <2>1
    <2> QED  BY <2>2, <2>3, <2>4, <2>5 DEF Alive
  <1>8. ASSUME NEW i \in Inv, Talks(i) PROVE Alive'
    <2>1. GoneOn(i)
      BY <1>8, TalkingGoesOn DEF Talks
    <2>2. \A j \in Inv : inv'[j].proc = inv[j].proc
      BY <2>1 DEF GoneOn, Shaped, Invocation
    <2>3. /\ \A j \in Inv : inv[j].proc # None => inv[j].proc \in Proc
          /\ \A g \in Pool : \A k \in 1..Len(idle[g]) : idle[g][k] \in Proc
          /\ pushing.last # None => pushing.last \in Proc
      BY HandsOnProcesses
    <2>4. \A p \in Proc : proc'[p].life = proc[p].life
      BY <2>1 DEF GoneOn
    <2> QED  BY <2>1, <2>2, <2>3, <2>4 DEF GoneOn, Alive
  <1>9. ASSUME NEW i \in Inv, Returned(i) PROVE Alive'
    <2> DEFINE g == inv[i].pool
               p == inv[i].proc
    <2>1. p \in Proc /\ inv'[i] = NoInv /\ \A j \in Inv \ {i} : inv'[j] = inv[j]
      BY <1>9, ReturnedLast
    <2>2. UNCHANGED <<pushing, proc>>
      BY <1>9 DEF Returned
    <2>3. \A h \in Pool : \A k \in 1..Len(idle'[h]) :
             \/ h = g /\ k = Len(idle[h]) + 1 /\ idle'[h][k] = p
             \/ k \in 1..Len(idle[h]) /\ idle'[h][k] = idle[h][k] /\ idle[h][k] \in Proc
      BY <1>9, ReturnedLast
    <2>4. inv'[i].proc = None
      BY <2>1 DEF NoInv
    <2>5. proc[p].life # "none"
      BY <2>1 DEF Alive
    <2>6. \A h \in Pool : \A k \in 1..Len(idle'[h]) : proc'[idle'[h][k]].life # "none"
      BY <2>2, <2>3, <2>5 DEF Alive
    <2> QED  BY <2>1, <2>2, <2>4, <2>6 DEF Alive
  <1>10. ASSUME NEW i \in Inv, Left(i) PROVE Alive'
    <2>1. /\ inv'[i].proc = None /\ \A j \in Inv \ {i} : inv'[j] = inv[j]
          /\ pushing' = pushing
      BY <1>10 DEF Left, Shaped, NoInv
    <2>2. \A g \in Pool : \A k \in 1..Len(idle'[g]) :
             k \in 1..Len(idle[g]) /\ idle'[g][k] = idle[g][k]
      BY <1>10 DEF Left
    <2> QED  BY <1>10, <2>1, <2>2 DEF Left, Alive
  <1>11. ASSUME NEW p \in Proc, Work(p) \/ Die(p) PROVE Alive'
    <2>1. UNCHANGED <<inv, idle, pushing>>
      BY <1>11 DEF Work, Die
    <2>2. \A q \in Proc : proc[q].life # "none" => proc'[q].life # "none"
      <3>1. \A q \in Proc \ {p} : proc'[q] = proc[q]
        BY <1>11 DEF Work, Die, Shaped
      <3>2. proc[p] \in Process /\ proc[p].life = "up"
        BY <1>11 DEF Work, Die, Shaped
      <3>3. proc'[p].life \in {"up", "dead"}
        BY <1>11, <3>2 DEF Work, Die, Shaped, Process
      <3> QED  BY <3>1, <3>3
    <2>3. /\ \A j \in Inv : inv[j].proc # None => inv[j].proc \in Proc
          /\ \A g \in Pool : \A k \in 1..Len(idle[g]) : idle[g][k] \in Proc
          /\ pushing.last # None => pushing.last \in Proc
      BY HandsOnProcesses
    <2> QED  BY <2>1, <2>2, <2>3 DEF Alive
  <1>12. ASSUME NEW p \in Proc, Exit(p) PROVE Alive'
    <2>1. UNCHANGED <<inv, idle, pushing>> /\ ~proc[p].open /\ proc[p].life = "up"
      BY <1>12 DEF Exit
    <2>2. \A q \in Proc \ {p} : proc'[q] = proc[q]
      BY <1>12 DEF Exit, Shaped
    <2>3. (\E i \in Inv : inv[i].proc = p) \/ pushing.last = p => proc'[p].life = "dead"
      BY <1>12 DEF Exit, Shaped, Process
    <2>4. \A g \in Pool : \A k \in 1..Len(idle[g]) : idle[g][k] # p
      BY <2>1 DEF InStep, Quiet
    <2>5. /\ \A j \in Inv : inv[j].proc # None => inv[j].proc \in Proc
          /\ \A g \in Pool : \A k \in 1..Len(idle[g]) : idle[g][k] \in Proc
          /\ pushing.last # None => pushing.last \in Proc
      BY HandsOnProcesses
    <2> QED  BY <2>1, <2>2, <2>3, <2>4, <2>5 DEF Alive
  <1> QED
    BY <1>1, <1>2, <1>3, <1>4, <1>5, <1>6, <1>7, <1>8, <1>9, <1>10, <1>11, <1>12
    DEF Kinds

---------------------------------------------------------------------------
(* What is in the pipes                                                    *)

\* The same workers in the same hands at the same stage, and their pipes as they
\* were, are still in step.
LEMMA StepKept ==
    ASSUME Shaped, InStep,
           \A g \in Pool : \A k \in 1..Len(idle'[g]) :
              \E m \in 1..Len(idle[g]) :
                 idle'[g][k] = idle[g][m] /\ proc'[idle[g][m]] = proc[idle[g][m]],
           \A i \in Inv : \/ inv'[i].at \in {"none", "waiting", "spawning", "closing"}
                          \/ /\ inv'[i].at = inv[i].at /\ inv'[i].proc = inv[i].proc
                             /\ proc'[inv[i].proc] = proc[inv[i].proc]
    PROVE  InStep'
  <1>1. \A g \in Pool : \A k \in 1..Len(idle'[g]) : Quiet(idle[g][k])'
    BY DEF InStep, InStepOf, Quiet
  <1>2. ASSUME NEW i \in Inv
        PROVE  InStepOf(i)'
    BY DEF InStep, InStepOf, Quiet
  <1> QED  BY <1>1, <1>2 DEF InStep

\* A conversation is with the one worker, one message at a time.
LEMMA TalkInStep ==
    ASSUME Shaped, Staged, OneHand, InStep, NEW i \in Inv, Talks(i), Shaped'
    PROVE  InStep'
  <1> USE NothingIsNone
  <1> DEFINE p == inv[i].proc
  <1>1. GoneOn(i) /\ p \in Proc
    BY TalkingGoesOn DEF Talks
  <1>2. /\ inv'[i].proc = p /\ \A j \in Inv \ {i} : inv'[j] = inv[j]
        /\ idle' = idle /\ \A q \in Proc \ {p} : proc'[q] = proc[q]
    BY <1>1 DEF GoneOn, poolVars, Shaped, Invocation
  <1>3. \A j \in Inv \ {i} : inv[j].proc # None => inv[j].proc \in Proc \ {p}
    BY <1>1, HandsOnProcesses DEF OneHand
  <1>4. \A g \in Pool : \A k \in 1..Len(idle[g]) : idle[g][k] \in Proc \ {p}
    BY HandsOnProcesses DEF OneHand
  <1>5. \A g \in Pool : \A k \in 1..Len(idle'[g]) : Quiet(idle[g][k])'
    BY <1>2, <1>4 DEF InStep, InStepOf, Quiet
  <1>6. ASSUME NEW j \in Inv \ {i}
        PROVE  InStepOf(j)'
    <2>1. inv[j].at \in {"starting", "ready", "handling", "returning", "talking"}
             => proc'[inv[j].proc] = proc[inv[j].proc]
      BY <1>2, <1>3 DEF Staged
    <2> QED  BY <1>2, <2>1 DEF InStep, InStepOf, Quiet
  <1>7. proc[p] \in Process /\ inv[i] \in Invocation
    BY <1>1 DEF Shaped
  <1>8. /\ inv[i].at \in {"starting", "ready", "handling"} =>
              proc[p].open /\ proc[p].in = None /\ proc[p].out = None
        /\ inv[i].at = "talking" =>
              proc[p].open /\ (proc[p].in = None \/ proc[p].out = None)
    BY DEF InStep, InStepOf, Quiet
  <1>9. \/ inv'[i].at = "closing"
        \/ /\ inv'[i].at \in {"ready", "handling", "returning"}
           /\ proc'[p].open /\ proc'[p].in = None /\ proc'[p].out = None
        \/ /\ inv'[i].at = "talking" /\ proc'[p].open /\ proc'[p].out = None
           /\ proc'[p].in.for = i
    <2>1. CASE Greet(i)
      BY <1>1, <1>7, <1>8, <2>1 DEF Greet, Shaped, Invocation
    <2>2. CASE Invoke(i)
      <3>1. CASE proc[p].life = "dead" /\ Drop(i)
        BY <1>1, <1>7, <3>1 DEF Drop, Shaped, Invocation
      <3>2. CASE /\ proc' = [proc EXCEPT ![p].in = [kind |-> "invoke", for |-> i]]
                 /\ inv' = [inv EXCEPT ![i].at = "talking"] /\ inv[i].at = "ready"
        <4>1. inv'[i].at = "talking"
          BY <1>7, <3>2 DEF Shaped, Invocation
        <4>2. proc'[p] = [proc[p] EXCEPT !.in = [kind |-> "invoke", for |-> i]]
          BY <1>1, <3>2 DEF Shaped
        <4> HIDE DEF p
        <4>3. proc'[p].open /\ proc'[p].out = None /\ proc'[p].in.for = i
          BY <1>7, <1>8, <3>2, <4>2 DEF Process
        <4> QED  BY <4>1, <4>3
      <3> QED  BY <2>2, <3>1, <3>2 DEF Invoke
    <2>3. CASE Receive(i)
      <3>1. /\ inv'[i].at \in {"handling", "returning"} /\ inv[i].at = "talking"
            /\ proc[p].out # None
        BY <1>7, <2>3 DEF Receive, Shaped, Invocation
      <3>2. proc'[p] = [proc[p] EXCEPT !.out = None]
        BY <1>1, <2>3 DEF Receive, Shaped
      <3> HIDE DEF p
      <3>3. proc'[p].open /\ proc'[p].in = None /\ proc'[p].out = None
        BY <1>7, <1>8, <3>1, <3>2 DEF Process
      <3> QED  BY <3>1, <3>3
    <2>4. CASE ReceiveNothing(i)
      BY <1>1, <1>7, <2>4 DEF ReceiveNothing, Drop, Shaped, Invocation
    <2>5. CASE Handle(i)
      <3>1. CASE Drop(i)
        BY <1>1, <1>7, <3>1 DEF Drop, Shaped, Invocation
      <3>2. CASE /\ proc' = [proc EXCEPT ![p].in = [kind |-> "answer", for |-> i]]
                 /\ inv' = [inv EXCEPT ![i].at = "talking"] /\ inv[i].at = "handling"
        <4>1. inv'[i].at = "talking"
          BY <1>7, <3>2 DEF Shaped, Invocation
        <4>2. proc'[p] = [proc[p] EXCEPT !.in = [kind |-> "answer", for |-> i]]
          BY <1>1, <3>2 DEF Shaped
        <4> HIDE DEF p
        <4>3. proc'[p].open /\ proc'[p].out = None /\ proc'[p].in.for = i
          BY <1>7, <1>8, <3>2, <4>2 DEF Process
        <4> QED  BY <4>1, <4>3
      <3> QED  BY <2>5, <3>1, <3>2 DEF Handle
    <2> QED  BY <2>1, <2>2, <2>3, <2>4, <2>5 DEF Talks
  <1>10. InStepOf(i)'
    <2>1. inv'[i].proc = p
      BY <1>2
    <2> HIDE DEF p
    <2> QED  BY <1>9, <2>1 DEF InStepOf, Quiet
  <1> QED  BY <1>5, <1>6, <1>10 DEF InStep

\* What a worker does by itself: a reply is for whoever it was told by.
LEMMA RunInStep ==
    ASSUME Shaped, Staged, OneHand, Alive, InStep, NEW p \in Proc,
           Work(p) \/ Exit(p) \/ Die(p), Shaped'
    PROVE  InStep'
  <1> USE NothingIsNone
  <1>1. UNCHANGED <<inv, idle>> /\ proc[p].life = "up" /\ proc[p] \in Process
    BY DEF Work, Exit, Die, poolVars, Shaped
  <1>2. \A q \in Proc \ {p} : proc'[q] = proc[q]
    BY DEF Work, Exit, Die, Shaped
  <1>3. CASE Work(p)
    <2>1. proc[p].in # None /\ proc[p].open
      BY <1>3 DEF Work
    <2>2. /\ proc'[p].in = None /\ proc'[p].open
          /\ proc'[p].out.for = proc[p].in.for
      BY SMTT(60), <1>1, <1>3 DEF Work, Shaped, Process
    <2>3. \A g \in Pool : \A k \in 1..Len(idle[g]) : idle[g][k] \in Proc \ {p}
      BY <2>1, HandsOnProcesses DEF InStep, InStepOf, Quiet
    <2>4. \A g \in Pool : \A k \in 1..Len(idle'[g]) : Quiet(idle[g][k])'
      BY <1>1, <1>2, <2>3 DEF InStep, InStepOf, Quiet
    <2>5. ASSUME NEW j \in Inv
          PROVE  InStepOf(j)'
      <3>1. inv[j].at \in {"starting", "ready", "handling", "returning", "talking"}
               => inv[j].proc \in Proc
        BY HandsOnProcesses DEF Staged
      <3>2. CASE inv[j].proc = p
        BY <1>1, <2>1, <2>2, <3>2 DEF InStep, InStepOf, Quiet
      <3>3. CASE inv[j].proc # p
        BY <1>1, <1>2, <3>1, <3>3 DEF InStep, InStepOf, Quiet
      <3> QED  BY <3>2, <3>3
    <2> QED  BY <2>4, <2>5 DEF InStep
  <1>4. CASE Exit(p)
    <2>1. ~proc[p].open
      BY <1>4 DEF Exit
    <2>2. \A g \in Pool : \A k \in 1..Len(idle[g]) : idle[g][k] \in Proc \ {p}
      BY <2>1, HandsOnProcesses DEF InStep, InStepOf, Quiet
    <2>3. \A j \in Inv : inv[j].at \in {"starting", "ready", "handling", "returning",
                                        "talking"} => inv[j].proc \in Proc \ {p}
      BY <2>1, HandsOnProcesses DEF InStep, InStepOf, Quiet, Staged
    <2>4. \A j \in Inv : inv[j] \in Invocation
      BY DEF Shaped
    <2>5. \A j \in Inv : inv[j].at \in {"starting", "ready", "handling", "returning",
             "talking"} \/ inv[j].at \in {"none", "waiting", "spawning", "closing"}
      BY <2>4 DEF Invocation, Permitted
    <2> QED  BY <1>1, <1>2, <2>2, <2>3, <2>5, StepKept
  <1>5. CASE Die(p)
    <2>1. /\ proc'[p].open = proc[p].open /\ proc'[p].in = proc[p].in
          /\ proc'[p].out = proc[p].out
      BY <1>1, <1>5 DEF Die, Shaped, Process
    <2>2. \A q \in Proc : /\ proc'[q].open = proc[q].open /\ proc'[q].in = proc[q].in
                          /\ proc'[q].out = proc[q].out
      BY <1>2, <2>1
    <2>3. \A g \in Pool : \A k \in 1..Len(idle'[g]) : Quiet(idle[g][k])'
      BY <1>1, <2>2, HandsOnProcesses DEF InStep, InStepOf, Quiet
    <2>4. ASSUME NEW j \in Inv
          PROVE  InStepOf(j)'
      <3>1. inv[j].at \in {"starting", "ready", "handling", "returning", "talking"}
               => inv[j].proc \in Proc
        BY HandsOnProcesses DEF Staged
      <3> QED  BY <1>1, <2>2, <3>1 DEF InStep, InStepOf, Quiet
    <2> QED  BY <2>3, <2>4 DEF InStep
  <1> QED  BY <1>3, <1>4, <1>5

\* A worker changes hands with empty pipes, and its pipes are closed by nobody but
\* the one that has it.
LEMMA InStepStays ==
    ASSUME Shaped, Staged, OneHand, Alive, InStep, Kinds, Shaped' PROVE InStep'
  <1> USE NothingIsNone DEF pushVars, poolVars
  <1>1. CASE Governs
    <2>1. UNCHANGED <<idle, inv, proc>>
      BY <1>1 DEF Governs, Edit, RoundBegins, RoundEnds, Describe, Land, SaveTable, Reload,
                  Reloaded
    <2> QED  BY <2>1, StepKept
  <1>2. CASE StopIdle
    <2> DEFINE g == pushing.pool
    <2>1. /\ g \in Pool /\ 1 \in 1..Len(idle[g]) /\ idle[g][1] \in Proc /\ inv' = inv
          /\ proc' = [proc EXCEPT ![idle[g][1]].open = FALSE]
      BY <1>2, StopTakes DEF StopIdle
    <2>2. \A q \in Proc \ {idle[g][1]} : proc'[q] = proc[q]
      BY <2>1 DEF Shaped
    <2>3. \A j \in Inv : inv[j].proc # None => inv[j].proc \in Proc \ {idle[g][1]}
      BY <2>1, HandsOnProcesses DEF OneHand
    <2>4. ASSUME NEW h \in Pool, NEW k \in 1..Len(idle'[h])
          PROVE  \E m \in 1..Len(idle[h]) :
                    idle'[h][k] = idle[h][m] /\ proc'[idle[h][m]] = proc[idle[h][m]]
      <3>1. PICK m \in 1..Len(idle[h]) : /\ idle'[h][k] = idle[h][m]
                                         /\ idle[h][m] \in Proc
                                         /\ m = (IF h = g THEN k + 1 ELSE k)
        BY <1>2, StopTakes
      <3>2. ~(h = g /\ m = 1)
        BY <2>4, <3>1
      <3>3. idle[h][m] # idle[g][1]
        BY <2>1, <3>2 DEF OneHand
      <3> QED  BY <2>2, <3>1, <3>3
    <2>5. \A j \in Inv : inv[j].proc = None => inv[j].at \in {"none", "waiting", "spawning"}
      BY DEF Staged
    <2> QED  BY <2>1, <2>2, <2>3, <2>4, <2>5, StepKept
  <1>3. CASE StopWaits
    <2>1. /\ pushing.last \in Proc /\ UNCHANGED <<idle, inv>>
          /\ \A p \in Proc \ {pushing.last} : proc'[p] = proc[p]
      BY <1>3 DEF StopWaits, Shaped
    <2>2. \A i \in Inv : inv[i].proc # None => inv[i].proc \in Proc \ {pushing.last}
      BY HandsOnProcesses DEF OneHand
    <2>3. \A g \in Pool : \A k \in 1..Len(idle[g]) : idle[g][k] \in Proc \ {pushing.last}
      BY HandsOnProcesses DEF OneHand
    <2>4. \A j \in Inv : inv[j].proc = None => inv[j].at \in {"none", "waiting", "spawning"}
      BY DEF Staged
    <2> QED  BY <2>1, <2>2, <2>3, <2>4, StepKept
  <1>4. ASSUME NEW i \in Inv, RoundPanics(i) PROVE InStep'
    <2>1. inv[i].at = "handling" /\ inv[i].proc \in Proc /\ idle' = idle
      BY <1>4 DEF RoundPanics, Shaped, Staged, Invocation
    <2>2. /\ inv'[i].at = "closing"
          /\ \A j \in Inv \ {i} : inv'[j].at = inv[j].at /\ inv'[j].proc = inv[j].proc
      <3>1. \A j \in Inv :
                inv'[j] = IF j = i THEN [inv[i] EXCEPT !.at = "closing", !.stray = TRUE]
                                   ELSE [inv[j] EXCEPT !.stray = inv[j].at # "none"]
        BY <1>4, Zenon DEF RoundPanics
      <3>2. \A j \in Inv : inv[j] \in Invocation
        BY DEF Shaped
      <3>3. inv'[i].at = "closing"
        BY <3>1, <3>2 DEF Invocation
      <3>4. ASSUME NEW j \in Inv \ {i}
            PROVE  inv'[j].at = inv[j].at /\ inv'[j].proc = inv[j].proc
        BY ZenonT(60), <3>1, <3>2 DEF Invocation
      <3> QED  BY <3>3, <3>4
    <2>3. \A q \in Proc \ {inv[i].proc} : proc'[q] = proc[q]
      BY <1>4 DEF RoundPanics, Shaped
    <2>4. \A j \in Inv \ {i} : inv[j].proc # None => inv[j].proc \in Proc \ {inv[i].proc}
      BY HandsOnProcesses DEF OneHand
    <2>5. \A g \in Pool : \A k \in 1..Len(idle[g]) : idle[g][k] \in Proc \ {inv[i].proc}
      BY HandsOnProcesses DEF OneHand
    <2>6. \A j \in Inv : inv[j].proc = None => inv[j].at \in {"none", "waiting", "spawning"}
      BY DEF Staged
    <2> QED  BY <2>1, <2>2, <2>3, <2>4, <2>5, <2>6, StepKept
  <1>5. ASSUME NEW i \in Inv, Start(i) PROVE InStep'
    <2>1. inv'[i].at = "waiting" /\ \A j \in Inv \ {i} : inv'[j] = inv[j]
      BY <1>5 DEF Start, Shaped, NoInv
    <2> QED  BY <1>5, <2>1, StepKept DEF Start
  <1>6. ASSUME NEW i \in Inv, Checkout(i) PROVE InStep'
    <2> DEFINE g == inv[i].pool
    <2>1. /\ g \in Pool /\ proc' = proc /\ \A j \in Inv \ {i} : inv'[j] = inv[j]
          /\ \/ inv'[i].at = "spawning"
             \/ /\ inv'[i].at = "ready" /\ inv'[i].proc = idle[g][Len(idle[g])]
                /\ Len(idle[g]) \in 1..Len(idle[g])
      BY <1>6, CheckoutTakes
    <2>2. \A h \in Pool : \A k \in 1..Len(idle'[h]) :
             k \in 1..Len(idle[h]) /\ idle'[h][k] = idle[h][k]
      BY <1>6, CheckoutLeaves
    <2>3. \A h \in Pool : \A k \in 1..Len(idle'[h]) : Quiet(idle[h][k])'
      BY <2>1, <2>2 DEF InStep, InStepOf, Quiet
    <2>4. inv'[i].at = "ready" => Quiet(inv[i].proc)'
      BY <2>1 DEF InStep, InStepOf, Quiet
    <2> QED  BY <2>1, <2>3, <2>4 DEF InStep, InStepOf, Quiet
  <1>7. ASSUME NEW i \in Inv, Started(i) PROVE InStep'
    <2>1. PICK p \in Proc :
              /\ proc[p].life = "none"
              /\ inv' = [inv EXCEPT ![i].at = "starting", ![i].proc = p]
              /\ proc' = [proc EXCEPT ![p] = [NoProc EXCEPT !.life = "up", !.code = disk,
                                                            !.open = TRUE]]
              /\ UNCHANGED <<fault, size, pushVars, poolVars>>
      BY <1>7 DEF Started
    <2>2. /\ inv'[i].at = "starting" /\ inv'[i].proc = p
          /\ \A j \in Inv \ {i} : inv'[j] = inv[j]
      BY <2>1 DEF Shaped, Invocation
    <2>3. /\ proc'[p].open /\ proc'[p].in = None /\ proc'[p].out = None
          /\ \A q \in Proc \ {p} : proc'[q] = proc[q]
      BY <2>1 DEF Shaped, NoProc
    <2>4. \A g \in Pool : \A k \in 1..Len(idle[g]) : idle[g][k] \in Proc \ {p}
      BY <2>1, HandsOnProcesses DEF Alive
    <2>5. \A j \in Inv : inv[j].proc # None => inv[j].proc \in Proc \ {p}
      BY <2>1, HandsOnProcesses DEF Alive
    <2>6. \A g \in Pool : \A k \in 1..Len(idle'[g]) : Quiet(idle[g][k])'
      BY <2>1, <2>3, <2>4 DEF InStep, InStepOf, Quiet
    <2>7. InStepOf(i)'
      BY <2>2, <2>3 DEF InStepOf, Quiet
    <2>8. ASSUME NEW j \in Inv \ {i}
          PROVE  InStepOf(j)'
      <3>1. inv[j].at \in {"starting", "ready", "handling", "returning", "talking"}
               => proc'[inv[j].proc] = proc[inv[j].proc]
        BY <2>3, <2>5 DEF Staged
      <3> QED  BY <2>2, <3>1 DEF InStep, InStepOf, Quiet
    <2> QED  BY <2>2, <2>6, <2>7, <2>8 DEF InStep
  <1>8. ASSUME NEW i \in Inv, Talks(i) PROVE InStep'
    BY <1>8, TalkInStep
  <1>9. ASSUME NEW i \in Inv, Returned(i) PROVE InStep'
    <2> DEFINE g == inv[i].pool
               p == inv[i].proc
    <2>1. p \in Proc /\ inv'[i] = NoInv /\ \A j \in Inv \ {i} : inv'[j] = inv[j]
      BY <1>9, ReturnedLast
    <2>2. proc' = proc /\ inv[i].at = "returning"
      BY <1>9 DEF Returned
    <2>3. \A h \in Pool : \A k \in 1..Len(idle'[h]) :
             \/ h = g /\ k = Len(idle[h]) + 1 /\ idle'[h][k] = p
             \/ k \in 1..Len(idle[h]) /\ idle'[h][k] = idle[h][k] /\ idle[h][k] \in Proc
      BY <1>9, ReturnedLast
    <2>4. inv'[i].at = "none"
      BY <2>1 DEF NoInv
    <2>5. Quiet(p)
      BY <2>2 DEF InStep, InStepOf
    <2>6. \A h \in Pool : \A k \in 1..Len(idle'[h]) : Quiet(idle[h][k])'
      BY <2>2, <2>3, <2>5 DEF InStep, InStepOf, Quiet
    <2> QED  BY <2>1, <2>2, <2>4, <2>6 DEF InStep, InStepOf, Quiet
  <1>10. ASSUME NEW i \in Inv, Left(i) PROVE InStep'
    <2>1. inv'[i].at = "none" /\ \A j \in Inv \ {i} : inv'[j] = inv[j]
      BY <1>10 DEF Left, Shaped, NoInv
    <2>2. \A g \in Pool : \A k \in 1..Len(idle'[g]) :
             /\ k \in 1..Len(idle[g]) /\ idle'[g][k] = idle[g][k]
             /\ proc'[idle[g][k]] = proc[idle[g][k]]
      BY <1>10 DEF Left
    <2>3. \A j \in Inv \ {i} : inv[j].proc # None =>
             proc'[inv[j].proc] = proc[inv[j].proc]
      BY <1>10 DEF Left
    <2>4. \A j \in Inv : inv[j].proc = None => inv[j].at \in {"none", "waiting", "spawning"}
      BY DEF Staged
    <2> QED  BY <2>1, <2>2, <2>3, <2>4, StepKept
  <1>11. ASSUME NEW p \in Proc, Work(p) \/ Exit(p) \/ Die(p) PROVE InStep'
    BY <1>11, RunInStep
  <1> QED
    BY <1>1, <1>2, <1>3, <1>4, <1>5, <1>6, <1>7, <1>8, <1>9, <1>10, <1>11 DEF Kinds

---------------------------------------------------------------------------
(* How many a pool has                                                     *)

\* The permits that are out are counted.
LEMMA HoldersFinite ==
    ASSUME NEW g
    PROVE  /\ IsFiniteSet(Holders(g)) /\ Cardinality(Holders(g)) \in Nat
           /\ IsFiniteSet(Holders(g)') /\ Cardinality(Holders(g)') \in Nat
  <1>1. Holders(g) \in SUBSET Inv /\ Holders(g)' \in SUBSET Inv
    BY DEF Holders
  <1>2. IsFiniteSet(Holders(g)) /\ IsFiniteSet(Holders(g)')
    BY <1>1, WorkersAssumption, FS_Subset
  <1> QED  BY <1>2, FS_CardinalityType

\* No permit more, and no idle worker more: the pool is not over its size.
LEMMA NoMoreLoad ==
    ASSUME Shaped, Loaded, Shaped', size' = size, NEW g \in Pool,
           \A i \in Inv : inv'[i].at \in Permitted /\ inv'[i].pool = g =>
              inv[i].at \in Permitted /\ inv[i].pool = g,
           Len(idle'[g]) <= Len(idle[g])
    PROVE  Cardinality(Holders(g)') + Len(idle'[g]) <= size'
  <1>1. Holders(g)' \in SUBSET Holders(g)
    BY DEF Holders
  <1>2. Cardinality(Holders(g)') <= Cardinality(Holders(g))
    BY <1>1, HoldersFinite, FS_Subset
  <1>3. Cardinality(Holders(g)) + Len(idle[g]) <= size
    BY DEF Loaded
  <1>4. Len(idle[g]) \in Nat /\ Len(idle'[g]) \in Nat
    BY DEF Shaped
  <1>5. size \in Nat
    BY DEF Shaped
  <1> QED  BY <1>2, <1>3, <1>4, <1>5, HoldersFinite

\* A checkout takes a permit and an idle worker, or a permit when there is none idle;
\* a worker that comes back is idle for the permit that comes back with it.
LEMMA LoadedStays ==
    ASSUME Shaped, Staged, Loaded, Kinds, Shaped' PROVE Loaded'
  <1> USE DEF pushVars, poolVars
  <1> SUFFICES ASSUME NEW g \in Pool
               PROVE  Cardinality(Holders(g)') + Len(idle'[g]) <= size'
    BY DEF Loaded
  <1>1. Len(idle[g]) \in Nat /\ Len(idle'[g]) \in Nat /\ size \in Nat
    BY DEF Shaped
  <1>2. CASE Governs
    <2>1. UNCHANGED <<idle, inv, size>>
      BY <1>2 DEF Governs, Edit, RoundBegins, RoundEnds, Describe, Land, SaveTable, Reload,
                  Reloaded
    <2> QED  BY <1>1, <2>1, NoMoreLoad
  <1>3. CASE StopIdle
    <2>1. Len(idle'[g]) <= Len(idle[g])
      BY <1>1, <1>3, StopTakes
    <2> QED  BY <1>3, <2>1, NoMoreLoad DEF StopIdle
  <1>4. CASE StopWaits
    BY <1>1, <1>4, NoMoreLoad DEF StopWaits
  <1>5. ASSUME NEW i \in Inv, RoundPanics(i)
        PROVE  Cardinality(Holders(g)') + Len(idle'[g]) <= size'
    <2>1. \A j \in Inv : /\ inv'[j].pool = inv[j].pool
                         /\ inv'[j].at = inv[j].at \/ inv[j].at = "handling"
      BY <1>5 DEF RoundPanics, Shaped, Invocation
    <2> QED  BY <1>1, <1>5, <2>1, NoMoreLoad DEF RoundPanics, Permitted
  <1>6. ASSUME NEW i \in Inv, Start(i)
        PROVE  Cardinality(Holders(g)') + Len(idle'[g]) <= size'
    <2>1. inv'[i].at = "waiting" /\ \A j \in Inv \ {i} : inv'[j] = inv[j]
      BY <1>6 DEF Start, Shaped, NoInv
    <2> QED  BY <1>1, <1>6, <2>1, NoMoreLoad DEF Start, Permitted
  <1>7. ASSUME NEW i \in Inv, Checkout(i)
        PROVE  Cardinality(Holders(g)') + Len(idle'[g]) <= size'
    <2>1. /\ inv[i].at = "waiting" /\ \A j \in Inv \ {i} : inv'[j] = inv[j]
          /\ inv'[i].pool = inv[i].pool /\ inv'[i].at \in {"spawning", "ready"}
          /\ size' = size
      BY <1>7, CheckoutTakes DEF Checkout
    <2>2. CASE g # inv[i].pool
      <3>1. Len(idle'[g]) <= Len(idle[g])
        BY <1>1, <1>7, <2>2, CheckoutTakes
      <3> QED  BY <2>1, <2>2, <3>1, NoMoreLoad
    <2>3. CASE g = inv[i].pool
      <3>1. Holders(g)' = Holders(g) \cup {i} /\ i \notin Holders(g)
        BY <2>1, <2>3 DEF Holders, Permitted
      <3>2. Cardinality(Holders(g)') = Cardinality(Holders(g)) + 1
        BY <3>1, HoldersFinite, FS_AddElement
      <3>3. \/ idle[g] = <<>> /\ idle' = idle /\ Cardinality(Holders(g)) < size
            \/ idle[g] # <<>> /\ idle'[g] = SubSeq(idle[g], 1, Len(idle[g]) - 1)
        BY <1>7, <2>3, CheckoutTakes
      <3>4. CASE idle[g] = <<>> /\ idle' = idle /\ Cardinality(Holders(g)) < size
        BY <1>1, <2>1, <3>2, <3>4, HoldersFinite
      <3>5. CASE idle[g] # <<>> /\ idle'[g] = SubSeq(idle[g], 1, Len(idle[g]) - 1)
        <4>1. idle[g] \in Seq(Proc)
          BY DEF Shaped
        <4>2. Len(idle'[g]) = Len(idle[g]) - 1
          BY <3>5, <4>1
        <4>3. Cardinality(Holders(g)) + Len(idle[g]) <= size
          BY DEF Loaded
        <4> QED  BY <1>1, <2>1, <3>2, <4>2, <4>3, HoldersFinite
      <3> QED  BY <3>3, <3>4, <3>5
    <2> QED  BY <2>2, <2>3
  <1>8. ASSUME NEW i \in Inv, Started(i)
        PROVE  Cardinality(Holders(g)') + Len(idle'[g]) <= size'
    <2>1. /\ inv[i].at = "spawning" /\ UNCHANGED <<size, idle>>
          /\ \A j \in Inv : inv'[j].pool = inv[j].pool /\ (j # i => inv'[j] = inv[j])
      BY <1>8 DEF Started, Shaped, Invocation
    <2> QED  BY <1>1, <2>1, NoMoreLoad DEF Permitted
  <1>9. ASSUME NEW i \in Inv, Talks(i)
        PROVE  Cardinality(Holders(g)') + Len(idle'[g]) <= size'
    <2>1. GoneOn(i)
      BY <1>9, TalkingGoesOn DEF Talks
    <2>2. \A j \in Inv : inv'[j].pool = inv[j].pool /\ (j # i => inv'[j] = inv[j])
      BY <2>1 DEF GoneOn, Shaped, Invocation
    <2> QED  BY <1>1, <2>1, <2>2, NoMoreLoad DEF GoneOn, Permitted
  <1>10. ASSUME NEW i \in Inv, Returned(i)
        PROVE  Cardinality(Holders(g)') + Len(idle'[g]) <= size'
    <2>1. /\ inv'[i] = NoInv /\ \A j \in Inv \ {i} : inv'[j] = inv[j]
          /\ Len(idle'[g]) = IF g = inv[i].pool THEN Len(idle[g]) + 1 ELSE Len(idle[g])
      BY <1>10, ReturnedLast
    <2>2. size' = size /\ inv[i].at = "returning"
      BY <1>10 DEF Returned
    <2>3. inv'[i].at = "none"
      BY <2>1 DEF NoInv
    <2>4. CASE g # inv[i].pool
      BY <1>1, <2>1, <2>2, <2>3, <2>4, NoMoreLoad DEF Permitted
    <2>5. CASE g = inv[i].pool
      <3>1. Holders(g)' = Holders(g) \ {i} /\ i \in Holders(g)
        BY <2>1, <2>2, <2>3, <2>5 DEF Holders, Permitted
      <3>2. Cardinality(Holders(g)') = Cardinality(Holders(g)) - 1
        BY <3>1, HoldersFinite, FS_RemoveElement
      <3>3. Cardinality(Holders(g)) + Len(idle[g]) <= size
        BY DEF Loaded
      <3> QED  BY <1>1, <2>1, <2>2, <2>5, <3>2, <3>3, HoldersFinite
    <2> QED  BY <2>4, <2>5
  <1>11. ASSUME NEW i \in Inv, Left(i)
        PROVE  Cardinality(Holders(g)') + Len(idle'[g]) <= size'
    <2>1. inv'[i].at = "none" /\ \A j \in Inv \ {i} : inv'[j] = inv[j]
      BY <1>11 DEF Left, Shaped, NoInv
    <2>2. Len(idle'[g]) <= Len(idle[g])
      <3>1. idle'[g] = idle[g] \/ idle'[g] = <<>>
        BY <1>11 DEF Left
      <3> QED  BY <1>1, <3>1
    <2> QED  BY <1>11, <2>1, <2>2, NoMoreLoad DEF Left, Permitted
  <1>12. ASSUME NEW p \in Proc, Work(p) \/ Exit(p) \/ Die(p)
        PROVE  Cardinality(Holders(g)') + Len(idle'[g]) <= size'
    BY <1>1, <1>12, NoMoreLoad DEF Work, Exit, Die
  <1> QED
    BY <1>2, <1>3, <1>4, <1>5, <1>6, <1>7, <1>8, <1>9, <1>10, <1>11, <1>12 DEF Kinds

---------------------------------------------------------------------------
(* Which code runs                                                         *)

\* The rounds, the push and the panic keep the stale pool out of the map.
LEMMA GovernedCurrent ==
    ASSUME Shaped, Staged, Current, Governs, Shaped' PROVE Current'
  <1>1. UNCHANGED <<idle, inv, proc>>
    BY DEF Governs, Edit, RoundBegins, RoundEnds, Describe, Land, SaveTable, Reload,
           Reloaded, pushVars, poolVars
  <1>2. /\ def \in Nat /\ disk \in Nat /\ pushing.code \in Nat /\ current \in Nat
    BY DEF Shaped
  <1>3. CASE Edit
    BY <1>1, <1>2, <1>3 DEF Edit, Current, poolVars
  <1>4. CASE RoundBegins
    BY <1>1, <1>4 DEF RoundBegins, Current, poolVars
  <1>5. CASE RoundEnds
    BY <1>1, <1>5 DEF RoundEnds, Current, poolVars
  <1>6. CASE Describe
    BY <1>1, <1>2, <1>6 DEF Describe, Current, poolVars, Shaped
  <1>7. CASE Land
    BY <1>1, <1>7 DEF Land, Current, poolVars
  <1>8. CASE SaveTable
    BY <1>1, <1>8 DEF SaveTable, Current, poolVars
  <1>9. CASE Reload
    BY <1>1, <1>9 DEF Reload, Current, Shaped
  <1>10. CASE Reloaded
    BY <1>1, <1>2, <1>10 DEF Reloaded, Current, poolVars, Shaped
  <1> QED
    BY <1>3, <1>4, <1>5, <1>6, <1>7, <1>8, <1>9, <1>10 DEF Governs

\* A pool is used by the rounds of its own time: what it has is no older than the
\* definition, and a new pool has nothing.
LEMMA CurrentStays ==
    ASSUME Shaped, Staged, OneHand, Alive, InStep, Current, Kinds, Shaped'
    PROVE  Current'
  <1> USE NothingIsNone DEF pushVars, poolVars
  <1>1. CASE Governs
    BY <1>1, GovernedCurrent
  <1>2. CASE StopIdle
    <2>1. /\ UNCHANGED <<disk, def, gate, current, inv>> /\ pushing'.code = pushing.code
          /\ \A p \in Proc : proc'[p].code = proc[p].code
      <3>1. UNCHANGED <<disk, def, gate, current, inv>>
        BY <1>2 DEF StopIdle
      <3>2. PICK q \in Proc : /\ pushing'.code = pushing.code
                             /\ proc' = [proc EXCEPT ![q].open = FALSE]
        BY <1>2, StopTakes
      <3>3. \A p \in Proc : proc[p] \in Process /\ proc \in [Proc -> Process]
        BY DEF Shaped
      <3>4. \A p \in Proc : proc'[p].code = proc[p].code
        BY <3>2, <3>3 DEF Process
      <3> QED  BY <3>1, <3>2, <3>4
    <2>2. \A h \in Pool : \A k \in 1..Len(idle'[h]) :
             \E m \in 1..Len(idle[h]) : idle'[h][k] = idle[h][m] /\ idle[h][m] \in Proc
      BY <1>2, StopTakes
    <2>3. current # 0 => current \in Pool
      BY WorkersAssumption DEF Shaped, Pool
    <2> QED  BY SMTT(60), <2>1, <2>2, <2>3, HandsOnProcesses DEF Current
  <1>3. CASE StopWaits
    <2>1. /\ pushing.last \in Proc /\ UNCHANGED <<disk, def, gate, current, idle, inv>>
          /\ pushing'.code = pushing.code
          /\ \A p \in Proc \ {pushing.last} : proc'[p] = proc[p]
      BY <1>3 DEF StopWaits, Shaped
    <2>2. \A i \in Inv : inv[i].proc # None => inv[i].proc \in Proc \ {pushing.last}
      BY HandsOnProcesses DEF OneHand
    <2>3. \A g \in Pool : \A k \in 1..Len(idle[g]) : idle[g][k] \in Proc \ {pushing.last}
      BY HandsOnProcesses DEF OneHand
    <2>4. current # 0 => current \in Pool
      BY WorkersAssumption DEF Shaped, Pool
    <2> QED  BY <2>1, <2>2, <2>3, <2>4 DEF Current
  <1>4. ASSUME NEW i \in Inv, RoundPanics(i) PROVE Current'
    <2>1. /\ UNCHANGED <<disk, def, pushing, current, idle>>
          /\ gate = "round" /\ \A p \in Proc : proc'[p].code = proc[p].code
      BY <1>4 DEF RoundPanics, Shaped, Process
    <2>2. \A j \in Inv : /\ inv'[j].pool = inv[j].pool /\ inv'[j].proc = inv[j].proc
                         /\ inv'[j].at # "none" => inv'[j].stray
      <3>1. \A j \in Inv : inv[j] \in Invocation
        BY DEF Shaped
      <3>2. inv'[i] = [inv[i] EXCEPT !.at = "closing", !.stray = TRUE]
        BY <1>4 DEF RoundPanics
      <3>3. \A j \in Inv \ {i} : inv'[j] = [inv[j] EXCEPT !.stray = inv[j].at # "none"]
        BY <1>4 DEF RoundPanics
      <3>4. inv'[i].pool = inv[i].pool /\ inv'[i].proc = inv[i].proc /\ inv'[i].stray
        BY <3>1, <3>2 DEF Invocation
      <3>5. ASSUME NEW j \in Inv \ {i}
            PROVE  /\ inv'[j].pool = inv[j].pool /\ inv'[j].proc = inv[j].proc
                   /\ inv'[j].at = inv[j].at
                   /\ inv[j].at # "none" => inv'[j].stray
        <4>1. inv'[j].pool = inv[j].pool /\ inv'[j].proc = inv[j].proc
              /\ inv'[j].at = inv[j].at
          BY ZenonT(60), <3>1, <3>3 DEF Invocation
        <4>2. inv'[j].stray = (inv[j].at # "none")
          BY <3>1, <3>3 DEF Invocation
        <4> QED  BY <4>1, <4>2
      <3> QED  BY <3>4, <3>5
    <2>3. current # 0 => current \in Pool
      BY WorkersAssumption DEF Shaped, Pool
    <2> QED  BY <2>1, <2>2, <2>3, HandsOnProcesses DEF Current
  <1>5. ASSUME NEW i \in Inv, Start(i) PROVE Current'
    <2>1. /\ UNCHANGED <<disk, def, pushing, gate, idle, proc>> /\ gate = "round"
          /\ current = 0 \/ current' = current
          /\ current = 0 => current' = made + 1
      BY <1>5 DEF Start
    <2>2. /\ inv'[i].at = "waiting" /\ inv'[i].pool = current' /\ inv'[i].proc = None
          /\ \A j \in Inv \ {i} : inv'[j] = inv[j]
      BY <1>5 DEF Start, Shaped, NoInv
    <2>3. CASE current # 0
      BY <2>1, <2>2, <2>3 DEF Current
    <2>4. CASE current = 0
      <3>1. current' \in Pool /\ current' > made /\ made \in Nat
        BY <1>5, <2>1, <2>4, WorkersAssumption DEF Start, Shaped, Pool
      <3>2. \A j \in Inv : inv[j].pool # current'
        BY <3>1 DEF Staged
      <3>3. idle'[current'] = <<>>
        BY <2>1, <3>1 DEF Staged
      <3>4. \A j \in Inv : inv[j].at # "none" => inv[j].stray
        BY <2>4 DEF Current, Staged
      <3>5. \A j \in Inv : inv'[j].pool = current' => inv'[j].proc = None
        BY <2>2, <3>2
      <3>6. \A j \in Inv : inv'[j].at # "none" /\ ~inv'[j].stray =>
               gate' = "round" /\ inv'[j].pool = current'
        BY <2>1, <2>2, <3>4
      <3> QED  BY <2>1, <3>3, <3>5, <3>6 DEF Current
    <2> QED  BY <2>3, <2>4
  <1>6. ASSUME NEW i \in Inv, Checkout(i) PROVE Current'
    <2> DEFINE g == inv[i].pool
    <2>1. /\ g \in Pool /\ UNCHANGED <<disk, def, pushing, gate, current, proc>>
          /\ \A j \in Inv \ {i} : inv'[j] = inv[j]
          /\ inv[i].at = "waiting" /\ inv'[i].pool = g /\ inv'[i].stray = inv[i].stray
          /\ \/ inv'[i].proc = None
             \/ /\ inv'[i].proc = idle[g][Len(idle[g])]
                /\ Len(idle[g]) \in 1..Len(idle[g])
      BY <1>6, CheckoutTakes
    <2>2. \A h \in Pool : \A k \in 1..Len(idle'[h]) :
             k \in 1..Len(idle[h]) /\ idle'[h][k] = idle[h][k]
      BY <1>6, CheckoutLeaves
    <2>3. current # 0 => current \in Pool
      BY WorkersAssumption DEF Shaped, Pool
    <2> QED  BY SMTT(60), <2>1, <2>2, <2>3 DEF Current, Pool
  <1>7. ASSUME NEW i \in Inv, Started(i) PROVE Current'
    <2>1. PICK p \in Proc :
              /\ proc[p].life = "none" /\ inv[i].at = "spawning"
              /\ inv' = [inv EXCEPT ![i].at = "starting", ![i].proc = p]
              /\ proc' = [proc EXCEPT ![p] = [NoProc EXCEPT !.life = "up", !.code = disk,
                                                            !.open = TRUE]]
              /\ UNCHANGED <<fault, size, pushVars, poolVars>>
      BY <1>7 DEF Started
    <2>2. /\ inv'[i].proc = p /\ inv'[i].pool = inv[i].pool
          /\ inv'[i].stray = inv[i].stray /\ \A j \in Inv \ {i} : inv'[j] = inv[j]
      BY <2>1 DEF Shaped, Invocation
    <2>3. proc'[p].code = disk /\ \A q \in Proc \ {p} : proc'[q] = proc[q]
      BY <2>1 DEF Shaped, NoProc
    <2>4. \A g \in Pool : \A k \in 1..Len(idle[g]) : idle[g][k] \in Proc \ {p}
      BY <2>1, HandsOnProcesses DEF Alive
    <2>5. \A j \in Inv : inv[j].proc # None => inv[j].proc \in Proc \ {p}
      BY <2>1, HandsOnProcesses DEF Alive
    <2>6. current # 0 => current \in Pool
      BY WorkersAssumption DEF Shaped, Pool
    <2>7. UNCHANGED <<disk, def, pushing, gate, current, idle>> /\ inv[i].at # "none"
      BY <2>1
    <2>8. disk >= def
      BY DEF Current, Shaped
    <2> QED  BY <2>2, <2>3, <2>4, <2>5, <2>6, <2>7, <2>8 DEF Current
  <1>8. ASSUME NEW i \in Inv, Talks(i) PROVE Current'
    <2>1. GoneOn(i)
      BY <1>8, TalkingGoesOn DEF Talks
    <2>2. \A j \in Inv : /\ inv'[j].proc = inv[j].proc /\ inv'[j].pool = inv[j].pool
                         /\ inv'[j].stray = inv[j].stray
                         /\ inv'[j].at # "none" => inv[j].at # "none"
      BY <2>1 DEF GoneOn, Shaped, Invocation
    <2>3. \A p \in Proc : proc'[p].code = proc[p].code
      BY <2>1 DEF GoneOn
    <2>4. current # 0 => current \in Pool
      BY WorkersAssumption DEF Shaped, Pool
    <2>5. UNCHANGED <<disk, def, pushing, gate, current, idle>>
      BY <2>1 DEF GoneOn
    <2> QED  BY <2>2, <2>3, <2>4, <2>5, HandsOnProcesses DEF Current
  <1>9. ASSUME NEW i \in Inv, Returned(i) PROVE Current'
    <2> DEFINE g == inv[i].pool
               p == inv[i].proc
    <2>1. p \in Proc /\ inv'[i] = NoInv /\ \A j \in Inv \ {i} : inv'[j] = inv[j]
      BY <1>9, ReturnedLast
    <2>2. UNCHANGED <<disk, def, pushing, gate, current, proc>>
      BY <1>9 DEF Returned
    <2>3. \A h \in Pool : \A k \in 1..Len(idle'[h]) :
             \/ h = g /\ k = Len(idle[h]) + 1 /\ idle'[h][k] = p
             \/ k \in 1..Len(idle[h]) /\ idle'[h][k] = idle[h][k] /\ idle[h][k] \in Proc
      BY <1>9, ReturnedLast
    <2>4. inv'[i].at = "none" /\ inv'[i].proc = None
      BY <2>1 DEF NoInv
    <2>5. current # 0 => current \in Pool
      BY WorkersAssumption DEF Shaped, Pool
    <2>6. current # 0 /\ gate \notin {"landed", "saved"} =>
             \A k \in 1..Len(idle'[current]) : proc[idle'[current][k]].code >= def
      BY <2>1, <2>3, <2>5 DEF Current
    <2> QED  BY <2>1, <2>2, <2>4, <2>6 DEF Current
  <1>10. ASSUME NEW i \in Inv, Left(i) PROVE Current'
    <2>1. /\ inv'[i].at = "none" /\ inv'[i].proc = None
          /\ \A j \in Inv \ {i} : inv'[j] = inv[j]
      BY <1>10 DEF Left, Shaped, NoInv
    <2>2. \A g \in Pool : \A k \in 1..Len(idle'[g]) :
             /\ k \in 1..Len(idle[g]) /\ idle'[g][k] = idle[g][k]
             /\ proc'[idle[g][k]] = proc[idle[g][k]]
      BY <1>10 DEF Left
    <2>3. \A j \in Inv \ {i} : inv[j].proc # None =>
             proc'[inv[j].proc] = proc[inv[j].proc]
      BY <1>10 DEF Left
    <2>4. current # 0 => current \in Pool
      BY WorkersAssumption DEF Shaped, Pool
    <2>5. UNCHANGED <<disk, def, pushing, gate, current>>
      BY <1>10 DEF Left
    <2> QED  BY <2>1, <2>2, <2>3, <2>4, <2>5 DEF Current
  <1>11. ASSUME NEW p \in Proc, Work(p) \/ Die(p) PROVE Current'
    <2>1. /\ UNCHANGED <<disk, def, pushing, gate, current, inv, idle>>
          /\ \A q \in Proc : proc'[q].code = proc[q].code
      <3>1. UNCHANGED <<disk, def, pushing, gate, current, inv, idle>>
        BY <1>11 DEF Work, Die
      <3>2. \A q \in Proc \ {p} : proc'[q] = proc[q]
        BY <1>11 DEF Work, Die, Shaped
      <3>3. proc[p] \in Process
        BY DEF Shaped
      <3>4. CASE Work(p)
        BY SMTT(60), <3>2, <3>3, <3>1, <3>4 DEF Work, Shaped, Process
      <3>5. CASE Die(p)
        BY <3>2, <3>3, <3>1, <3>5 DEF Die, Shaped, Process
      <3> QED  BY <1>11, <3>1, <3>4, <3>5
    <2>2. current # 0 => current \in Pool
      BY WorkersAssumption DEF Shaped, Pool
    <2> QED  BY <2>1, <2>2, HandsOnProcesses DEF Current
  <1>12. ASSUME NEW p \in Proc, Exit(p) PROVE Current'
    <2>1. UNCHANGED <<disk, def, pushing, gate, current, inv, idle>> /\ ~proc[p].open
      BY <1>12 DEF Exit
    <2>2. \A q \in Proc \ {p} : proc'[q] = proc[q]
      BY <1>12 DEF Exit, Shaped
    <2>3. (\E i \in Inv : inv[i].proc = p) => proc'[p].code = proc[p].code
      BY <1>12 DEF Exit, Shaped, Process
    <2>4. \A g \in Pool : \A k \in 1..Len(idle[g]) : idle[g][k] \in Proc \ {p}
      BY <1>12, <2>1, HandsOnProcesses DEF InStep, Quiet
    <2>5. current # 0 => current \in Pool
      BY WorkersAssumption DEF Shaped, Pool
    <2> QED  BY <2>1, <2>2, <2>3, <2>4, <2>5, HandsOnProcesses DEF Current
  <1> QED
    BY <1>1, <1>2, <1>3, <1>4, <1>5, <1>6, <1>7, <1>8, <1>9, <1>10, <1>11, <1>12
    DEF Kinds

---------------------------------------------------------------------------
(* The theorems                                                            *)

\* The parts together hold in the beginning and through every step.
LEMMA PoolSafeStarts == Init => PoolSafe
  <1> SUFFICES ASSUME Init PROVE PoolSafe
    OBVIOUS
  <1>1. Shaped
    BY StartsShaped
  <1>2. \A i \in Inv : /\ inv[i].at = "none" /\ inv[i].pool = 0 /\ inv[i].proc = None
    BY DEF Init, NoInv
  <1>3. \A g \in Pool : idle[g] = <<>> /\ Len(idle[g]) = 0
    BY DEF Init
  <1>4. pushing.last = None /\ pushing.pool = 0 /\ pushing.code = 0 /\ def = 0
        /\ disk = 1 /\ current = 0
    BY DEF Init
  <1>5. Staged /\ OneHand /\ Alive
    BY <1>2, <1>3, <1>4 DEF Staged, OneHand, Alive
  <1>6. InStep
    BY <1>2, <1>3 DEF InStep, InStepOf
  <1>7. Loaded
    <2> SUFFICES ASSUME NEW g \in Pool
                 PROVE  Cardinality(Holders(g)) + Len(idle[g]) <= size
      BY DEF Loaded
    <2>1. Holders(g) = {}
      BY <1>2 DEF Holders, Permitted
    <2>2. size \in Nat
      BY <1>1 DEF Shaped
    <2> QED  BY <1>3, <2>1, <2>2, FS_EmptySet
  <1>8. Current
    BY <1>2, <1>4 DEF Current
  <1> QED  BY <1>1, <1>5, <1>6, <1>7, <1>8 DEF PoolSafe

LEMMA PoolSafeStays == PoolSafe /\ [Next]_vars => PoolSafe'
  <1> SUFFICES ASSUME PoolSafe, [Next]_vars PROVE PoolSafe'
    OBVIOUS
  <1> USE DEF PoolSafe
  <1>1. CASE Next
    <2>1. Kinds
      BY <1>1, StepKinds
    <2>2. Shaped'
      BY <2>1, ShapedStays
    <2>3. Staged'
      BY <2>1, <2>2, StagedStays
    <2>4. OneHand' /\ Alive'
      BY <2>1, <2>2, <2>3, OneHandStays, AliveStays
    <2>5. InStep' /\ Loaded' /\ Current'
      BY <2>1, <2>2, InStepStays, LoadedStays, CurrentStays
    <2> QED  BY <2>2, <2>3, <2>4, <2>5
  <1>2. CASE UNCHANGED vars
    BY <1>2 DEF vars, pushVars, poolVars, Shaped, Staged, OneHand, Alive, InStep, InStepOf,
                Quiet, Loaded, Holders, Current
  <1> QED  BY <1>1, <1>2

LEMMA AlwaysPoolSafe == Spec => []PoolSafe
  BY PoolSafeStarts, PoolSafeStays, PTL DEF Spec

\* The workers an invocation or the pool itself has are no more than the permits that
\* are out and the places of the idle ones.
LEMMA LoadBounds ==
    ASSUME Shaped, Staged, Loaded, NEW g \in Pool
    PROVE  Cardinality(InPool(g)) <= size
  <1> DEFINE W == {i \in Holders(g) : inv[i].proc # None}
             f == [i \in W |-> inv[i].proc]
  <1>1. IsFiniteSet(W) /\ Cardinality(W) <= Cardinality(Holders(g))
    <2>1. W \in SUBSET Holders(g)
      OBVIOUS
    <2> QED  BY <2>1, HoldersFinite, FS_Subset
  <1>2. IsFiniteSet(Held(g)) /\ Cardinality(Held(g)) <= Cardinality(W)
    <2>1. f \in Surjection(W, Held(g))
      BY DEF Held, Surjection
    <2> QED  BY <1>1, <2>1, FS_Surjection
  <1>3. IsFiniteSet(ToSet(idle[g])) /\ Cardinality(ToSet(idle[g])) <= Len(idle[g])
    <2>1. idle[g] \in Seq(Proc) /\ Len(idle[g]) \in Nat /\ DOMAIN idle[g] = 1..Len(idle[g])
      BY DEF Shaped
    <2>2. IsFiniteSet(1..Len(idle[g])) /\ Cardinality(1..Len(idle[g])) = Len(idle[g])
      <3>1. 1 \in Int /\ Len(idle[g]) \in Int
        BY <2>1
      <3>2. IsFiniteSet(1..Len(idle[g]))
            /\ Cardinality(1..Len(idle[g])) = IF 1 > Len(idle[g]) THEN 0
                                              ELSE Len(idle[g]) - 1 + 1
        BY <3>1, FS_Interval
      <3> QED  BY <2>1, <3>2
    <2>3. [k \in 1..Len(idle[g]) |-> idle[g][k]]
             \in Surjection(1..Len(idle[g]), ToSet(idle[g]))
      BY <2>1 DEF ToSet, Surjection
    <2> QED  BY <2>2, <2>3, FS_Surjection
  <1>4. Cardinality(InPool(g)) <= Cardinality(Held(g)) + Cardinality(ToSet(idle[g]))
    <2>1. IsFiniteSet(Held(g) \cap ToSet(idle[g]))
      <3>1. Held(g) \cap ToSet(idle[g]) \in SUBSET Held(g)
        OBVIOUS
      <3> QED  BY <1>2, <3>1, FS_Subset
    <2>2. Cardinality(Held(g) \cap ToSet(idle[g])) \in Nat
      BY <2>1, FS_CardinalityType
    <2>3. Cardinality(Held(g)) \in Nat /\ Cardinality(ToSet(idle[g])) \in Nat
      BY <1>2, <1>3, FS_CardinalityType
    <2>4. Cardinality(InPool(g)) = Cardinality(Held(g)) + Cardinality(ToSet(idle[g]))
             - Cardinality(Held(g) \cap ToSet(idle[g]))
      BY <1>2, <1>3, FS_Union DEF InPool
    <2> QED  BY <2>2, <2>3, <2>4
  <1>5. /\ Cardinality(W) \in Nat /\ Cardinality(Held(g)) \in Nat
        /\ Cardinality(ToSet(idle[g])) \in Nat
    BY <1>1, <1>2, <1>3, FS_CardinalityType
  <1>6. Cardinality(InPool(g)) \in Nat
    <2>1. IsFiniteSet(InPool(g))
      BY <1>2, <1>3, FS_Union DEF InPool
    <2> QED  BY <2>1, FS_CardinalityType
  <1>7. Cardinality(Holders(g)) + Len(idle[g]) <= size /\ Len(idle[g]) \in Nat
        /\ size \in Nat
    BY DEF Loaded, Shaped
  <1> HIDE DEF W
  <1> QED  BY <1>1, <1>2, <1>3, <1>4, <1>5, <1>6, <1>7, HoldersFinite

\* What the parts say of hands, pools and stages is what the run checks.
LEMMA PoolSafeBounds == PoolSafe => WorkersInv
  <1> SUFFICES ASSUME PoolSafe PROVE WorkersInv
    OBVIOUS
  <1> USE DEF PoolSafe
  <1>1. PoolBounded
    BY LoadBounds DEF PoolBounded
  <1>2. \A g \in Pool : ToSet(idle[g]) = {idle[g][k] : k \in 1..Len(idle[g])}
                        /\ DOMAIN idle[g] = 1..Len(idle[g])
    BY DEF ToSet, Shaped
  <1>3. \A g \in Pool : ToSet(idle[g]) \subseteq Proc /\ IsInjective(idle[g])
    <2>1. \A g \in Pool : ToSet(idle[g]) \subseteq Proc
      BY <1>2, HandsOnProcesses
    <2>2. \A g \in Pool : IsInjective(idle[g])
      BY <1>2 DEF OneHand, IsInjective
    <2> QED  BY <2>1, <2>2
  <1>4. \A g \in Pool : Held(g) \cap ToSet(idle[g]) = {}
    <2> SUFFICES ASSUME NEW g \in Pool, NEW p \in Held(g), p \in ToSet(idle[g])
                 PROVE  FALSE
      OBVIOUS
    <2>1. PICK i \in Inv : inv[i].proc = p
      BY DEF Held, Holders
    <2>2. PICK k \in 1..Len(idle[g]) : idle[g][k] = p
      BY <1>2
    <2> QED  BY <2>1, <2>2 DEF OneHand
  <1>5. /\ disk \in 1..MaxCode /\ def \in 0..MaxCode /\ gate \in Gates
        /\ pushing \in [code : 0..MaxCode, pool : 0..MaxPool, last : Proc \cup {None}]
        /\ current \in 0..made /\ made \in 0..MaxPool
    BY DEF Shaped
  <1>6. \A p \in Proc :
           /\ proc[p].life \in {"none", "up", "dead"} /\ proc[p].code \in 0..MaxCode
           /\ proc[p].asked \in 0..MaxAsk
    BY DEF Shaped, Process
  <1>7. \A i \in Inv :
           /\ inv[i].at \in Permitted \cup {"none", "waiting"}
           /\ inv[i].proc \in Proc \cup {None} /\ inv[i].pool \in 0..made
    <2>1. \A i \in Inv : inv[i] \in Invocation /\ made \in Nat
      BY DEF Shaped
    <2> QED  BY <2>1 DEF Staged, Invocation
  <1>8. \A i, j \in Inv : i # j /\ inv[i].proc # None => inv[i].proc # inv[j].proc
    BY DEF OneHand
  <1>9. TypeOK
    BY <1>3, <1>4, <1>5, <1>6, <1>7, <1>8 DEF TypeOK
  <1> QED  BY <1>1, <1>9 DEF WorkersInv

\* A pool never has more processes than its size, and no worker is in two pairs of
\* hands, however checkouts, failures, panics and pushes overlap (lib.rs checkout,
\* release and reload).
THEOREM PoolStaysBounded == Spec => []WorkersInv
  BY AlwaysPoolSafe, PoolSafeBounds, PTL

\* No invocation reads what a worker said to another: a conversation that broke off
\* takes its worker with it (lib.rs, Drop of a checkout).
THEOREM ConversationsMatch == Spec => []RepliesMatch
  <1>1. PoolSafe => RepliesMatch
    BY DEF PoolSafe, InStep, InStepOf, Quiet, RepliesMatch
  <1> QED  BY <1>1, AlwaysPoolSafe, PTL

\* A round that begins after a push never runs in a process with older code, not even
\* in one that a stray task of a panicked round gives back after it (lib.rs
\* reload_producers).
THEOREM CodeIsCurrent == Spec => []NoStaleCode
  <1>1. PoolSafe => NoStaleCode
    <2> SUFFICES ASSUME PoolSafe, NEW i \in Inv, gate = "round", ~inv[i].stray,
                        inv[i].proc # None
                 PROVE  proc[inv[i].proc].code >= def
      BY DEF NoStaleCode
    <2>1. inv[i].at # "none"
      BY DEF PoolSafe, Staged
    <2>2. inv[i].pool = current /\ current # 0
      BY <2>1 DEF PoolSafe, Current, Staged, Shaped
    <2> QED  BY <2>2 DEF PoolSafe, Current
  <1> QED  BY <1>1, AlwaysPoolSafe, PTL
=============================================================================
