--------------------------- MODULE ServingProofs ---------------------------
(***************************************************************************)
(* What the lock beside a store and the life of the servers promise, for   *)
(* any number of servers, commands, stores and socket paths, and with each *)
(* kind of fault that does not break them.                                 *)
(***************************************************************************)
EXTENDS Serving, TLAPS

---------------------------------------------------------------------------
(* The inductive invariant, one part for each thing the code keeps straight*)

Making == [store : Store, at : {"init", "adopt", "insert", "left"}]

\* What each variable is.
Shaped ==
    /\ faults \in SUBSET Fault /\ sock \in [Server -> Socket]
    /\ pc \in [Looker -> ServerPc \cup CommandPc]
    /\ \A p \in Server : pc[p] \in ServerPc
    /\ \A c \in Command : pc[c] \in CommandPc
    /\ todo \in [Looker -> SUBSET Store] /\ at \in [Looker -> Store \cup {None}]
    /\ seen \in [Looker -> Record \cup {None}]
    /\ record \in [Store -> Record \cup {None}]
    /\ file \in [Socket -> Server \cup {None}]
    /\ {token, pidfile} \subseteq Server \cup {None}
    /\ exists \subseteq Store /\ hosted \in [Server -> SUBSET Store]
    /\ making \in [Server -> Making \cup {NotMaking}]
    /\ launch \in [Server -> {"none", "polling"}]
    /\ stop \in [pid : Server, at : {"signal", "wait", "done"}] \cup {NoStop}
    /\ late \in [Command -> SUBSET Server]

\* How far a server has come.
Claiming  == Booting \cup {"bound"}
Announced == {"serving", "stopping", "joining", "draining"}
Releasing == {"releasing", "unbinding", "gone"}

\* A server asks about the stores it found, one after the other, and claims them all
\* before it looks at its socket; a looker between two questions has a store in mind.
Booted ==
    /\ \A p \in Server : pc[p] \in Looking =>
          /\ todo[p] \subseteq hosted[p] /\ todo[p] # {}
          /\ pc[p] # "load" => at[p] \in todo[p]
    /\ \A p \in Server : pc[p] \in {"probe", "unlink", "bind"} => todo[p] = {}
    /\ \A a \in Looker : pc[a] \in {"knock", "clear"} => at[a] \in Store
    /\ \A a \in Looker : pc[a] = "knock" => seen[a] # None

\* Only a server that was announced makes a registry, and what it lists when it
\* lets go is nothing new.
Made ==
    \A p \in Server :
        /\ making[p] # NotMaking => pc[p] \in Announced \cup Releasing \cup {"killed"}
        /\ making[p].at = "left" => pc[p] \notin Announced

\* A socket path was bound by a server that was told to use it and has not taken it
\* away again.
Bound ==
    \A k \in Socket : file[k] # None =>
        /\ sock[file[k]] = k
        /\ pc[file[k]] \in {"bound", "releasing", "killed"} \cup Announced

\* The admin token is of a server that was announced and has not cleared it.
Minted == token # None =>
    pc[token] \in Announced \cup {"releasing", "unbinding", "killed"}

\* A record names the socket of its process, for a registry the process hosts or has
\* claimed and not inserted yet; once it released, only the latter.
Recorded ==
    \A s \in Store : record[s] # None =>
        LET p == record[s].pid
        IN  /\ record[s].socket = sock[p]
            /\ \/ s \in hosted[p] /\ pc[p] \notin Releasing \cup {"idle"}
               \/ making[p].store = s /\ making[p].at \in {"insert", "left"}

\* As long as boots do not overlap, nothing happens around one but deaths.
BootsAlone ==
    /\ \A p, q \in Server : p # q /\ pc[p] \in Booting =>
          /\ pc[q] \in {"idle", "serving"} \cup Over
          /\ making[q] = NotMaking /\ launch[q] # "polling"
    /\ \A p, q \in Server : p # q /\ launch[p] = "polling" =>
          /\ launch[q] # "polling"
          /\ file[sock[p]] = q => pc[q] \notin Listening
    /\ \A p \in Server : launch[p] = "polling" => pc[p] # "idle"

\* Nobody is named in the pidfile who did not get to listen.
Named ==
    /\ pidfile # None => pc[pidfile] \notin Booting \cup {"idle", "refused", "failed"}
    /\ stop # NoStop => pc[stop.pid] \notin Booting \cup {"idle", "refused", "failed"}

\* Nobody is killed unless by somebody who may, and stop is told of a server that ran
\* its shutdown to the end.
NoneKilled == \A p \in Server : pc[p] # "killed"
StopsGone  == stop.at = "done" => pc[stop.pid] = "gone"

\* What is hosted, recorded or being made is on disk, and being made by one.
OnDisk ==
    /\ \A p \in Server : hosted[p] \subseteq exists
    /\ \A s \in Store : record[s] # None => s \in exists
    /\ \A p \in Server : making[p].at \in {"adopt", "insert"} =>
          /\ making[p].store \in exists
          /\ \A q \in Server : making[p].store \notin hosted[q]
          /\ \A q \in Server : q # p /\ making[q].at \in {"adopt", "insert"}
                => making[q].store # making[p].store
          /\ making[p].at = "adopt" => record[making[p].store] = None

\* A server that listens has its path to itself, and keeps it until it gives it up.
OwnPath ==
    /\ \A p \in Server : pc[p] \in Listening \cup {"draining", "releasing"} =>
          file[sock[p]] = p
    /\ \A p, q \in Server : p # q /\ sock[p] = sock[q] /\ pc[p] \in {"unlink", "bind"}
          => pc[q] \notin Listening

\* The record a server has beside a store of its own, and the stores it has: hosted, or
\* about to be.
Own(p)    == [socket |-> sock[p], pid |-> p]
Has(p, s) == s \in hosted[p] \/ (making[p].at = "insert" /\ making[p].store = s)

\* A server that listens has its record beside all it hosts or is about to host, and
\* one that boots beside all it has claimed.
Locked ==
    /\ \A p \in Server, s \in Store : pc[p] \in Listening /\ Has(p, s) =>
          record[s] = Own(p)
    /\ \A p \in Server, s \in Store :
          pc[p] \in Booting /\ s \in hosted[p] \ todo[p] => record[s] = Own(p)

\* What was seen of a store is still so when it is used: the record of a server that
\* listens and has the store, until a knock proved there is no such server.
SeenIsSo ==
    /\ \A a \in Looker, p \in Server : pc[p] \in Listening /\ p # a =>
          /\ pc[a] = "knock" /\ Has(p, at[a]) => seen[a] = Own(p)
          /\ pc[a] = "clear" => ~Has(p, at[a])
          /\ pc[a] = "clean" /\ a \in Server => ~Has(p, at[a])
    /\ \A c \in Command : pc[c] \in {"knock", "clear"} =>
          /\ \A p \in Server : pc[p] \notin Claiming
          /\ at[c] \in exists
          /\ \A p \in Server : making[p].at = "adopt" => making[p].store # at[c]

\* Two servers that listen, or have just stopped to, host different stores.
Apart ==
    \A p, q \in Server : p # q /\ {pc[p], pc[q]} \subseteq Listening \cup {"draining"}
        => hosted[p] \cap hosted[q] = {}

\* A command remembers who was serving when it looked, and is refused as long as
\* they are.
LateKnown ==
    \A c \in Command : \A p \in late[c] :
        /\ pc[p] \notin Claiming \cup {"idle"}
        /\ pc[c] = "knock" /\ pc[p] = "serving" => seen[c] = Own(p)
        /\ pc[c] \in {"clear", "clean", "inside"} => pc[p] # "serving"

ServingSafe ==
    /\ Shaped /\ Booted /\ Made /\ Bound /\ Minted /\ Recorded
    /\ Calm({"overlap"}) => BootsAlone /\ Named /\ OnDisk
    /\ Calm({"kill", "early"}) => NoneKilled
    /\ Calm({"kill", "early", "overlap"}) => StopsGone
    /\ Calm({"tidy", "overlap"}) => OwnPath
    /\ Calm({"tidy", "overlap", "amid"}) => Locked /\ SeenIsSo /\ Apart /\ LateKnown

---------------------------------------------------------------------------
(* The steps                                                               *)

USE DEF look, disk, own, Goes, Looker

\* A server and a command are different processes, and neither is the absence of one.
LEMMA Distinct ==
    /\ None \notin Server /\ None \notin Store /\ None \notin Record
    /\ \A c \in Command : c \notin Server
  BY ServingAssumption DEF Record

\* Everything a command does.
Commands(c) ==
    \/ Look(c) \/ Enter(c) \/ CreateDirect(c) \/ Leave(c)
    \/ \E s \in Store : CommandBegin(c, s) \/ CreateAsk(c, s)

\* A server is started by hand or by the launcher.
Begins(p) ==
    /\ Begin(p) /\ UNCHANGED pidfile
    /\ launch' = launch \/ launch' = [launch EXCEPT ![p] = "polling"]
    /\ launch' # launch => ~IsListening(sock[p])

\* A server dies of a signal it does not handle.
Dies(p) ==
    /\ Alive(p) /\ Goes(p, "killed")
    /\ launch' = launch \/ launch' = [launch EXCEPT ![p] = "none"]
    /\ stop' = stop \/ (stop.at = "signal" /\ stop' = [stop EXCEPT !.at = "wait"])
    /\ "kill" \in faults \/ ("early" \in faults /\ pc[p] \in Claiming)
    /\ UNCHANGED <<faults, sock, look, disk, hosted, making, late>>

\* A server is told to stop.
Told(p) ==
    /\ pc[p] = "serving" /\ Goes(p, "stopping") /\ Undisturbing(p)
    /\ stop' = stop \/ (stop.at = "signal" /\ stop' = [stop EXCEPT !.at = "wait"])
    /\ UNCHANGED <<faults, sock, look, disk, hosted, making, launch, late>>

\* The launcher, and a stop, as far as no server notices.
Minds ==
    /\ UNCHANGED <<faults, sock, pc, look, record, file, token, exists, hosted, making,
                   late>>
    /\ \/ \E p \in Server : StartAnswered(p) \/ StartDied(p)
       \/ \E k \in Socket : StopLook(k)
       \/ StopSeesGone
       \/ /\ stop.at = "signal" /\ UNCHANGED <<launch, pidfile>>
          /\ stop' = NoStop \/ stop' = [stop EXCEPT !.at = "wait"]

Kinds ==
    \/ \E c \in Command : Commands(c)
    \/ \E p \in Server :
          \/ Look(p) \/ Boot(p) \/ Create(p) \/ Shutdown(p)
          \/ Begins(p) \/ Dies(p) \/ Told(p)
          \/ \E s \in Store : CreateBegin(p, s)
    \/ \E k \in Socket : Tidy(k)
    \/ Minds

\* Every step is of one of these kinds.
LEMMA StepKinds ==
    ASSUME Shaped, Next PROVE Kinds
  <1>1. ASSUME NEW p \in Server, Start(p) \/ BeginForeground(p) PROVE Begins(p)
    BY <1>1 DEF Start, BeginForeground, Begins, Begin
  <1>2. ASSUME NEW p \in Server, Terminate(p) PROVE Told(p) \/ Dies(p)
    BY <1>2 DEF Terminate, Terminated, Told, Dies, Alive, Claiming, Over, Booting, Looking
  <1>3. ASSUME NEW p \in Server, Kill(p) \/ StartTimedOut(p) PROVE Dies(p)
    BY <1>3 DEF Kill, StartTimedOut, Dies
  <1>4. ASSUME StopSignal PROVE Minds \/ \E p \in Server : Told(p) \/ Dies(p)
    <2>1. stop.pid \in Server /\ pc[stop.pid] \in ServerPc
      BY <1>4 DEF StopSignal, Shaped, NoStop
    <2>2. CASE ~Alive(stop.pid)
      BY <1>4, <2>2 DEF StopSignal, Minds
    <2>3. CASE pc[stop.pid] = "serving"
      BY <1>4, <2>1, <2>3 DEF StopSignal, Told, Terminated, Alive, Over
    <2>4. CASE Alive(stop.pid) /\ pc[stop.pid] \in Claiming
      BY <1>4, <2>1, <2>4 DEF StopSignal, Dies, Terminated, Alive, Over, Claiming, Booting,
                              Looking
    <2>5. CASE Alive(stop.pid) /\ pc[stop.pid] \notin Claiming \cup {"serving"}
      <3>1. pc' = pc
        BY <1>4, <2>1, <2>5 DEF StopSignal, Claiming, Shaped
      <3> QED  BY <1>4, <2>5, <3>1 DEF StopSignal, Minds
    <2> QED  BY <2>2, <2>3, <2>4, <2>5
  <1>5. ASSUME \/ StopSeesGone \/ \E k \in Socket : StopLook(k)
               \/ \E p \in Server : StartAnswered(p) \/ StartDied(p)
        PROVE  Minds
    BY <1>5 DEF StopSeesGone, StopLook, StartAnswered, StartDied, Minds
  <1> QED  BY <1>1, <1>2, <1>3, <1>4, <1>5 DEF Next, Kinds, Commands, Launch

\* What commands do is of no concern to a server, but for a store more or a stale
\* record less.
LEMMA CommandsKeep ==
    ASSUME Shaped, NEW c \in Command, Commands(c)
    PROVE  /\ UNCHANGED <<faults, sock, file, token, pidfile, hosted, making, launch,
                          stop>>
           /\ \A a \in Looker \ {c} : /\ pc'[a] = pc[a] /\ todo'[a] = todo[a]
                                      /\ at'[a] = at[a] /\ seen'[a] = seen[a]
           /\ \A p \in Server : p \in Looker \ {c}
           /\ \A d \in Command \ {c} : late'[d] = late[d]
           /\ exists \subseteq exists'
           /\ record' = record \/ (pc[c] = "clear" /\ record' = [record EXCEPT ![at[c]] = None])
  <1>1. \A p \in Server : p \in Looker \ {c}
    BY Distinct
  <1>2. CASE \E s \in Store : Load(c, s)
    BY <1>1, <1>2 DEF Load, Shaped
  <1>3. CASE Knock(c) \/ ClearStale(c)
    BY <1>1, <1>3 DEF Knock, ClearStale, Shaped
  <1>4. CASE Enter(c) \/ CreateDirect(c) \/ Leave(c)
    BY <1>1, <1>4 DEF Enter, CreateDirect, Leave, Shaped
  <1>5. CASE \E s \in Store : CommandBegin(c, s) \/ CreateAsk(c, s)
    BY <1>1, <1>5 DEF CommandBegin, CreateAsk, Shaped
  <1> QED  BY <1>2, <1>3, <1>4, <1>5 DEF Commands, Look

---------------------------------------------------------------------------
(* What each variable is                                                   *)

\* Every step keeps every variable what it is.
LEMMA ShapedKept ==
    ASSUME Shaped, [Next]_vars PROVE Shaped'
  <1>1. CASE UNCHANGED vars
    BY <1>1 DEF vars, Shaped
  <1>2. ASSUME NEW a \in Looker, Look(a) PROVE Shaped'
    <2>1. CASE Knock(a)
      BY <1>2, <2>1, Distinct DEF Knock, Shaped, ServerPc, CommandPc, Over, Booting, Looking
    <2>2. CASE ClearStale(a)
      BY <1>2, <2>2, Distinct DEF ClearStale, Shaped, ServerPc, CommandPc, Booting, Looking
    <2>3. ASSUME NEW s \in Store, Load(a, s) PROVE Shaped'
      <3>1. pc' \in [Looker -> ServerPc \cup CommandPc]
            /\ (\A p \in Server : pc'[p] \in ServerPc)
            /\ (\A c \in Command : pc'[c] \in CommandPc)
        BY <2>3, Distinct DEF Load, Shaped, ServerPc, CommandPc, Booting, Looking
      <3>2. late' \in [Command -> SUBSET Server]
        BY <2>3, Distinct DEF Load, Shaped
      <3> QED  BY <2>3, <3>1, <3>2 DEF Load, Shaped
    <2> QED  BY <1>2, <2>1, <2>2, <2>3 DEF Look
  <1>3. ASSUME NEW p \in Server, Boot(p) PROVE Shaped'
    <2>1. CASE ClaimNext(p)
      <3>1. Own(p) \in Record
        BY DEF Own, Record, Shaped
      <3> QED  BY <2>1, <3>1, Distinct DEF ClaimNext, Own, Shaped, ServerPc, Booting, Looking
    <2>2. CASE Probe(p) \/ BindFails(p)
      BY <2>2, Distinct DEF Probe, BindFails, Released, Shaped, ServerPc, Booting, Looking, Over
    <2>3. CASE Unlink(p) \/ Bind(p) \/ Announce(p)
      BY <2>3, Distinct DEF Unlink, Bind, Announce, Shaped, ServerPc, Booting, Looking, Listening
    <2> QED  BY <1>3, <2>1, <2>2, <2>3 DEF Boot
  <1>4. ASSUME NEW p \in Server, Create(p) PROVE Shaped'
    <2>1. making[p].at # "none" => making[p] \in Making
      BY DEF Shaped, NotMaking
    <2>2. CASE CreateInit(p)
      BY <2>1, <2>2 DEF CreateInit, Shaped, Making
    <2>3. CASE RestoreFails(p)
      BY <2>1, <2>3 DEF RestoreFails, Shaped, Making
    <2>4. CASE AdoptClaim(p)
      <3>1. Own(p) \in Record
        BY DEF Own, Record, Shaped
      <3> QED  BY <2>1, <2>4, <3>1 DEF AdoptClaim, Own, Shaped, Making
    <2>5. CASE AdoptInsert(p)
      BY <2>1, <2>5 DEF AdoptInsert, Shaped, Making
    <2> QED  BY <1>4, <2>2, <2>3, <2>4, <2>5 DEF Create
  <1>5. ASSUME NEW p \in Server, Shutdown(p) PROVE Shaped'
    BY <1>5, Distinct DEF Shutdown, Wake, Release, RemoveSocket, ClearAdmin, Released, Shaped,
                          ServerPc, Listening, Over
  <1>6. ASSUME NEW p \in Server, Begins(p) PROVE Shaped'
    BY <1>6, Distinct DEF Begins, Begin, Shaped, ServerPc, Booting, Looking
  <1>7. ASSUME NEW p \in Server, Dies(p) \/ Told(p) PROVE Shaped'
    <2>1. pc' \in [Looker -> ServerPc \cup CommandPc]
          /\ (\A q \in Server : pc'[q] \in ServerPc)
          /\ (\A c \in Command : pc'[c] \in CommandPc)
      BY <1>7, Distinct DEF Dies, Told, Shaped, ServerPc, Over, Listening
    <2>2. stop' \in [pid : Server, at : {"signal", "wait", "done"}] \cup {NoStop}
      BY <1>7 DEF Dies, Told, Shaped, NoStop
    <2>3. launch' \in [Server -> {"none", "polling"}]
      BY <1>7 DEF Dies, Told, Shaped
    <2> QED  BY <1>7, <2>1, <2>2, <2>3 DEF Dies, Told, Shaped
  <1>8. ASSUME NEW p \in Server, NEW s \in Store, CreateBegin(p, s) PROVE Shaped'
    BY <1>8 DEF CreateBegin, Shaped, Making
  <1>9. ASSUME NEW k \in Socket, Tidy(k) PROVE Shaped'
    BY <1>9 DEF Tidy, Shaped
  <1>10. CASE Minds
    <2>1. stop' \in [pid : Server, at : {"signal", "wait", "done"}] \cup {NoStop}
      BY <1>10 DEF Minds, StartAnswered, StartDied, StopLook, StopSeesGone, Shaped, NoStop
    <2>2. launch' \in [Server -> {"none", "polling"}] /\ pidfile' \in Server \cup {None}
      BY <1>10 DEF Minds, StartAnswered, StartDied, StopLook, StopSeesGone, Shaped
    <2> QED  BY <1>10, <2>1, <2>2 DEF Minds, Shaped
  <1>11. ASSUME NEW c \in Command, Enter(c) \/ CreateDirect(c) \/ Leave(c) PROVE Shaped'
    BY SMTT(60), <1>11, Distinct DEF Enter, CreateDirect, Leave, Shaped, ServerPc, CommandPc
  <1>12. ASSUME NEW c \in Command, NEW s \in Store, CommandBegin(c, s) \/ CreateAsk(c, s)
         PROVE  Shaped'
    BY <1>12, Distinct DEF CommandBegin, CreateAsk, Shaped, ServerPc, CommandPc, Looking
  <1> QED  BY <1>1, <1>2, <1>3, <1>4, <1>5, <1>6, <1>7, <1>8, <1>9, <1>10, <1>11, <1>12,
              StepKinds DEF Kinds, Commands

---------------------------------------------------------------------------
(* A boot, what is being made, and who is at a socket, whatever the faults *)

\* A server boots store by store, and nobody else moves it on.
LEMMA BootedKept ==
    ASSUME Shaped, Booted, Next PROVE Booted'
  <1>1. ASSUME NEW a \in Looker, NEW s \in Store, Load(a, s) PROVE Booted'
    BY <1>1, Distinct DEF Load, Shaped, Booted, Looking
  <1>2. ASSUME NEW a \in Looker, Knock(a) \/ ClearStale(a) PROVE Booted'
    BY <1>2, Distinct DEF Knock, ClearStale, Shaped, Booted, Looking
  <1>3. ASSUME NEW p \in Server, ClaimNext(p) PROVE Booted'
    BY <1>3, Distinct DEF ClaimNext, Shaped, Booted, Looking
  <1>4. ASSUME NEW p \in Server, Boot(p), ~ClaimNext(p) PROVE Booted'
    BY <1>4, Distinct DEF Boot, Probe, Unlink, BindFails, Bind, Announce, Shaped, Booted,
                          Looking
  <1>5. ASSUME NEW p \in Server, Create(p) PROVE Booted'
    BY <1>5, Distinct DEF Create, CreateInit, RestoreFails, AdoptClaim, AdoptInsert, Shaped,
                          Booted, Looking
  <1>6. ASSUME NEW p \in Server, Shutdown(p) PROVE Booted'
    BY <1>6, Distinct DEF Shutdown, Wake, Release, RemoveSocket, ClearAdmin, Shaped, Booted,
                          Looking
  <1>7. ASSUME NEW p \in Server, Begins(p) PROVE Booted'
    BY <1>7, Distinct DEF Begins, Begin, Shaped, Booted, Looking
  <1>8. ASSUME NEW p \in Server, Dies(p) \/ Told(p) PROVE Booted'
    BY <1>8, Distinct DEF Dies, Told, Shaped, Booted, Looking
  <1>9. CASE Minds \/ (\E k \in Socket : Tidy(k))
             \/ \E p \in Server, s \in Store : CreateBegin(p, s)
    BY <1>9 DEF Minds, Tidy, CreateBegin, Booted
  <1>10. ASSUME NEW c \in Command, Enter(c) \/ CreateDirect(c) \/ Leave(c) PROVE Booted'
    BY <1>10, Distinct DEF Enter, CreateDirect, Leave, Shaped, Booted, Looking
  <1>11. ASSUME NEW c \in Command, NEW s \in Store, CommandBegin(c, s) \/ CreateAsk(c, s)
         PROVE  Booted'
    BY <1>11, Distinct DEF CommandBegin, CreateAsk, Shaped, Booted, Looking
  <1> QED  BY <1>1, <1>2, <1>3, <1>4, <1>5, <1>6, <1>7, <1>8, <1>9, <1>10, <1>11,
              StepKinds, Distinct DEF Kinds, Commands, Look

\* A registry is made through a server that was announced.
LEMMA MadeKept ==
    ASSUME Shaped, Made, Next PROVE Made'
  <1>1. ASSUME NEW c \in Command, Commands(c) PROVE Made'
    BY <1>1, CommandsKeep DEF Made
  <1>2. ASSUME NEW p \in Server, Look(p) PROVE Made'
    BY <1>2, Distinct DEF Look, Load, Knock, ClearStale, Shaped, Made, Announced, Releasing
  <1>3. ASSUME NEW p \in Server, Boot(p) PROVE Made'
    BY <1>3, Distinct DEF Boot, ClaimNext, Probe, Unlink, BindFails, Bind, Announce, Shaped,
                          Made, NotMaking, Announced, Releasing
  <1>4. ASSUME NEW p \in Server, Create(p) PROVE Made'
    BY <1>4 DEF Create, CreateInit, RestoreFails, AdoptClaim, AdoptInsert, ServingFlag,
                Shaped, Making, Made, NotMaking, Announced, Releasing
  <1>5. ASSUME NEW p \in Server, Shutdown(p) PROVE Made'
    BY <1>5, Distinct DEF Shutdown, Wake, Release, RemoveSocket, ClearAdmin, Shaped, Made,
                          Announced, Releasing
  <1>6. ASSUME NEW p \in Server, Begins(p) PROVE Made'
    BY <1>6, Distinct DEF Begins, Begin, Shaped, Made, NotMaking, Announced, Releasing
  <1>7. ASSUME NEW p \in Server, Dies(p) \/ Told(p) PROVE Made'
    BY <1>7, Distinct DEF Dies, Told, Alive, Over, Shaped, Made, Announced, Releasing
  <1>8. ASSUME NEW p \in Server, NEW s \in Store, CreateBegin(p, s) PROVE Made'
    BY <1>8 DEF CreateBegin, Shaped, Made, Announced
  <1>9. CASE Minds \/ \E k \in Socket : Tidy(k)
    BY <1>9 DEF Minds, Tidy, Made
  <1> QED  BY <1>1, <1>2, <1>3, <1>4, <1>5, <1>6, <1>7, <1>8, <1>9, StepKinds DEF Kinds

\* A path is bound by a server that was told to use it, and a token is of a server
\* that was announced.
LEMMA BoundKept ==
    ASSUME Shaped, Bound, Minted, Next PROVE Bound' /\ Minted'
  <1>1. ASSUME NEW c \in Command, Commands(c) PROVE Bound' /\ Minted'
    BY <1>1, CommandsKeep DEF Bound, Minted, Shaped
  <1>2. ASSUME NEW p \in Server, Look(p) PROVE Bound' /\ Minted'
    BY <1>2, Distinct DEF Look, Load, Knock, ClearStale, Shaped, Bound, Minted, Announced
  <1>3. ASSUME NEW p \in Server, Boot(p) PROVE Bound' /\ Minted'
    BY <1>3, Distinct DEF Boot, ClaimNext, Probe, Unlink, BindFails, Bind, Announce, Shaped,
                          Bound, Minted, Announced
  <1>4. ASSUME NEW p \in Server, Create(p) PROVE Bound' /\ Minted'
    BY <1>4 DEF Create, CreateInit, RestoreFails, AdoptClaim, AdoptInsert, Bound, Minted
  <1>5. ASSUME NEW p \in Server, Shutdown(p) PROVE Bound' /\ Minted'
    BY <1>5, Distinct DEF Shutdown, Wake, Release, RemoveSocket, ClearAdmin, Shaped, Bound,
                          Minted, Announced
  <1>6. ASSUME NEW p \in Server, Begins(p) PROVE Bound' /\ Minted'
    BY <1>6, Distinct DEF Begins, Begin, Shaped, Bound, Minted, Announced
  <1>7. ASSUME NEW p \in Server, Dies(p) \/ Told(p) PROVE Bound' /\ Minted'
    BY <1>7, Distinct DEF Dies, Told, Alive, Over, Shaped, Bound, Minted, Announced
  <1>8. ASSUME NEW k \in Socket, Tidy(k) PROVE Bound' /\ Minted'
    BY <1>8 DEF Tidy, Shaped, Bound, Minted
  <1>9. CASE Minds \/ \E p \in Server, s \in Store : CreateBegin(p, s)
    BY <1>9 DEF Minds, CreateBegin, Bound, Minted
  <1> QED  BY <1>1, <1>2, <1>3, <1>4, <1>5, <1>6, <1>7, <1>8, <1>9, StepKinds DEF Kinds

\* A record names the socket of its process, for a store the process has.
LEMMA RecordedKept ==
    ASSUME Shaped, Booted, Made, Recorded, Next PROVE Recorded'
  <1>0. \A s \in Store : record[s] # None => record[s] \in Record
    BY DEF Shaped
  <1>1. ASSUME NEW c \in Command, Commands(c) PROVE Recorded'
    BY <1>0, <1>1, CommandsKeep DEF Recorded, Shaped, Record
  <1>2. ASSUME NEW p \in Server, Look(p) PROVE Recorded'
    BY <1>0, <1>2, Distinct DEF Look, Load, Knock, ClearStale, Shaped, Recorded, Releasing,
                                Record
  <1>3. ASSUME NEW p \in Server, ClaimNext(p) PROVE Recorded'
    BY <1>0, <1>3, Distinct DEF ClaimNext, Shaped, Booted, Recorded, Looking, Releasing,
                                Record
  <1>4. ASSUME NEW p \in Server, Boot(p), ~ClaimNext(p) PROVE Recorded'
    BY <1>0, <1>4, Distinct DEF Boot, Probe, Unlink, BindFails, Bind, Announce, Released,
                                Shaped, Recorded, Releasing, Record
  <1>5. ASSUME NEW p \in Server, Create(p) PROVE Recorded'
    BY SMTT(60), <1>0, <1>5 DEF Create, CreateInit, RestoreFails, AdoptClaim, AdoptInsert, ServingFlag,
                      Shaped, Made, Making, Recorded, Releasing, Announced, Record, NotMaking
  <1>6. ASSUME NEW p \in Server, Shutdown(p) PROVE Recorded'
    BY <1>0, <1>6, Distinct DEF Shutdown, Wake, Release, RemoveSocket, ClearAdmin, Released,
                                Shaped, Recorded, Releasing, Record
  <1>7. ASSUME NEW p \in Server, Begins(p) PROVE Recorded'
    BY <1>0, <1>7, Distinct DEF Begins, Begin, Shaped, Recorded, Releasing, Record
  <1>8. ASSUME NEW p \in Server, Dies(p) \/ Told(p) PROVE Recorded'
    BY <1>0, <1>8, Distinct DEF Dies, Told, Alive, Over, Shaped, Recorded, Releasing, Record
  <1>9. ASSUME NEW p \in Server, NEW s \in Store, CreateBegin(p, s) PROVE Recorded'
    BY <1>0, <1>9 DEF CreateBegin, Shaped, Recorded, NotMaking, Record
  <1>10. CASE Minds \/ \E k \in Socket : Tidy(k)
    BY <1>10 DEF Minds, Tidy, Recorded
  <1> QED  BY <1>1, <1>2, <1>3, <1>4, <1>5, <1>6, <1>7, <1>8, <1>9, <1>10, StepKinds
           DEF Kinds

---------------------------------------------------------------------------
(* Boots in order                                                          *)

\* While one server boots, no other one boots, makes a registry or is waited for.
LEMMA BootsAloneKept ==
    ASSUME Shaped, BootsAlone, "overlap" \notin faults, Next PROVE BootsAlone'
  <1>1. ASSUME NEW c \in Command, Commands(c) PROVE BootsAlone'
    BY <1>1, CommandsKeep DEF BootsAlone
  <1>2. ASSUME NEW p \in Server, Look(p) PROVE BootsAlone'
    BY <1>2, Distinct DEF Look, Load, Knock, ClearStale, Shaped, BootsAlone, Booting, Looking,
                          Over, Listening
  <1>3. ASSUME NEW p \in Server, Boot(p) PROVE BootsAlone'
    BY <1>3, Distinct DEF Boot, ClaimNext, Probe, Unlink, BindFails, Bind, Announce, Shaped,
                          BootsAlone, Booting, Looking, Over, Listening
  <1>4. ASSUME NEW p \in Server, Create(p) PROVE BootsAlone'
    BY <1>4 DEF Create, CreateInit, RestoreFails, AdoptClaim, AdoptInsert, Shaped, NotMaking,
                BootsAlone
  <1>5. ASSUME NEW p \in Server, Shutdown(p) PROVE BootsAlone'
    BY <1>5, Distinct DEF Shutdown, Wake, Release, RemoveSocket, ClearAdmin, Shaped,
                          BootsAlone, Booting, Looking, Over, Listening
  <1>6. ASSUME NEW p \in Server, Begins(p) PROVE BootsAlone'
    <2>1. /\ \A q \in Server \ {p} :
                /\ pc[q] \in {"idle", "serving"} \cup Over
                /\ making[q] = NotMaking /\ launch[q] # "polling"
          /\ pc[p] = "idle" /\ pc'[p] # "idle"
          /\ \A q \in Server \ {p} : pc'[q] = pc[q]
          /\ UNCHANGED <<sock, making, file>>
          /\ \A q \in Server \ {p} : launch'[q] = launch[q]
      BY <1>6, Distinct DEF Begins, Begin, InOrder, Shaped
    <2>2. launch'[p] = "polling" => ~IsListening(sock[p])
      BY <1>6, <2>1 DEF Begins, BootsAlone
    <2>3. launch'[p] = "polling" =>
              \A q \in Server \ {p} : file[sock[p]] = q => pc[q] \notin Listening
      BY <2>2, Distinct DEF IsListening
    <2> QED  BY <2>1, <2>3 DEF BootsAlone, Booting, Looking, Over
  <1>7. ASSUME NEW p \in Server, Dies(p) PROVE BootsAlone'
    BY <1>7, Distinct DEF Dies, Shaped, BootsAlone, Booting, Looking, Over, Listening
  <1>8. ASSUME NEW p \in Server, Told(p) PROVE BootsAlone'
    BY <1>8, Distinct DEF Told, Undisturbing, Shaped, BootsAlone, Booting, Looking, Over,
                          Listening
  <1>9. ASSUME NEW p \in Server, NEW s \in Store, CreateBegin(p, s) PROVE BootsAlone'
    BY <1>9 DEF CreateBegin, Undisturbing, Shaped, BootsAlone
  <1>10. ASSUME NEW k \in Socket, Tidy(k) PROVE BootsAlone'
    BY <1>10, Distinct DEF Tidy, Shaped, BootsAlone
  <1>11. CASE Minds
    BY <1>11 DEF Minds, StartAnswered, StartDied, StopLook, StopSeesGone, Shaped, BootsAlone
  <1> QED  BY <1>1, <1>2, <1>3, <1>4, <1>5, <1>6, <1>7, <1>8, <1>9, <1>10, <1>11, StepKinds
           DEF Kinds

\* The launcher names its child when somebody answers at the path, and that is the
\* child: nobody else listens there while it is waited for.
LEMMA NamedKept ==
    ASSUME Shaped, Bound, BootsAlone, Named, "overlap" \notin faults, Next PROVE Named'
  <1> DEFINE Unnamed == Booting \cup {"idle", "refused", "failed"}
  <1>1. ASSUME UNCHANGED <<pidfile, stop>>,
               \A p \in Server : pc[p] \notin Unnamed => pc'[p] \notin Unnamed
        PROVE  Named'
    BY <1>1 DEF Named, Shaped, NoStop
  <1>2. ASSUME NEW c \in Command, Commands(c) PROVE Named'
    BY <1>1, <1>2, CommandsKeep
  <1>3. ASSUME NEW p \in Server, Look(p) PROVE Named'
    BY <1>1, <1>3, Distinct DEF Look, Load, Knock, ClearStale, Shaped, Booting, Looking
  <1>4. ASSUME NEW p \in Server, Boot(p) PROVE Named'
    BY <1>1, <1>4, Distinct DEF Boot, ClaimNext, Probe, Unlink, BindFails, Bind, Announce,
                                Shaped, Booting, Looking
  <1>5. ASSUME NEW p \in Server, Create(p) PROVE Named'
    BY <1>1, <1>5 DEF Create, CreateInit, RestoreFails, AdoptClaim, AdoptInsert
  <1>6. ASSUME NEW p \in Server, Shutdown(p) PROVE Named'
    BY <1>1, <1>6, Distinct DEF Shutdown, Wake, Release, RemoveSocket, ClearAdmin, Shaped,
                                Booting, Looking
  <1>7. ASSUME NEW p \in Server, Begins(p) PROVE Named'
    BY <1>1, <1>7, Distinct DEF Begins, Begin, Shaped, Booting, Looking
  <1>8. ASSUME NEW p \in Server, Dies(p) \/ Told(p) PROVE Named'
    <2>1. \A q \in Server : pc[q] \notin Unnamed => pc'[q] \notin Unnamed
      BY <1>8, Distinct DEF Dies, Told, Shaped, Booting, Looking
    <2>2. pidfile' = pidfile /\ (stop # NoStop \/ stop' = stop)
      BY <1>8 DEF Dies, Told, NoStop
    <2>3. stop # NoStop => stop'.pid = stop.pid /\ stop.pid \in Server
      BY <1>8 DEF Dies, Told, Shaped
    <2> QED  BY <2>1, <2>2, <2>3 DEF Named, Shaped
  <1>9. CASE (\E k \in Socket : Tidy(k)) \/ \E p \in Server, s \in Store : CreateBegin(p, s)
    BY <1>1, <1>9 DEF Tidy, CreateBegin
  <1>10. CASE Minds
    <2>1. ASSUME NEW p \in Server, StartAnswered(p) PROVE Named'
      <3>1. pc[p] \in Listening \cup {"releasing", "killed"} \cup Announced
        BY <2>1, Distinct DEF StartAnswered, IsListening, Shaped, BootsAlone, Bound
      <3>2. pidfile' = p /\ stop' = stop /\ pc' = pc
        BY <2>1 DEF StartAnswered
      <3> QED  BY <3>1, <3>2 DEF Named, Listening, Announced, Booting, Looking
    <2>2. ASSUME NEW p \in Server, StartDied(p) PROVE Named'
      BY <2>2 DEF StartDied, Named
    <2>3. ASSUME NEW k \in Socket, StopLook(k) PROVE Named'
      BY <2>3 DEF StopLook, Named
    <2>4. CASE StopSeesGone
      BY <2>4 DEF StopSeesGone, Named, Shaped, NoStop
    <2>5. CASE /\ stop.at = "signal" /\ UNCHANGED <<pc, launch, pidfile>>
               /\ stop' = NoStop \/ stop' = [stop EXCEPT !.at = "wait"]
      BY <2>5 DEF Named, Shaped, NoStop
    <2> QED  BY <1>10, <2>1, <2>2, <2>3, <2>4, <2>5 DEF Minds
  <1> QED  BY <1>2, <1>3, <1>4, <1>5, <1>6, <1>7, <1>8, <1>9, <1>10, StepKinds DEF Kinds

\* A store is hosted, locked and made only on disk, and a store that is being made is
\* nobody's yet.
LEMMA OnDiskKept ==
    ASSUME Shaped, Booted, Made, OnDisk, "overlap" \notin faults, Next PROVE OnDisk'
  <1>1. ASSUME NEW c \in Command, Commands(c) PROVE OnDisk'
    BY <1>1, CommandsKeep DEF OnDisk, Shaped
  <1>2. ASSUME NEW p \in Server, Look(p) PROVE OnDisk'
    BY <1>2 DEF Look, Load, Knock, ClearStale, Shaped, OnDisk
  <1>3. ASSUME NEW p \in Server, ClaimNext(p) PROVE OnDisk'
    BY <1>3, Distinct DEF ClaimNext, Shaped, Booted, OnDisk, Looking
  <1>4. ASSUME NEW p \in Server, Boot(p), ~ClaimNext(p) PROVE OnDisk'
    BY <1>4 DEF Boot, Probe, Unlink, BindFails, Bind, Announce, Released, Shaped, OnDisk
  <1>5. ASSUME NEW p \in Server, Create(p) PROVE OnDisk'
    <2>1. making[p].at \in {"init", "adopt", "insert"} => making[p] \in Making
      BY DEF Shaped, NotMaking
    <2>2. CASE CreateInit(p)
      <3>1. CASE making[p].store \in exists
        BY SMTT(60), <2>2, <3>1 DEF CreateInit, Shaped, NotMaking, OnDisk
      <3>2. CASE making[p].store \notin exists
        <4> DEFINE s == making[p].store
        <4>1. s \in Store /\ record[s] = None /\ \A q \in Server : s \notin hosted[q]
          BY <2>1, <2>2, <3>2 DEF CreateInit, Shaped, Making, OnDisk
        <4>2. /\ exists' = exists \cup {s} /\ UNCHANGED <<record, hosted>>
              /\ making'[p].at = "adopt" /\ making'[p].store = s
              /\ \A q \in Server \ {p} : making'[q] = making[q]
          BY <2>1, <2>2, <3>2 DEF CreateInit, Shaped, Making
        <4>3. \A q \in Server \ {p} : making[q].at \in {"adopt", "insert"}
                                        => making[q].store # s
          BY <3>2 DEF OnDisk
        <4> HIDE DEF s
        <4> QED  BY <4>1, <4>2, <4>3 DEF OnDisk
      <3> QED  BY <3>1, <3>2
    <2>3. CASE RestoreFails(p)
      BY <2>1, <2>3 DEF RestoreFails, Shaped, Making, NotMaking, OnDisk
    <2>4. CASE AdoptClaim(p)
      BY <2>1, <2>4 DEF AdoptClaim, Shaped, Making, NotMaking, OnDisk
    <2>5. CASE AdoptInsert(p)
      BY <2>1, <2>5 DEF AdoptInsert, Shaped, Making, NotMaking, OnDisk
    <2> QED  BY <1>5, <2>2, <2>3, <2>4, <2>5 DEF Create
  <1>6. ASSUME NEW p \in Server, Shutdown(p) PROVE OnDisk'
    BY <1>6 DEF Shutdown, Wake, Release, RemoveSocket, ClearAdmin, Released, Shaped, OnDisk
  <1>7. ASSUME NEW p \in Server, Begins(p) PROVE OnDisk'
    <2>1. \A q \in Server : making[q].at \notin {"adopt", "insert"}
      BY <1>7 DEF Begins, Begin, InOrder, Made, Announced, Releasing, NotMaking
    <2> QED  BY <1>7, <2>1 DEF Begins, Begin, Shaped, OnDisk
  <1>8. ASSUME NEW p \in Server, NEW s \in Store, CreateBegin(p, s) PROVE OnDisk'
    BY <1>8 DEF CreateBegin, Shaped, OnDisk, NotMaking
  <1>9. CASE Minds \/ (\E k \in Socket : Tidy(k)) \/ \E p \in Server : Dies(p) \/ Told(p)
    BY <1>9 DEF Minds, Tidy, Dies, Told, OnDisk
  <1> QED  BY <1>1, <1>2, <1>3, <1>4, <1>5, <1>6, <1>7, <1>8, <1>9, StepKinds DEF Kinds

---------------------------------------------------------------------------
(* What stop was told                                                      *)

\* Only a kill, or a signal before there is a handler, ends a server at once.
LEMMA NoneKilledKept ==
    ASSUME Shaped, NoneKilled, {"kill", "early"} \cap faults = {}, Next PROVE NoneKilled'
  <1>1. ASSUME NEW c \in Command, Commands(c) PROVE NoneKilled'
    BY <1>1, CommandsKeep DEF NoneKilled
  <1>2. ASSUME NEW p \in Server, Look(p) \/ Boot(p) \/ Shutdown(p) PROVE NoneKilled'
    BY <1>2, Distinct DEF Look, Load, Knock, ClearStale, Boot, ClaimNext, Probe, Unlink,
                          BindFails, Bind, Announce, Shutdown, Wake, Release, RemoveSocket,
                          ClearAdmin, Shaped, NoneKilled
  <1>3. ASSUME NEW p \in Server, Begins(p) \/ Told(p) PROVE NoneKilled'
    BY <1>3, Distinct DEF Begins, Begin, Told, Shaped, NoneKilled
  <1>4. ASSUME NEW p \in Server, Create(p) \/ (\E s \in Store : CreateBegin(p, s))
        PROVE  NoneKilled'
    BY <1>4 DEF Create, CreateInit, RestoreFails, AdoptClaim, AdoptInsert, CreateBegin,
                NoneKilled
  <1>5. ~ \E p \in Server : Dies(p)
    BY DEF Dies
  <1>6. CASE Minds \/ \E k \in Socket : Tidy(k)
    BY <1>6 DEF Minds, Tidy, NoneKilled
  <1> QED  BY <1>1, <1>2, <1>3, <1>4, <1>5, <1>6, StepKinds DEF Kinds

\* The process stop waited for was listening once, so it is gone by its own shutdown
\* when it is gone.
LEMMA StopsGoneKept ==
    ASSUME Shaped, Named, NoneKilled, StopsGone, {"kill", "early"} \cap faults = {}, Next
    PROVE  StopsGone'
  <1>1. ASSUME stop' = stop, \A p \in Server : pc[p] = "gone" => pc'[p] = "gone"
        PROVE  StopsGone'
    BY <1>1 DEF StopsGone, Shaped, NoStop
  <1>2. ASSUME NEW c \in Command, Commands(c) PROVE StopsGone'
    BY <1>1, <1>2, CommandsKeep
  <1>3. ASSUME NEW p \in Server, Look(p) \/ Boot(p) \/ Shutdown(p) PROVE StopsGone'
    BY <1>1, <1>3, Distinct
       DEF Look, Load, Knock, ClearStale, Boot, ClaimNext, Probe, Unlink, BindFails, Bind,
           Announce, Shutdown, Wake, Release, RemoveSocket, ClearAdmin, Shaped
  <1>4. ASSUME NEW p \in Server, Begins(p) PROVE StopsGone'
    BY <1>1, <1>4, Distinct DEF Begins, Begin, Shaped
  <1>5. ASSUME NEW p \in Server, Create(p) \/ (\E s \in Store : CreateBegin(p, s))
        PROVE  StopsGone'
    BY <1>1, <1>5 DEF Create, CreateInit, RestoreFails, AdoptClaim, AdoptInsert, CreateBegin
  <1>6. ASSUME NEW p \in Server, Told(p) PROVE StopsGone'
    <2>1. CASE stop' = stop
      BY <1>1, <1>6, <2>1, Distinct DEF Told, Shaped
    <2>2. CASE stop' # stop
      BY <1>6, <2>2 DEF Told, Shaped, NoStop, StopsGone
    <2> QED  BY <2>1, <2>2
  <1>7. ~ \E p \in Server : Dies(p)
    BY DEF Dies
  <1>8. ASSUME NEW k \in Socket, Tidy(k) PROVE StopsGone'
    BY <1>1, <1>8 DEF Tidy
  <1>9. CASE Minds
    <2>1. CASE StopSeesGone
      <3>1. stop \in [pid : Server, at : {"signal", "wait", "done"}] /\ stop # NoStop
        BY <2>1 DEF StopSeesGone, Shaped, NoStop
      <3>2. pc[stop.pid] = "gone"
        BY <2>1, <3>1 DEF StopSeesGone, Named, NoneKilled, Alive, Over
      <3> QED  BY <2>1, <3>1, <3>2 DEF StopSeesGone, StopsGone
    <2>2. CASE \E p \in Server : StartAnswered(p) \/ StartDied(p)
      BY <1>1, <2>2 DEF StartAnswered, StartDied
    <2>3. ASSUME NEW k \in Socket, StopLook(k) PROVE StopsGone'
      BY <2>3 DEF StopLook, StopsGone, NoStop
    <2>4. CASE stop.at = "signal" /\ (stop' = NoStop \/ stop' = [stop EXCEPT !.at = "wait"])
      BY <2>4 DEF StopsGone, Shaped, NoStop
    <2> QED  BY <1>9, <2>1, <2>2, <2>3, <2>4 DEF Minds
  <1> QED  BY <1>2, <1>3, <1>4, <1>5, <1>6, <1>7, <1>8, <1>9, StepKinds DEF Kinds

---------------------------------------------------------------------------
(* Who is at a path, and whose the stores are                              *)

\* A server asks whether somebody listens before it unlinks the path, so it takes it
\* from nobody; with boots in order nobody takes it from the server either.
LEMMA OwnPathKept ==
    ASSUME Shaped, BootsAlone, OwnPath, {"tidy", "overlap"} \cap faults = {}, Next
    PROVE  OwnPath'
  <1>1. ASSUME NEW c \in Command, Commands(c) PROVE OwnPath'
    BY <1>1, CommandsKeep DEF OwnPath
  <1>2. ASSUME NEW p \in Server, Look(p) \/ ClaimNext(p) \/ BindFails(p) \/ Announce(p)
        PROVE  OwnPath'
    BY <1>2, Distinct DEF Look, Load, Knock, ClearStale, ClaimNext, BindFails, Announce,
                          Shaped, OwnPath, Listening
  <1>3. ASSUME NEW p \in Server, Probe(p) PROVE OwnPath'
    <2>1. ASSUME NEW q \in Server \ {p}, sock[p] = sock[q], pc[q] \in Listening
          PROVE  IsListening(sock[p])
      BY <2>1, Distinct DEF OwnPath, IsListening
    <2> QED  BY <1>3, <2>1, Distinct DEF Probe, Shaped, OwnPath, Listening
  <1>4. ASSUME NEW p \in Server, Unlink(p) \/ Bind(p) PROVE OwnPath'
    <2>1. \A q \in Server \ {p} : pc[q] \in {"idle", "serving"} \cup Over
      BY <1>4 DEF Unlink, Bind, BootsAlone, Booting
    <2>2. ASSUME NEW q \in Server \ {p}, pc[q] = "serving" PROVE sock[q] # sock[p]
      BY <1>4, <2>2 DEF Unlink, Bind, OwnPath, Listening
    <2>3. /\ \A q \in Server \ {p} : pc'[q] = pc[q] /\ sock'[q] = sock[q]
          /\ sock'[p] = sock[p] /\ (pc'[p] = "bind" \/ file'[sock[p]] = p)
          /\ \A k \in Socket \ {sock[p]} : file'[k] = file[k]
          /\ pc'[p] \in {"bind", "bound"} /\ \A q \in Server : sock[q] \in Socket
      BY <1>4, Distinct DEF Unlink, Bind, Shaped
    <2> QED  BY <2>1, <2>2, <2>3 DEF OwnPath, Listening, Over
  <1>5. ASSUME NEW p \in Server, Create(p) \/ (\E s \in Store : CreateBegin(p, s))
        PROVE  OwnPath'
    BY <1>5 DEF Create, CreateInit, RestoreFails, AdoptClaim, AdoptInsert, CreateBegin, OwnPath
  <1>6. ASSUME NEW p \in Server, Shutdown(p) PROVE OwnPath'
    BY <1>6, Distinct DEF Shutdown, Wake, Release, RemoveSocket, ClearAdmin, Shaped, OwnPath,
                          Listening
  <1>7. ASSUME NEW p \in Server, Begins(p) \/ Dies(p) \/ Told(p) PROVE OwnPath'
    BY SMTT(60), <1>7, Distinct DEF Begins, Begin, Dies, Told, Shaped, OwnPath, Listening
  <1>8. ASSUME NEW k \in Socket, Tidy(k) PROVE OwnPath'
    BY <1>8 DEF Tidy
  <1>9. CASE Minds
    BY <1>9 DEF Minds, OwnPath
  <1> QED  BY <1>1, <1>2, <1>3, <1>4, <1>5, <1>6, <1>7, <1>8, <1>9, StepKinds
           DEF Kinds, Boot

\* Of all the hazards only deaths are left in what follows.
InPeace ==
    /\ Shaped /\ Booted /\ Made /\ BootsAlone /\ OnDisk /\ OwnPath
    /\ Locked /\ SeenIsSo /\ Apart /\ LateKnown
    /\ {"tidy", "overlap", "amid"} \cap faults = {}

\* Records of different servers differ, and are not the absence of one.
LEMMA OwnDiffers ==
    ASSUME Shaped, NEW p \in Server
    PROVE  /\ Own(p) \in Record /\ Own(p) # None /\ Own(p).pid = p /\ Own(p).socket = sock[p]
           /\ \A q \in Server : Own(q) = Own(p) => q = p
  BY Distinct DEF Own, Record, Shaped

\* A server that boots and one that listens have no store in common once it is claimed.
LEMMA ClaimedIsApart ==
    ASSUME Shaped, Locked, NEW p \in Server, NEW q \in Server, p # q,
           pc[p] \in Booting, todo[p] = {}, pc[q] \in Listening,
           NEW s \in Store, s \in hosted[p]
    PROVE  ~Has(q, s)
  BY OwnDiffers DEF Locked

\* Nobody but its server takes away the record of a store that is served.
LEMMA LockedKept ==
    ASSUME InPeace, Next PROVE Locked'
  <1> USE DEF InPeace
  <1>1. ASSUME UNCHANGED <<sock, record, hosted, making>>,
               \A p \in Server : /\ pc'[p] \in Listening => pc[p] \in Listening
                                 /\ pc'[p] \in Booting => pc[p] \in Booting
                                                          /\ todo'[p] = todo[p]
        PROVE  Locked'
    BY <1>1 DEF Locked, Has, Own
  <1>2. ASSUME NEW c \in Command, Commands(c) PROVE Locked'
    <2>1. CASE record' = record
      BY <1>1, <1>2, <2>1, CommandsKeep
    <2>2. CASE pc[c] = "clear" /\ record' = [record EXCEPT ![at[c]] = None]
      <3>1. \A p \in Server : p # c /\ pc[p] \notin Booting
                              /\ (pc[p] \in Listening => ~Has(p, at[c]))
        BY <2>2, Distinct DEF SeenIsSo, Claiming
      <3>2. \A s \in Store \ {at[c]} : record'[s] = record[s]
        BY <2>2 DEF Shaped
      <3>3. UNCHANGED <<sock, hosted, making>> /\ \A p \in Server : pc'[p] = pc[p]
        BY <1>2, CommandsKeep
      <3> QED  BY <3>1, <3>2, <3>3 DEF Locked, Has, Own
    <2> QED  BY <1>2, <2>1, <2>2, CommandsKeep
  <1>3. ASSUME NEW p \in Server, Knock(p) \/ (\E s \in Store : Load(p, s)) PROVE Locked'
    BY <1>1, <1>3, Distinct DEF Knock, Load, Shaped, Booting, Looking, Listening
  <1>4. ASSUME NEW p \in Server, ClearStale(p) \/ ClaimNext(p) PROVE Locked'
    <2>1. /\ at[p] \in todo[p] /\ at[p] \in Store
          /\ \A q \in Server \ {p} : pc[q] \notin Booting
          /\ \A q \in Server \ {p} : pc[q] \in Listening => ~Has(q, at[p])
      BY <1>4, Distinct DEF ClearStale, ClaimNext, Booted, Shaped, SeenIsSo, BootsAlone,
                            Looking, Booting, Over
    <2>2. /\ UNCHANGED <<sock, hosted, making>>
          /\ \A q \in Server \ {p} : pc'[q] = pc[q] /\ todo'[q] = todo[q]
          /\ \A s \in Store \ {at[p]} : record'[s] = record[s]
          /\ pc[p] \in Booting /\ pc'[p] \in Booting /\ pc'[p] \notin Listening
      BY <1>4, Distinct DEF ClearStale, ClaimNext, Shaped, Looking, Booting, Listening
    <2>3. \/ todo'[p] = todo[p]
          \/ todo'[p] = todo[p] \ {at[p]} /\ record'[at[p]] = Own(p)
      BY <1>4, <2>1 DEF ClearStale, ClaimNext, Own, Shaped
    <2> QED  BY <2>1, <2>2, <2>3 DEF Locked, Has, Own
  <1>5. ASSUME NEW p \in Server, Probe(p) \/ BindFails(p) PROVE Locked'
    <2>1. CASE UNCHANGED record
      BY <1>1, <1>5, <2>1, Distinct DEF Probe, BindFails, Shaped, Booting, Listening
    <2>2. CASE record' = Released(p) /\ pc' = [pc EXCEPT ![p] = "failed"]
      <3>1. pc[p] \in Booting /\ todo[p] = {}
        BY <1>5 DEF Probe, BindFails, Booted, Booting
      <3>2. \A q \in Server \ {p}, s \in Store :
                pc[q] \in Listening /\ Has(q, s) => s \notin hosted[p]
        BY <3>1, ClaimedIsApart
      <3>3. /\ UNCHANGED <<sock, hosted, making>> /\ pc'[p] = "failed"
            /\ \A q \in Server \ {p} : pc'[q] = pc[q] /\ pc[q] \notin Booting
        BY <1>5, <2>2, <3>1, Distinct DEF Probe, BindFails, Shaped, BootsAlone, Booting, Over, Looking
      <3> QED  BY <2>2, <3>2, <3>3 DEF Locked, Has, Own, Released, Listening, Booting, Looking
    <2> QED  BY <1>5, <2>1, <2>2 DEF Probe, BindFails
  <1>6. ASSUME NEW p \in Server, Unlink(p) \/ Announce(p) PROVE Locked'
    BY <1>1, <1>6, Distinct DEF Unlink, Announce, Shaped, Booting, Listening, Looking
  <1>7. ASSUME NEW p \in Server, Bind(p) PROVE Locked'
    <2>1. /\ pc[p] \in Booting /\ todo[p] = {} /\ making[p] = NotMaking
          /\ UNCHANGED <<sock, record, hosted, making, todo>>
          /\ pc'[p] = "bound" /\ \A q \in Server \ {p} : pc'[q] = pc[q]
      BY <1>7, Distinct DEF Bind, Booted, Made, Shaped, Booting, Announced, Releasing
    <2> QED  BY <2>1 DEF Locked, Has, Own, NotMaking, Booting, Looking
  <1>8. ASSUME NEW p \in Server, CreateInit(p) \/ RestoreFails(p) PROVE Locked'
    BY SMTT(60), <1>8 DEF CreateInit, RestoreFails, Shaped, Making, NotMaking, Locked, Has, Own
  <1>9. ASSUME NEW p \in Server, AdoptClaim(p) PROVE Locked'
    <2> DEFINE s == making[p].store
    <2>1. /\ s \in Store /\ pc[p] \in Announced \cup Releasing \cup {"killed"}
          /\ \A q \in Server : q # p => ~Has(q, s)
          /\ s \notin hosted[p] /\ \A q \in Server : pc[q] \notin Booting
      <3>1. making[p] # NotMaking /\ making[p] \in Making
        BY <1>9 DEF AdoptClaim, Shaped, NotMaking
      <3>2. pc[p] \in Announced \cup Releasing \cup {"killed"}
        BY <3>1 DEF Made
      <3>3. \A q \in Server \ {p} : pc[q] \notin Booting
        BY <3>1 DEF BootsAlone
      <3>4. s \notin hosted[p] /\ \A q \in Server : q # p => ~Has(q, s)
        BY <1>9 DEF AdoptClaim, OnDisk, Has
      <3> QED  BY <3>1, <3>2, <3>3, <3>4 DEF Making, Announced, Releasing, Booting, Looking
    <2>2. /\ UNCHANGED <<sock, hosted, pc>>
          /\ \A q \in Server \ {p} : making'[q] = making[q]
          /\ making'[p].store = s
          /\ \A t \in Store \ {s} : record'[t] = record[t]
          /\ pc[p] \in Listening => record'[s] = Own(p)
      BY <1>9, <2>1 DEF AdoptClaim, ServingFlag, Shaped, Own, Making, NotMaking, Listening,
                        Announced, Releasing
    <2> HIDE DEF s
    <2> QED  BY <2>1, <2>2 DEF Locked, Has, Own
  <1>10. ASSUME NEW p \in Server, AdoptInsert(p) PROVE Locked'
    <2>1. making[p].at = "insert" /\ making[p] \in Making
      BY <1>10 DEF AdoptInsert, Shaped, NotMaking
    <2>2. \A q \in Server, t \in Store : Has(q, t)' => Has(q, t)
      BY <1>10, <2>1 DEF AdoptInsert, Shaped, Making, NotMaking, Has
    <2>3. UNCHANGED <<sock, pc, record, todo>> /\ \A q \in Server \ {p} : hosted'[q] = hosted[q]
      BY <1>10 DEF AdoptInsert, Shaped
    <2>4. pc[p] \notin Booting
      BY <2>1 DEF Made, NotMaking, Announced, Releasing, Booting, Looking
    <2> QED  BY <2>2, <2>3, <2>4 DEF Locked, Own
  <1>11. ASSUME NEW p \in Server, Wake(p) \/ RemoveSocket(p) \/ ClearAdmin(p) PROVE Locked'
    BY <1>1, <1>11, Distinct DEF Wake, RemoveSocket, ClearAdmin, Shaped, Listening, Booting,
                                 Looking
  <1>12. ASSUME NEW p \in Server, Release(p) PROVE Locked'
    <2>1. ASSUME NEW q \in Server \ {p}, NEW s \in Store, pc[q] \in Listening, Has(q, s)
          PROVE  s \notin hosted[p]
      BY <1>12, <2>1 DEF Release, Apart, Has, OnDisk
    <2>2. \A q \in Server \ {p} : pc[q] \notin Booting
      BY <1>12 DEF Release, BootsAlone, Over
    <2>3. /\ UNCHANGED <<sock, hosted, making>> /\ pc'[p] = "releasing"
          /\ \A q \in Server \ {p} : pc'[q] = pc[q]
          /\ record' = Released(p)
      BY <1>12, Distinct DEF Release, Shaped
    <2> QED  BY <2>1, <2>2, <2>3 DEF Locked, Has, Own, Released, Listening, Booting, Looking
  <1>13. ASSUME NEW p \in Server, Begins(p) PROVE Locked'
    <2>1. /\ UNCHANGED <<sock, record, making>> /\ hosted'[p] = todo'[p]
          /\ \A q \in Server \ {p} : /\ pc'[q] = pc[q] /\ hosted'[q] = hosted[q]
                                     /\ todo'[q] = todo[q]
          /\ pc'[p] \notin Listening
      BY <1>13, Distinct DEF Begins, Begin, Shaped, Listening
    <2> QED  BY <2>1 DEF Locked, Has, Own
  <1>14. ASSUME NEW p \in Server, Dies(p) \/ Told(p) PROVE Locked'
    BY <1>1, <1>14, Distinct DEF Dies, Told, Shaped, Listening, Booting, Looking
  <1>15. ASSUME NEW p \in Server, NEW s \in Store, CreateBegin(p, s) PROVE Locked'
    BY <1>15 DEF CreateBegin, Shaped, Locked, Has, Own, NotMaking
  <1>16. CASE Minds \/ \E k \in Socket : Tidy(k)
    BY <1>1, <1>16 DEF Minds, Tidy
  <1> QED  BY <1>2, <1>3, <1>4, <1>5, <1>6, <1>7, <1>8, <1>9, <1>10, <1>11, <1>12, <1>13,
              <1>14, <1>15, <1>16, StepKinds DEF Kinds, Look, Boot, Create, Shutdown

\* A listener can be seen at the path its record names.
LEMMA OwnAnswers ==
    ASSUME Shaped, OwnPath, NEW p \in Server, pc[p] \in Listening
    PROVE  IsListening(Own(p).socket)
  BY Distinct, OwnDiffers DEF OwnPath, IsListening

\* What a looker was told stays so until it acts on it.
LEMMA SeenIsSoKept ==
    ASSUME InPeace, Next PROVE SeenIsSo'
  <1> USE DEF InPeace
  <1>1. ASSUME UNCHANGED <<sock, seen, at>>,
               \A s \in Store : s \in exists => s \in exists',
               \A p \in Server : making'[p].at = "adopt" => making'[p] = making[p],
               \A p \in Server, s \in Store : Has(p, s)' => Has(p, s),
               \A p \in Server : /\ pc'[p] \in Listening => pc[p] \in Listening
                                 /\ pc'[p] \in Claiming => pc[p] \in Claiming,
               \A a \in Looker : pc'[a] \in {"knock", "clear", "clean"} => pc'[a] = pc[a]
        PROVE  SeenIsSo'
    <2>1. \A a \in Looker, p \in Server :
              pc[a] \in {"knock", "clear"} \/ (pc[a] = "clean" /\ a \in Server)
                => (Has(p, at[a])' => Has(p, at[a]))
      BY <1>1 DEF Booted, Looking, Shaped
    <2>2. \A c \in Command : pc[c] \in {"knock", "clear"} => at[c] \in Store
      BY DEF Booted
    <2> QED  BY <1>1, <2>1, <2>2 DEF SeenIsSo, Own
  <1>2. ASSUME NEW a \in Looker, NEW s \in Store, Load(a, s) PROVE SeenIsSo'
    <2>1. /\ UNCHANGED <<sock, exists, hosted, making, record>> /\ at'[a] = s
          /\ seen'[a] = record[s]
          /\ pc'[a] = IF record[s] = None THEN "clean" ELSE "knock"
          /\ \A b \in Looker \ {a} : /\ pc'[b] = pc[b] /\ at'[b] = at[b]
                                     /\ seen'[b] = seen[b]
          /\ pc[a] = "load"
      BY <1>2 DEF Load, Shaped
    <2>2. ASSUME NEW p \in Server, pc[p] \in Listening, p # a, Has(p, s)
          PROVE  record[s] = Own(p) /\ record[s] # None
      BY <2>2, OwnDiffers DEF Locked
    <2>3. a \in Command => \A p \in Server : pc[p] \notin Claiming /\ p # a
      BY <1>2, Distinct DEF Load, Claiming
    <2>4. record[s] # None => s \in exists /\ \A p \in Server : making[p].at = "adopt" => making[p].store # s
      BY DEF OnDisk
    <2>5. \A p \in Server : /\ pc'[p] \in Listening => pc[p] \in Listening
                            /\ pc'[p] \in Claiming => pc[p] \in Claiming
      BY <2>1 DEF Listening, Claiming, Booting, Looking
    <2> QED  BY <2>1, <2>2, <2>3, <2>4, <2>5 DEF SeenIsSo, Has, Own
  <1>3. ASSUME NEW a \in Looker, Knock(a) PROVE SeenIsSo'
    <2>1. /\ UNCHANGED <<sock, exists, hosted, making, at, seen>>
          /\ pc[a] = "knock" /\ pc'[a] \in {"refused", "clear"}
          /\ \A b \in Looker \ {a} : pc'[b] = pc[b]
      BY <1>3 DEF Knock, Shaped
    <2>2. ASSUME pc'[a] = "clear", NEW p \in Server, pc[p] \in Listening, p # a
          PROVE  ~Has(p, at[a])
      <3>1. ~IsListening(seen[a].socket)
        BY <1>3, <2>2 DEF Knock, Shaped
      <3> QED  BY <2>1, <2>2, <3>1, OwnAnswers DEF SeenIsSo
    <2>3. \A p \in Server : /\ pc'[p] \in Listening => pc[p] \in Listening
                            /\ pc'[p] \in Claiming => pc[p] \in Claiming
      BY <2>1 DEF Listening, Claiming, Booting, Looking
    <2> QED  BY <2>1, <2>2, <2>3 DEF SeenIsSo, Has, Own
  <1>4. ASSUME NEW a \in Looker, ClearStale(a) PROVE SeenIsSo'
    <2>1. /\ UNCHANGED <<sock, exists, hosted, making, at, seen>>
          /\ pc[a] = "clear" /\ pc'[a] = "clean"
          /\ \A b \in Looker \ {a} : pc'[b] = pc[b]
      BY <1>4 DEF ClearStale, Shaped
    <2>2. \A p \in Server : /\ pc'[p] \in Listening => pc[p] \in Listening
                            /\ pc'[p] \in Claiming => pc[p] \in Claiming
      BY <2>1 DEF Listening, Claiming, Booting, Looking
    <2> QED  BY <2>1, <2>2 DEF SeenIsSo, Has, Own
  <1>5. ASSUME NEW p \in Server, Boot(p), ~Bind(p) PROVE SeenIsSo'
    <2>1. \A q \in Server, s \in Store : Has(q, s)' => Has(q, s)
      BY <1>5 DEF Boot, ClaimNext, Probe, Unlink, BindFails, Announce, Has
    <2> QED  BY <1>1, <1>5, <2>1, Distinct
             DEF Boot, ClaimNext, Probe, Unlink, BindFails, Announce, Shaped, Listening,
                 Claiming, Booting, Looking
  <1>6. ASSUME NEW p \in Server, Bind(p) PROVE SeenIsSo'
    <2>1. /\ UNCHANGED <<sock, exists, hosted, making, at, seen>>
          /\ pc[p] = "bind" /\ pc'[p] = "bound" /\ p \in Looker
          /\ \A b \in Looker \ {p} : pc'[b] = pc[b]
      BY <1>6, Distinct DEF Bind, Shaped
    <2>2. \A q \in Server \ {p} : pc[q] \in {"idle", "serving"} \cup Over
      BY <2>1 DEF BootsAlone, Booting
    <2>3. \A c \in Command : pc[c] \notin {"knock", "clear"}
      BY <2>1 DEF SeenIsSo, Claiming, Booting
    <2> QED  BY <2>1, <2>2, <2>3, Distinct DEF SeenIsSo, Has, Own, Over
  <1>7. ASSUME NEW p \in Server, CreateInit(p) PROVE SeenIsSo'
    <2>1. CASE making[p].store \in exists
      <3>1. \A q \in Server, s \in Store : Has(q, s)' => Has(q, s)
        BY <1>7, <2>1 DEF CreateInit, Shaped, NotMaking, Has
      <3> QED  BY <1>1, <1>7, <2>1, <3>1 DEF CreateInit, Shaped, NotMaking
    <2>2. CASE making[p].store \notin exists
      <3>1. making[p] \in Making
        BY <1>7 DEF CreateInit, Shaped, NotMaking
      <3>2. /\ UNCHANGED <<sock, hosted, at, seen, pc>>
            /\ exists \subseteq exists' /\ making'[p].store = making[p].store
            /\ making'[p].at = "adopt"
            /\ \A q \in Server \ {p} : making'[q] = making[q]
        BY <1>7, <2>2, <3>1 DEF CreateInit, Shaped, Making
      <3>3. \A c \in Command : pc[c] \in {"knock", "clear"} => making[p].store # at[c]
        BY <2>2 DEF SeenIsSo
      <3> QED  BY <3>2, <3>3 DEF SeenIsSo, Has, Own
    <2> QED  BY <2>1, <2>2
  <1>8. ASSUME NEW p \in Server, RestoreFails(p) PROVE SeenIsSo'
    <2>1. \A c \in Command : pc[c] \in {"knock", "clear"} => making[p].store # at[c]
      BY <1>8 DEF RestoreFails, SeenIsSo
    <2>2. /\ UNCHANGED <<sock, hosted, at, seen, pc>>
          /\ exists' = exists \ {making[p].store} /\ making'[p] = NotMaking
          /\ \A q \in Server \ {p} : making'[q] = making[q]
      BY <1>8 DEF RestoreFails, Shaped
    <2> QED  BY <2>1, <2>2 DEF SeenIsSo, Has, Own, NotMaking
  <1>9. ASSUME NEW p \in Server, AdoptClaim(p) PROVE SeenIsSo'
    <2>1. making[p] \in Making /\ making[p] # NotMaking
      BY <1>9 DEF AdoptClaim, Shaped, NotMaking
    <2>2. \A c \in Command : pc[c] \in {"knock", "clear"} => making[p].store # at[c]
      BY <1>9 DEF AdoptClaim, SeenIsSo
    <2>3. \A q \in Server \ {p} : pc[q] \notin {"knock", "clear", "clean"}
      BY <2>1 DEF BootsAlone, Booting, Looking
    <2>4. /\ UNCHANGED <<sock, exists, hosted, at, seen, pc>>
          /\ making'[p].store = making[p].store /\ making'[p].at = "insert"
          /\ \A q \in Server \ {p} : making'[q] = making[q]
      BY <1>9, <2>1 DEF AdoptClaim, Shaped, Making
    <2> QED  BY <2>2, <2>3, <2>4, Distinct DEF SeenIsSo, Has, Own
  <1>10. ASSUME NEW p \in Server, AdoptInsert(p) PROVE SeenIsSo'
    <2>1. making[p].at = "insert" /\ making[p] \in Making
      BY <1>10 DEF AdoptInsert, Shaped, NotMaking
    <2>2. \A q \in Server, t \in Store : Has(q, t)' => Has(q, t)
      BY <1>10, <2>1 DEF AdoptInsert, Shaped, Making, NotMaking, Has
    <2>3. \A q \in Server : making'[q].at = "adopt" => making'[q] = making[q]
      BY <1>10, <2>1 DEF AdoptInsert, Shaped, Making, NotMaking
    <2> QED  BY <1>1, <1>10, <2>2, <2>3 DEF AdoptInsert
  <1>11. ASSUME NEW p \in Server, Shutdown(p) \/ Dies(p) \/ Told(p) PROVE SeenIsSo'
    <2>1. \A q \in Server, s \in Store : Has(q, s)' => Has(q, s)
      BY <1>11 DEF Shutdown, Wake, Release, RemoveSocket, ClearAdmin, Dies, Told, Has
    <2> QED  BY <1>1, <1>11, <2>1, Distinct
             DEF Shutdown, Wake, Release, RemoveSocket, ClearAdmin, Dies, Told, Shaped,
                 Listening, Claiming, Booting, Looking
  <1>12. ASSUME NEW p \in Server, Begins(p) PROVE SeenIsSo'
    <2>1. \A c \in Command : pc[c] \notin {"knock", "clear"}
      BY <1>12 DEF Begins, Begin, InOrder
    <2>2. /\ UNCHANGED <<sock, exists, making, at, seen>>
          /\ pc'[p] \in {"probe", "load"} /\ p \in Looker
          /\ \A b \in Looker \ {p} : pc'[b] = pc[b]
          /\ \A q \in Server \ {p} : hosted'[q] = hosted[q]
      BY <1>12, Distinct DEF Begins, Begin, Shaped
    <2> QED  BY <2>1, <2>2, Distinct DEF SeenIsSo, Has, Own, Listening
  <1>13. ASSUME NEW p \in Server, NEW s \in Store, CreateBegin(p, s) PROVE SeenIsSo'
    <2>1. \A q \in Server, t \in Store : Has(q, t)' => Has(q, t)
      BY <1>13 DEF CreateBegin, Shaped, Has
    <2> QED  BY <1>1, <1>13, <2>1 DEF CreateBegin, Shaped
  <1>14. CASE Minds \/ \E k \in Socket : Tidy(k)
    <2>1. \A q \in Server, s \in Store : Has(q, s)' => Has(q, s)
      BY <1>14 DEF Minds, Tidy, Has
    <2> QED  BY <1>1, <1>14, <2>1 DEF Minds, Tidy
  <1>15. ASSUME NEW c \in Command, Enter(c) \/ CreateDirect(c) \/ Leave(c) \/
                \E s \in Store : CommandBegin(c, s) \/ CreateAsk(c, s)
         PROVE  SeenIsSo'
    <2>1. /\ UNCHANGED <<sock, hosted, making>> /\ exists \subseteq exists'
          /\ pc'[c] \in {"inside", "idle", "load", "creating"} /\ c \notin Server
          /\ \A b \in Looker \ {c} : /\ pc'[b] = pc[b] /\ at'[b] = at[b]
                                     /\ seen'[b] = seen[b]
      BY <1>15, Distinct DEF Enter, CreateDirect, Leave, CommandBegin, CreateAsk, Shaped
    <2> QED  BY <2>1 DEF SeenIsSo, Has, Own
  <1> QED  BY <1>2, <1>3, <1>4, <1>5, <1>6, <1>7, <1>8, <1>9, <1>10, <1>11, <1>12, <1>13,
              <1>14, <1>15, StepKinds DEF Kinds, Commands, Look, Create

\* A server that starts to listen has claimed all it hosts, and no store that another one
\* serves: that one's record would be there.
LEMMA ApartKept ==
    ASSUME InPeace, Next PROVE Apart'
  <1> USE DEF InPeace
  <1> DEFINE Holding == Listening \cup {"draining"}
  <1>1. ASSUME UNCHANGED hosted,
               \A p \in Server : pc'[p] \in Holding => pc[p] \in Holding
        PROVE  Apart'
    BY <1>1 DEF Apart
  <1>2. ASSUME NEW c \in Command, Commands(c) PROVE Apart'
    BY <1>1, <1>2, CommandsKeep
  <1>3. ASSUME NEW p \in Server, Look(p) \/ (Boot(p) /\ ~Bind(p)) PROVE Apart'
    BY <1>1, <1>3, Distinct DEF Look, Load, Knock, ClearStale, Boot, ClaimNext, Probe, Unlink,
                                BindFails, Announce, Shaped, Listening
  <1>4. ASSUME NEW p \in Server, Bind(p) PROVE Apart'
    <2>1. /\ pc[p] \in Booting /\ todo[p] = {} /\ UNCHANGED hosted
          /\ \A q \in Server \ {p} : pc'[q] = pc[q]
      BY <1>4, Distinct DEF Bind, Booted, Shaped, Booting
    <2>2. \A q \in Server \ {p} : pc[q] \in {"idle", "serving"} \cup Over
      BY <2>1 DEF BootsAlone
    <2>3. ASSUME NEW q \in Server \ {p}, pc[q] \in Holding
          PROVE  hosted[p] \cap hosted[q] = {}
      <3>1. pc[q] \in Listening
        BY <2>2, <2>3 DEF Over, Listening
      <3>2. \A s \in Store : s \in hosted[p] => s \notin hosted[q]
        BY <2>1, <3>1, ClaimedIsApart DEF Has
      <3> QED  BY <3>2 DEF Shaped
    <2> QED  BY <2>1, <2>3 DEF Apart
  <1>5. ASSUME NEW p \in Server, AdoptInsert(p) PROVE Apart'
    <2>1. \A q \in Server : making[p].store \notin hosted[q]
      BY <1>5 DEF AdoptInsert, OnDisk
    <2>2. /\ hosted'[p] = hosted[p] \cup {making[p].store} /\ pc' = pc
          /\ \A q \in Server \ {p} : hosted'[q] = hosted[q]
      BY <1>5 DEF AdoptInsert, Shaped
    <2> QED  BY <2>1, <2>2 DEF Apart
  <1>6. ASSUME NEW p \in Server, Create(p), ~AdoptInsert(p) PROVE Apart'
    BY <1>1, <1>6 DEF Create, CreateInit, RestoreFails, AdoptClaim
  <1>7. ASSUME NEW p \in Server, Shutdown(p) \/ Dies(p) \/ Told(p) PROVE Apart'
    BY <1>1, <1>7, Distinct DEF Shutdown, Wake, Release, RemoveSocket, ClearAdmin, Dies, Told,
                                Shaped, Listening
  <1>8. ASSUME NEW p \in Server, Begins(p) PROVE Apart'
    <2>1. /\ pc'[p] \in {"probe", "load"}
          /\ \A q \in Server \ {p} : pc'[q] = pc[q] /\ hosted'[q] = hosted[q]
      BY <1>8, Distinct DEF Begins, Begin, Shaped
    <2> QED  BY <2>1 DEF Apart, Listening
  <1>9. CASE \/ Minds \/ \E k \in Socket : Tidy(k)
             \/ \E p \in Server, s \in Store : CreateBegin(p, s)
    BY <1>1, <1>9 DEF Minds, Tidy, CreateBegin
  <1> QED  BY <1>2, <1>3, <1>4, <1>5, <1>6, <1>7, <1>8, <1>9, StepKinds DEF Kinds

\* A command that looked while a server was serving gets that server's record and is
\* told so by its socket, unless the server stopped serving before.
LEMMA LateKnownKept ==
    ASSUME InPeace, Next PROVE LateKnown'
  <1> USE DEF InPeace
  <1>1. ASSUME UNCHANGED <<sock, late, seen>>,
               \A p \in Server : /\ pc'[p] = "serving" => pc[p] \in {"serving", "bound"}
                                 /\ pc'[p] \in Claiming \cup {"idle"}
                                       => pc[p] \in Claiming \cup {"idle"},
               \A c \in Command : pc'[c] = pc[c]
        PROVE  LateKnown'
    <2>1. \A c \in Command : late[c] \subseteq Server
      BY DEF Shaped
    <2> QED  BY <1>1, <2>1 DEF LateKnown, Own, Claiming
  <1>2. ASSUME NEW c \in Command, NEW s \in Store, Load(c, s) PROVE LateKnown'
    <2>1. /\ UNCHANGED <<sock, record>> /\ seen'[c] = record[s]
          /\ late'[c] = {p \in Server : pc[p] = "serving" /\ s \in hosted[p]}
          /\ pc'[c] = IF record[s] = None THEN "clean" ELSE "knock"
          /\ \A d \in Command \ {c} : /\ pc'[d] = pc[d] /\ seen'[d] = seen[d]
                                      /\ late'[d] = late[d]
          /\ \A p \in Server : pc'[p] = pc[p]
      BY <1>2, Distinct DEF Load, Shaped
    <2>2. \A p \in late'[c] : /\ p \in Server /\ pc[p] = "serving"
                              /\ record[s] = Own(p) /\ record[s] # None
      BY <2>1, OwnDiffers DEF Locked, Listening, Has
    <2>3. \A d \in Command : late[d] \subseteq Server
      BY DEF Shaped
    <2> QED  BY <2>1, <2>2, <2>3 DEF LateKnown, Own, Claiming, Booting, Looking
  <1>3. ASSUME NEW c \in Command, Knock(c) PROVE LateKnown'
    <2>1. /\ UNCHANGED <<sock, seen, late>> /\ pc[c] = "knock"
          /\ pc'[c] = IF IsListening(seen[c].socket) THEN "refused" ELSE "clear"
          /\ \A d \in Command \ {c} : pc'[d] = pc[d]
          /\ \A p \in Server : pc'[p] = pc[p]
          /\ \A d \in Command : late[d] \subseteq Server
      BY <1>3, Distinct DEF Knock, Shaped
    <2>2. ASSUME NEW p \in late[c], pc[p] = "serving" PROVE pc'[c] = "refused"
      BY <2>1, <2>2, OwnAnswers DEF LateKnown, Listening
    <2> QED  BY <2>1, <2>2 DEF LateKnown, Own
  <1>4. ASSUME NEW c \in Command, ClearStale(c) \/ Enter(c) \/ CreateDirect(c)
        PROVE  LateKnown'
    <2>1. /\ UNCHANGED <<sock, seen, late>>
          /\ pc[c] \in {"clear", "clean"} \/ pc'[c] = "idle"
          /\ pc'[c] # "knock" /\ \A d \in Command \ {c} : pc'[d] = pc[d]
          /\ \A p \in Server : pc'[p] = pc[p]
          /\ \A d \in Command : late[d] \subseteq Server
      BY <1>4, Distinct DEF ClearStale, Enter, CreateDirect, Shaped
    <2> QED  BY <2>1 DEF LateKnown, Own
  <1>5. ASSUME NEW c \in Command,
               Leave(c) \/ \E s \in Store : CommandBegin(c, s) \/ CreateAsk(c, s)
        PROVE  LateKnown'
    <2>1. /\ UNCHANGED sock /\ pc'[c] \in {"idle", "load", "creating"}
          /\ late'[c] \in {{}, late[c]}
          /\ \A d \in Command \ {c} : /\ pc'[d] = pc[d] /\ seen'[d] = seen[d]
                                      /\ late'[d] = late[d]
          /\ \A p \in Server : pc'[p] = pc[p]
          /\ \A d \in Command : late[d] \subseteq Server
      BY <1>5, Distinct DEF Leave, CommandBegin, CreateAsk, Shaped
    <2> QED  BY <2>1 DEF LateKnown, Own
  <1>6. ASSUME NEW p \in Server, NEW s \in Store, Load(p, s) PROVE LateKnown'
    <2>1. /\ UNCHANGED <<sock, late>> /\ pc[p] = "load" /\ pc'[p] \in {"clean", "knock"}
          /\ \A a \in Looker \ {p} : pc'[a] = pc[a] /\ seen'[a] = seen[a]
          /\ \A d \in Command : d \in Looker \ {p} /\ late[d] \subseteq Server
      BY <1>6, Distinct DEF Load, Shaped
    <2>2. \A d \in Command : p \notin late[d]
      BY <2>1 DEF LateKnown, Claiming, Booting, Looking
    <2> QED  BY <2>1, <2>2 DEF LateKnown, Own
  <1>7. ASSUME NEW p \in Server, Knock(p) \/ ClearStale(p) \/ Boot(p) PROVE LateKnown'
    BY <1>1, <1>7, Distinct DEF Knock, ClearStale, Boot, ClaimNext, Probe, Unlink, BindFails,
                                Bind, Announce, Shaped, Claiming, Booting, Looking
  <1>8. ASSUME NEW p \in Server, Create(p) \/ (\E s \in Store : CreateBegin(p, s))
        PROVE  LateKnown'
    BY <1>1, <1>8 DEF Create, CreateInit, RestoreFails, AdoptClaim, AdoptInsert, CreateBegin
  <1>9. ASSUME NEW p \in Server, Shutdown(p) \/ Begins(p) \/ Dies(p) \/ Told(p)
        PROVE  LateKnown'
    BY <1>1, <1>9, Distinct DEF Shutdown, Wake, Release, RemoveSocket, ClearAdmin, Begins,
                                Begin, Dies, Told, Shaped, Claiming, Booting, Looking
  <1>10. CASE Minds \/ \E k \in Socket : Tidy(k)
    BY <1>1, <1>10 DEF Minds, Tidy
  <1> QED  BY <1>2, <1>3, <1>4, <1>5, <1>6, <1>7, <1>8, <1>9, <1>10, StepKinds
           DEF Kinds, Commands, Look

---------------------------------------------------------------------------
(* The theorems                                                            *)

\* Nothing runs at first, and nothing is locked.
LEMMA InitSafe == Init => ServingSafe
  <1> SUFFICES ASSUME Init PROVE ServingSafe
    OBVIOUS
  <1>1. faults \subseteq Fault
    BY ServingAssumption DEF Init
  <1>2. Shaped
    BY <1>1, ServingAssumption, Distinct DEF Init, Shaped, ServerPc, CommandPc
  <1>3. Booted /\ Made /\ Bound /\ Minted /\ Recorded
    BY DEF Init, Booted, Made, Bound, Minted, Recorded, NotMaking, Looking
  <1>4. BootsAlone /\ Named /\ OnDisk /\ NoneKilled /\ StopsGone /\ OwnPath
    BY Distinct DEF Init, BootsAlone, Named, OnDisk, NoneKilled, StopsGone, OwnPath, NotMaking,
                    NoStop, Booting, Looking, Listening
  <1>5. Locked /\ SeenIsSo /\ Apart /\ LateKnown
    BY DEF Init, Locked, SeenIsSo, Apart, LateKnown, Booting, Looking, Listening
  <1> QED  BY <1>2, <1>3, <1>4, <1>5 DEF ServingSafe

\* The faults of a behaviour never change.
LEMMA FaultsStay == ASSUME Shaped, Next PROVE faults' = faults
  <1>1. ASSUME NEW c \in Command, Commands(c) PROVE faults' = faults
    BY <1>1, CommandsKeep
  <1>2. ASSUME NEW p \in Server, Look(p) \/ Boot(p) \/ Create(p) \/ Shutdown(p)
        PROVE  faults' = faults
    BY <1>2 DEF Look, Load, Knock, ClearStale, Boot, ClaimNext, Probe, Unlink, BindFails, Bind,
                Announce, Create, CreateInit, RestoreFails, AdoptClaim, AdoptInsert, Shutdown,
                Wake, Release, RemoveSocket, ClearAdmin
  <1>3. ASSUME NEW p \in Server, \/ Begins(p) \/ Dies(p) \/ Told(p)
                                 \/ \E s \in Store : CreateBegin(p, s)
        PROVE  faults' = faults
    BY <1>3 DEF Begins, Begin, Dies, Told, CreateBegin
  <1>4. CASE Minds \/ \E k \in Socket : Tidy(k)
    BY <1>4 DEF Minds, Tidy
  <1> QED  BY <1>1, <1>2, <1>3, <1>4, StepKinds DEF Kinds

\* Every step keeps all of it, each part as far as the faults of the behaviour allow.
LEMMA SafeKept == ServingSafe /\ [Next]_vars => ServingSafe'
  <1> SUFFICES ASSUME ServingSafe, [Next]_vars PROVE ServingSafe'
    OBVIOUS
  <1>1. CASE UNCHANGED vars
    <2>1. UNCHANGED <<faults, sock, pc, todo, at, seen, record, file, token, pidfile, exists,
                      hosted, making, launch, stop, late>>
      BY <1>1 DEF vars
    <2>2. Shaped' /\ Booted' /\ Made' /\ Bound' /\ Minted' /\ Recorded'
      BY <2>1 DEF ServingSafe, Shaped, Booted, Made, Bound, Minted, Recorded
    <2>3. Calm({"overlap"})' => BootsAlone' /\ Named' /\ OnDisk'
      BY <2>1 DEF ServingSafe, Calm, BootsAlone, Named, OnDisk
    <2>4. /\ Calm({"kill", "early"})' => NoneKilled'
          /\ Calm({"kill", "early", "overlap"})' => StopsGone'
          /\ Calm({"tidy", "overlap"})' => OwnPath'
      BY <2>1 DEF ServingSafe, Calm, NoneKilled, StopsGone, OwnPath
    <2>5. Calm({"tidy", "overlap", "amid"})' => Locked' /\ SeenIsSo' /\ Apart' /\ LateKnown'
      BY <2>1 DEF ServingSafe, Calm, Locked, SeenIsSo, Apart, LateKnown, Own, Has
    <2> QED  BY <2>2, <2>3, <2>4, <2>5 DEF ServingSafe
  <1>2. CASE Next
    <2>1. Shaped /\ Booted /\ Made /\ Bound /\ Minted /\ Recorded
      BY DEF ServingSafe
    <2>2. faults' = faults
      BY <1>2, <2>1, FaultsStay
    <2>3. Shaped' /\ Booted' /\ Made' /\ Bound' /\ Minted' /\ Recorded'
      BY <1>2, <2>1, ShapedKept, BootedKept, MadeKept, BoundKept, RecordedKept
    <2>4. ASSUME Calm({"overlap"})
          PROVE  BootsAlone' /\ Named' /\ OnDisk'
      <3>1. BootsAlone /\ Named /\ OnDisk /\ "overlap" \notin faults
        BY <2>4 DEF ServingSafe, Calm
      <3> QED  BY <1>2, <2>1, <3>1, BootsAloneKept, NamedKept, OnDiskKept
    <2>5. ASSUME Calm({"kill", "early"}) PROVE NoneKilled'
      <3>1. NoneKilled /\ {"kill", "early"} \cap faults = {}
        BY <2>5 DEF ServingSafe, Calm
      <3> QED  BY <1>2, <2>1, <3>1, NoneKilledKept
    <2>6. ASSUME Calm({"kill", "early", "overlap"}) PROVE StopsGone'
      <3>1. NoneKilled /\ Named /\ StopsGone /\ {"kill", "early"} \cap faults = {}
        BY <2>6 DEF ServingSafe, Calm
      <3> QED  BY <1>2, <2>1, <3>1, StopsGoneKept
    <2>7. ASSUME Calm({"tidy", "overlap"}) PROVE OwnPath'
      <3>1. BootsAlone /\ OwnPath /\ {"tidy", "overlap"} \cap faults = {}
        BY <2>7 DEF ServingSafe, Calm
      <3> QED  BY <1>2, <2>1, <3>1, OwnPathKept
    <2>8. ASSUME Calm({"tidy", "overlap", "amid"})
          PROVE  Locked' /\ SeenIsSo' /\ Apart' /\ LateKnown'
      <3>1. InPeace
        BY <2>1, <2>8 DEF ServingSafe, Calm, InPeace
      <3> QED  BY <1>2, <3>1, LockedKept, SeenIsSoKept, ApartKept, LateKnownKept
    <2>9. \A bad : Calm(bad)' => Calm(bad)
      BY <2>2 DEF Calm
    <2> QED  BY <2>3, <2>4, <2>5, <2>6, <2>7, <2>8, <2>9 DEF ServingSafe
  <1> QED  BY <1>1, <1>2

\* What the code keeps straight, always.
LEMMA AlwaysServingSafe == Spec => []ServingSafe
  BY InitSafe, SafeKept, PTL DEF Spec

\* The files of the data directory say what is so: the stores under what is hosted, the
\* records beside it from the announcement on, a pidfile only for a server that got to
\* listen, and nothing of a server that ran its shutdown (host.rs claim_all,
\* release_all; lifecycle.rs background).
THEOREM FilesAreTrue == Spec => []ServingInv
  <1>1. ServingSafe => ServingInv
    <2> SUFFICES ASSUME ServingSafe PROVE ServingInv
      OBVIOUS
    <2>1. TypeOK
      BY DEF ServingSafe, Shaped, TypeOK, Making
    <2>2. HostedIsThere /\ PidfileNamesServed
      BY DEF ServingSafe, HostedIsThere, OnDisk, PidfileNamesServed, Named
    <2>3. AnnouncedIsLocked
      BY DEF ServingSafe, AnnouncedIsLocked, Locked, Has, Own, Listening, Shaped
    <2>4. NothingLeftBehind
      BY Distinct DEF ServingSafe, NothingLeftBehind, Recorded, Minted, Bound, Announced, Releasing
    <2> QED  BY <2>1, <2>2, <2>3, <2>4 DEF ServingInv
  <1> QED  BY <1>1, AlwaysServingSafe, PTL

\* One process serves a store, and a command works beside none that serves it (host.rs
\* claim_all, serving.rs refuse_if_served).
THEOREM OneProcessServes == Spec => []ServedOnce
  <1>1. ServingSafe => ServedOnce
    BY DEF ServingSafe, ServedOnce, OneServerPerStore, OneProcess, LateCommandsRefused, Apart,
           LateKnown
  <1> QED  BY <1>1, AlwaysServingSafe, PTL

\* When borg-server stop says that a server has stopped, its locks are gone ("gone means
\* gone", lifecycle.rs stop).
THEOREM GoneMeansGone == Spec => []StopMeansReleased
  <1>1. ServingSafe => StopMeansReleased
    BY DEF ServingSafe, StopMeansReleased, StopsGone, Calm, Recorded, Releasing
  <1> QED  BY <1>1, AlwaysServingSafe, PTL
=============================================================================
