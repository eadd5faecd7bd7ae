------------------------------ MODULE Serving ------------------------------
(***************************************************************************)
(* The advisory lock beside every store ("one process serves a store") and *)
(* the life of the processes that take it: servers that boot, announce,    *)
(* make registries and stop, commands that look before they touch a store, *)
(* the launcher that writes the pidfile and the stop that waits.           *)
(*                                                                         *)
(* A record names a socket and a process.  Whether it is live is asked of  *)
(* the socket: somebody must be listening at the path.  Every question to  *)
(* the file system is a step of its own, so what was seen may be stale.    *)
(***************************************************************************)
EXTENDS Naturals, FiniteSets

CONSTANTS
    Server,      \* server processes, each booted at most once
    Command,     \* embedded commands, and create against a stopped server
    Store,       \* stores that exist or can be made under the data directory
    Present,     \* the stores there at the start
    Socket,      \* socket paths
    Addresses,   \* the choices of a socket for every server
    FaultSets,   \* sets of faults; a behaviour has one of them
    None

\* A kill at any time, a socket file removed by somebody, a signal before there is a
\* handler, boots that overlap, and a look of a command amid a boot.
Fault == {"kill", "tidy", "early", "overlap", "amid"}

ASSUME ServingAssumption ==
    /\ Present \subseteq Store /\ Server \cap Command = {}
    /\ None \notin Server \cup Store \cup [socket : Socket, pid : Server]
    /\ Addresses \subseteq [Server -> Socket]
    /\ FaultSets \subseteq SUBSET Fault

VARIABLES
    faults,   \* the faults this behaviour may have
    sock,     \* the socket each server was told to use
    pc,       \* where each server and each command is
    todo,     \* stores a booting server has not claimed, or a command's store
    at,       \* the store a looker is looking at
    seen,     \* the record a looker loaded
    record,   \* the lock record beside each store
    file,     \* the server that bound the socket path, if the path exists
    token,    \* the server whose admin token is in the data directory
    pidfile,
    exists,   \* the stores on disk
    hosted,   \* the registries of each server's host
    making,   \* the registry a server is making, and how far it is
    launch,   \* the launcher of each server
    stop,     \* the process borg-server stop is waiting for, or has stopped
    late      \* the servers that were serving the store when a command looked

look == <<todo, at, seen>>
disk == <<record, file, token, pidfile, exists>>
own  == <<hosted, making, launch, stop, late>>
vars == <<faults, sock, pc, look, disk, own>>

Looker    == Server \cup Command
Record    == [socket : Socket, pid : Server]
Looking   == {"load", "knock", "clear", "clean"}
Booting   == Looking \cup {"probe", "unlink", "bind"}
Over      == {"refused", "failed", "gone", "killed"}
Listening == {"bound", "serving", "stopping", "joining"}
ServerPc  == {"idle", "draining", "releasing", "unbinding"}
                 \cup Booting \cup Listening \cup Over
CommandPc == {"idle", "refused", "asking", "creating", "inside"} \cup Looking
NotMaking == [store |-> None, at |-> "none"]
NoStop    == [pid |-> None, at |-> "idle"]

TypeOK ==
    /\ faults \in SUBSET Fault /\ sock \in [Server -> Socket]
    /\ \A p \in Server : pc[p] \in ServerPc
    /\ \A c \in Command : pc[c] \in CommandPc
    /\ todo \in [Looker -> SUBSET Store] /\ at \in [Looker -> Store \cup {None}]
    /\ seen \in [Looker -> Record \cup {None}]
    /\ record \in [Store -> Record \cup {None}]
    /\ file \in [Socket -> Server \cup {None}]
    /\ {token, pidfile} \subseteq Server \cup {None}
    /\ exists \subseteq Store /\ hosted \in [Server -> SUBSET Store]
    /\ making \in [Server -> [store : Store, at : {"init", "adopt", "insert", "left"}]
                                \cup {NotMaking}]
    /\ launch \in [Server -> {"none", "polling"}]
    /\ stop \in [pid : Server, at : {"signal", "wait", "done"}] \cup {NoStop}
    /\ late \in [Command -> SUBSET Server]

\* Whether a connect to the path is accepted: it was bound, not unlinked since,
\* and the listener that bound it is still open.
IsListening(k) == file[k] # None /\ pc[file[k]] \in Listening

Goes(a, to) == pc' = [pc EXCEPT ![a] = to]

Alive(p) == pc[p] \notin Over \cup {"idle"}

---------------------------------------------------------------------------
(* served_on: load the record, knock on its socket, clear it when nobody   *)
(* answers.  Servers ask it of every store they host, commands of one.     *)

Load(a, s) ==
    /\ pc[a] = "load" /\ s \in todo[a]
    /\ a \in Server \/ "amid" \in faults
         \/ \A p \in Server : pc[p] \notin Booting \cup {"bound"}
    /\ seen' = [seen EXCEPT ![a] = record[s]]
    /\ at' = [at EXCEPT ![a] = s]
    /\ Goes(a, IF record[s] = None THEN "clean" ELSE "knock")
    /\ late' = IF a \in Server THEN late
               ELSE [late EXCEPT ![a] = {p \in Server :
                                  pc[p] = "serving" /\ s \in hosted[p]}]
    /\ UNCHANGED <<faults, sock, todo, disk, hosted, making, launch, stop>>

\* The answer is about the socket the record named when it was loaded.
Knock(a) ==
    /\ pc[a] = "knock"
    /\ Goes(a, IF IsListening(seen[a].socket) THEN "refused" ELSE "clear")
    /\ UNCHANGED <<faults, sock, look, disk, own>>

ClearStale(a) ==
    /\ pc[a] = "clear"
    /\ record' = [record EXCEPT ![at[a]] = None]
    /\ Goes(a, "clean")
    /\ UNCHANGED <<faults, sock, look, file, token, pidfile, exists, own>>

---------------------------------------------------------------------------
(* A server boots: claim every store, then the socket, then announce.      *)

\* Boots are in order unless the behaviour has overlapping ones: the other
\* servers are not started, plainly serving, or over, launchers too; and no command is between
\* its look and its verdict, unless commands may look amid a boot.
InOrder(p) ==
    /\ "amid" \in faults \/ \A c \in Command : pc[c] \notin {"knock", "clear"}
    /\ \/ "overlap" \in faults
       \/ \A q \in Server \ {p} :
             /\ pc[q] \in {"idle", "serving"} \cup Over
             /\ making[q] = NotMaking /\ launch[q] # "polling"

\* Host::open: what is under the data directory now is what will be hosted.
Begin(p) ==
    /\ pc[p] = "idle" /\ InOrder(p)
    /\ hosted' = [hosted EXCEPT ![p] = exists]
    /\ todo' = [todo EXCEPT ![p] = exists]
    /\ Goes(p, IF exists = {} THEN "probe" ELSE "load")
    /\ UNCHANGED <<faults, sock, at, seen, record, file, token, exists, making,
                   stop, late>>

\* Nor is one stopped, or given a registry to make, while another boots.
Undisturbing(p) ==
    "overlap" \in faults \/ \A q \in Server \ {p} : pc[q] \notin Booting

BeginForeground(p) == Begin(p) /\ UNCHANGED <<launch, pidfile>>

\* Mutation: a server asks about every store and claims none.
ClaimNextNot(p) ==
    /\ pc[p] = "clean"
    /\ todo' = [todo EXCEPT ![p] = @ \ {at[p]}]
    /\ Goes(p, IF todo[p] = {at[p]} THEN "probe" ELSE "load")
    /\ UNCHANGED <<faults, sock, at, seen, disk, own>>

\* claim, after the look at the same store: claim_all goes store by store, and
\* a refusal returns at once, whatever it has claimed by then.
ClaimNext(p) ==
    /\ pc[p] = "clean"
    /\ record' = [record EXCEPT ![at[p]] = [socket |-> sock[p], pid |-> p]]
    /\ todo' = [todo EXCEPT ![p] = @ \ {at[p]}]
    /\ Goes(p, IF todo[p] = {at[p]} THEN "probe" ELSE "load")
    /\ UNCHANGED <<faults, sock, at, seen, file, token, pidfile, exists, own>>

\* release_all removes the records of the hosted stores, whoever wrote them.
Released(p) == [s \in Store |-> IF s \in hosted[p] THEN None ELSE record[s]]

\* "Something is already listening": the claims are given back.
Probe(p) ==
    /\ pc[p] = "probe"
    /\ IF IsListening(sock[p])
       THEN record' = Released(p) /\ Goes(p, "failed")
       ELSE UNCHANGED record /\ Goes(p, "unlink")
    /\ UNCHANGED <<faults, sock, look, file, token, pidfile, exists, own>>

Unlink(p) ==
    /\ pc[p] = "unlink" /\ Goes(p, "bind")
    /\ file' = [file EXCEPT ![sock[p]] = None]
    /\ UNCHANGED <<faults, sock, look, record, token, pidfile, exists, own>>

\* A websocket address that cannot be bound, or a socket path that exists again.
BindFails(p) ==
    /\ pc[p] = "bind" /\ Goes(p, "failed")
    /\ record' = Released(p)
    /\ UNCHANGED <<faults, sock, look, file, token, pidfile, exists, own>>

Bind(p) ==
    /\ pc[p] = "bind" /\ file[sock[p]] = None /\ Goes(p, "bound")
    /\ file' = [file EXCEPT ![sock[p]] = p]
    /\ UNCHANGED <<faults, sock, look, record, token, pidfile, exists, own>>

\* The admin token is minted and the signal handler is there from here on.
Announce(p) ==
    /\ pc[p] = "bound" /\ Goes(p, "serving") /\ token' = p
    /\ UNCHANGED <<faults, sock, look, record, file, pidfile, exists, own>>

---------------------------------------------------------------------------
(* A registry made through a server: prepare and init, claim, insert.  The *)
(* session that asked runs on beside a server that is stopping.            *)

CreateBegin(p, s) ==
    /\ pc[p] = "serving" /\ making[p] = NotMaking
    /\ s \notin hosted[p] \cup exists
    /\ Undisturbing(p)
    /\ making' = [making EXCEPT ![p] = [store |-> s, at |-> "init"]]
    /\ UNCHANGED <<faults, sock, pc, look, disk, hosted, launch, stop, late>>

\* init refuses a store that is there by now; else the store file appears.
CreateInit(p) ==
    /\ Alive(p) /\ making[p].at = "init"
    /\ IF making[p].store \in exists
       THEN making' = [making EXCEPT ![p] = NotMaking] /\ UNCHANGED exists
       ELSE /\ exists' = exists \cup {making[p].store}
            /\ making' = [making EXCEPT ![p].at = "adopt"]
    /\ UNCHANGED <<faults, sock, pc, look, record, file, token, pidfile,
                   hosted, launch, stop, late>>

\* A restore that fails removes the store it created and could not finish.
RestoreFails(p) ==
    /\ Alive(p) /\ making[p].at = "adopt"
    /\ exists' = exists \ {making[p].store}
    /\ making' = [making EXCEPT ![p] = NotMaking]
    /\ UNCHANGED <<faults, sock, pc, look, record, file, token, pidfile,
                   hosted, launch, stop, late>>

\* The flag claim_all sets and release_all drops.
ServingFlag(p) == pc[p] \in {"serving", "stopping", "joining", "draining"}

\* Mutation: the registry is hosted and never locked.
AdoptClaimUnlocked(p) ==
    /\ Alive(p) /\ making[p].at = "adopt"
    /\ making' = [making EXCEPT ![p].at = "insert"]
    /\ UNCHANGED <<faults, sock, pc, look, disk, hosted, launch, stop, late>>

AdoptClaim(p) ==
    /\ Alive(p) /\ making[p].at = "adopt"
    /\ record' = IF ServingFlag(p)
                 THEN [record EXCEPT ![making[p].store] =
                           [socket |-> sock[p], pid |-> p]]
                 ELSE record
    /\ making' = [making EXCEPT ![p].at = "insert"]
    /\ UNCHANGED <<faults, sock, pc, look, file, token, pidfile, exists,
                   hosted, launch, stop, late>>

\* "left" remembers a registry that was finished after the release passed it by.
AdoptInsert(p) ==
    /\ Alive(p) /\ making[p].at = "insert"
    /\ hosted' = [hosted EXCEPT ![p] = @ \cup {making[p].store}]
    /\ making' = [making EXCEPT ![p] =
                     IF ServingFlag(p) THEN NotMaking ELSE [@ EXCEPT !.at = "left"]]
    /\ UNCHANGED <<faults, sock, pc, look, disk, launch, stop, late>>

---------------------------------------------------------------------------
(* A server stops: wake the accept loop, join it, drain the pools, release.*)

\* SIGTERM to a process that has its handler; before that it is a death.
Terminated(p) == IF pc[p] = "serving" THEN "stopping" ELSE "killed"

Terminate(p) ==
    /\ pc[p] = "serving" \/ ("early" \in faults /\ pc[p] \in Booting \cup {"bound"})
    /\ Undisturbing(p) /\ Goes(p, Terminated(p))
    /\ UNCHANGED <<faults, sock, look, disk, own>>

\* Mutation: the accept loop is joined whether the wake reached it or not.
WakeAlways(p) ==
    /\ pc[p] = "stopping"
    /\ Goes(p, IF file[sock[p]] = p THEN "draining" ELSE "joining")
    /\ UNCHANGED <<faults, sock, look, disk, own>>

\* The connection that wakes the loop goes to whoever is at the path.  Reached,
\* the loop ends and its listener with it; nobody there, it is not joined; and
\* with another server there the join waits for a loop nothing will wake.
Wake(p) ==
    /\ pc[p] = "stopping"
    /\ Goes(p, IF file[sock[p]] = p \/ ~IsListening(sock[p])
               THEN "draining" ELSE "joining")
    /\ UNCHANGED <<faults, sock, look, disk, own>>

\* After host.shutdown has joined the worker pools: release_all.
Release(p) ==
    /\ pc[p] = "draining" /\ Goes(p, "releasing")
    /\ record' = Released(p)
    /\ UNCHANGED <<faults, sock, look, file, token, pidfile, exists, own>>

RemoveSocket(p) ==
    /\ pc[p] = "releasing" /\ Goes(p, "unbinding")
    /\ file' = [file EXCEPT ![sock[p]] = None]
    /\ UNCHANGED <<faults, sock, look, record, token, pidfile, exists, own>>

ClearAdmin(p) ==
    /\ pc[p] = "unbinding" /\ Goes(p, "gone") /\ token' = None
    /\ UNCHANGED <<faults, sock, look, record, file, pidfile, exists, own>>

---------------------------------------------------------------------------
(* Faults: kill -9, and somebody removing the socket file of a live server.*)

Kill(p) ==
    /\ "kill" \in faults /\ Alive(p) /\ Goes(p, "killed")
    /\ UNCHANGED <<faults, sock, look, disk, own>>

Tidy(k) ==
    /\ "tidy" \in faults /\ file[k] # None /\ pc[file[k]] = "serving"
    /\ file' = [file EXCEPT ![k] = None]
    /\ UNCHANGED <<faults, sock, pc, look, record, token, pidfile, exists, own>>

---------------------------------------------------------------------------
(* Commands: an embedded command looks at one store and works in it; and   *)
(* borg-server create makes a store itself when nobody listens.            *)

CommandBegin(c, s) ==
    /\ pc[c] = "idle" /\ s \in exists
    /\ todo' = [todo EXCEPT ![c] = {s}] /\ Goes(c, "load")
    /\ UNCHANGED <<faults, sock, at, seen, disk, own>>

Enter(c) ==
    /\ pc[c] = "clean" /\ Goes(c, "inside")
    /\ UNCHANGED <<faults, sock, look, disk, own>>

CreateAsk(c, s) ==
    /\ pc[c] = "idle" /\ s \notin exists
    /\ \E k \in Socket : ~IsListening(k)
    /\ todo' = [todo EXCEPT ![c] = {s}] /\ Goes(c, "creating")
    /\ UNCHANGED <<faults, sock, at, seen, disk, own>>

CreateDirect(c) ==
    /\ pc[c] = "creating" /\ Goes(c, "idle")
    /\ exists' = exists \cup todo[c]
    /\ todo' = [todo EXCEPT ![c] = {}]
    /\ UNCHANGED <<faults, sock, at, seen, record, file, token, pidfile, own>>

Leave(c) ==
    /\ pc[c] \in {"inside", "refused"} /\ Goes(c, "idle")
    /\ todo' = [todo EXCEPT ![c] = {}]
    /\ seen' = [seen EXCEPT ![c] = None] /\ at' = [at EXCEPT ![c] = None]
    /\ late' = [late EXCEPT ![c] = {}]
    /\ UNCHANGED <<faults, sock, disk, hosted, making, launch, stop>>

---------------------------------------------------------------------------
(* borg-server start in the background, and borg-server stop.              *)

Start(p) ==
    /\ ~IsListening(sock[p])
    /\ Begin(p) /\ UNCHANGED pidfile
    /\ launch' = [launch EXCEPT ![p] = "polling"]

\* Somebody answers on the socket: the pidfile names the child.
StartAnswered(p) ==
    /\ launch[p] = "polling" /\ IsListening(sock[p])
    /\ launch' = [launch EXCEPT ![p] = "none"] /\ pidfile' = p
    /\ UNCHANGED <<faults, sock, pc, look, record, file, token, exists,
                   hosted, making, stop, late>>

\* The child died before it answered.
StartDied(p) ==
    /\ launch[p] = "polling" /\ pc[p] \in Over
    /\ launch' = [launch EXCEPT ![p] = "none"]
    /\ UNCHANGED <<faults, sock, pc, look, disk, hosted, making, stop, late>>

\* Out of patience: the child is killed.
StartTimedOut(p) ==
    /\ launch[p] = "polling" /\ "kill" \in faults /\ Alive(p)
    /\ launch' = [launch EXCEPT ![p] = "none"] /\ Goes(p, "killed")
    /\ UNCHANGED <<faults, sock, look, disk, hosted, making, stop, late>>

\* A pidfile nobody answers for is removed instead of signalled.
StopLook(k) ==
    /\ stop.at \in {"idle", "done"} /\ pidfile # None
    /\ IF IsListening(k)
       THEN /\ stop' = [pid |-> pidfile, at |-> "signal"] /\ UNCHANGED pidfile
       ELSE /\ stop' = NoStop /\ pidfile' = None
    /\ UNCHANGED <<faults, sock, pc, look, record, file, token, exists,
                   hosted, making, launch, late>>

StopSignal ==
    /\ stop.at = "signal"
    /\ "early" \in faults \/ pc[stop.pid] \notin Booting \cup {"bound"}
    /\ Undisturbing(stop.pid)
    /\ IF Alive(stop.pid)
       THEN /\ Goes(stop.pid, IF pc[stop.pid] \in Booting \cup {"bound", "serving"}
                              THEN Terminated(stop.pid) ELSE pc[stop.pid])
            /\ stop' = [stop EXCEPT !.at = "wait"]
       ELSE stop' = NoStop /\ UNCHANGED pc
    /\ UNCHANGED <<faults, sock, look, disk, hosted, making, launch, late>>

\* Mutation: stop waits until the socket is quiet.
StopSeesGoneBySocket ==
    /\ stop.at = "wait" /\ ~IsListening(sock[stop.pid])
    /\ stop' = [stop EXCEPT !.at = "done"] /\ pidfile' = None
    /\ UNCHANGED <<faults, sock, pc, look, record, file, token, exists,
                   hosted, making, launch, late>>

\* stop waits for the process, and then removes the pidfile.
StopSeesGone ==
    /\ stop.at = "wait" /\ ~Alive(stop.pid)
    /\ stop' = [stop EXCEPT !.at = "done"] /\ pidfile' = None
    /\ UNCHANGED <<faults, sock, pc, look, record, file, token, exists,
                   hosted, making, launch, late>>

---------------------------------------------------------------------------
Init ==
    /\ faults \in FaultSets /\ sock \in Addresses
    /\ pc = [a \in Looker |-> "idle"] /\ todo = [a \in Looker |-> {}]
    /\ seen = [a \in Looker |-> None] /\ at = [a \in Looker |-> None]
    /\ record = [s \in Store |-> None] /\ file = [k \in Socket |-> None]
    /\ token = None /\ pidfile = None /\ exists = Present
    /\ hosted = [p \in Server |-> {}] /\ making = [p \in Server |-> NotMaking]
    /\ launch = [p \in Server |-> "none"] /\ stop = NoStop
    /\ late = [c \in Command |-> {}]

Look(a) == Knock(a) \/ ClearStale(a) \/ \E s \in Store : Load(a, s)

Boot(p) ==
    \/ ClaimNext(p) \/ Probe(p) \/ Unlink(p) \/ BindFails(p) \/ Bind(p)
    \/ Announce(p)

Create(p) == CreateInit(p) \/ RestoreFails(p) \/ AdoptClaim(p) \/ AdoptInsert(p)

Shutdown(p) == Wake(p) \/ Release(p) \/ RemoveSocket(p) \/ ClearAdmin(p)

Launch(p) ==
    \/ BeginForeground(p) \/ StartAnswered(p) \/ StartDied(p) \/ StartTimedOut(p)
    \/ Start(p)

Next ==
    \/ \E a \in Looker : Look(a)
    \/ \E p \in Server :
          \/ Boot(p) \/ Create(p) \/ Shutdown(p) \/ Launch(p)
          \/ Terminate(p) \/ Kill(p)
          \/ \E s \in Store : CreateBegin(p, s)
    \/ \E k \in Socket : Tidy(k) \/ StopLook(k)
    \/ StopSignal \/ StopSeesGone
    \/ \E c \in Command :
          \/ Enter(c) \/ CreateDirect(c) \/ Leave(c)
          \/ \E s \in Store : CommandBegin(c, s) \/ CreateAsk(c, s)

\* A live process goes on by itself; nobody is obliged to boot or to stop one.
Spec == Init /\ [][Next]_vars
             /\ \A p \in Server : WF_vars(Shutdown(p)) /\ WF_vars(Create(p))

---------------------------------------------------------------------------
(* Properties *)

Calm(bad) == faults \cap bad = {}

\* A command that looked at a store after a server said it was serving it never
\* works in that store while that server is still serving (refuse_if_served).
LateCommandsRefused ==
    Calm({"tidy", "overlap", "amid"}) =>
        \A c \in Command, p \in Server :
            pc[c] = "inside" /\ p \in late[c] => pc[p] # "serving"

\* From the announcement on, every registry a server hosts has its record, also
\* one made later: hosted from the moment it exists, locked from the same moment.
AnnouncedIsLocked ==
    Calm({"tidy", "overlap", "amid"}) =>
        \A p \in Server : pc[p] = "serving" =>
            \A s \in hosted[p] : record[s] = [socket |-> sock[p], pid |-> p]

\* Two servers never host one store at once, on one socket or on two: "one
\* process serves a store".
OneProcess ==
    \A p, q \in Server : p # q /\ {pc[p], pc[q]} \subseteq Listening
        => hosted[p] \cap hosted[q] = {}

\* That holds when servers boot one at a time and no command looks meanwhile
\* (the order of claim_all and the probe of the socket).
OneServerPerStore == Calm({"tidy", "overlap", "amid"}) => OneProcess

\* A server that ran its whole shutdown leaves no record, socket or token of
\* its own, whatever else happened; only a registry it was still making then
\* can keep one.
NothingLeftBehind ==
    \A p \in Server : pc[p] = "gone" =>
        /\ \A s \in Store : record[s] # None /\ record[s].pid = p
                            => making[p].store = s
        /\ token # p /\ \A k \in Socket : file[k] # p

\* Who serves and who commands: two servers never host one store, and a command
\* never works beside a server (host.rs claim_all, serving.rs refuse_if_served).
ServedOnce == OneServerPerStore /\ LateCommandsRefused

\* When borg-server stop says a server has stopped, nothing on disk would make
\* the next command meet it: "gone means gone".
StopMeansReleased ==
    Calm({"kill", "tidy", "early", "overlap"}) /\ stop.at = "done" =>
        \A s \in Store : record[s] # None /\ record[s].pid = stop.pid
                         => making[stop.pid].store = s

\* The pidfile never names a process that did not get to listen.
PidfileNamesServed ==
    Calm({"overlap"}) /\ pidfile # None
        => pc[pidfile] \notin Booting \cup {"refused", "failed"}

\* What a server hosts is on disk: a restore that fails takes no store from under one.
HostedIsThere ==
    Calm({"overlap"}) => \A p \in Server : hosted[p] \subseteq exists

\* The files of the data directory say what is so: stores under what is hosted,
\* records from the announcement on, a pidfile only for a server, and nothing of one
\* that is gone (host.rs claim_all, release_all; lifecycle.rs background).
ServingInv ==
    /\ TypeOK /\ HostedIsThere /\ AnnouncedIsLocked /\ PidfileNamesServed
    /\ NothingLeftBehind

\* A server told to stop does stop, also when its socket file is gone; only
\* another server at its path can keep it (the join is conditional on the wake).
StopEnds ==
    Calm({"overlap"}) =>
        \A p \in Server :
            (pc[p] = "stopping" /\ file[sock[p]] \in {p, None}) ~> pc[p] \in Over
=============================================================================
