------------------------------ MODULE Session ------------------------------
(***************************************************************************)
(* Client connections of one server: the handshake (hello, version,        *)
(* credential, scope, routing, acknowledgement), the request loop, the     *)
(* gate of every registry, and the key file an operator changes meanwhile. *)
(*                                                                         *)
(* A registry is a name; a slot is what the host keeps for it, with a gate *)
(* and a store that is opened on the first request.  A scope is the set of *)
(* names a credential may see; "told" is what a connection has been told.  *)
(***************************************************************************)
EXTENDS Naturals, Sequences, FiniteSets, SequencesExt

CONSTANTS
    Conn,       \* connections
    Registry,   \* names of registries
    Present,    \* the registries hosted from the start
    Secret,     \* credentials that can be issued, one label each
    ScopeOf,    \* the scope each is issued with
    Scenarios,  \* the keys at the start, the key commands there can be, and the
                \* hellos and requests of clients
    MaxSlot,    \* slots the host can make
    Racing,     \* may two connections make one registry at the same time
    None

Name     == Registry \cup {None}
Hello    == [speaks : BOOLEAN, cred : Secret \cup {"admin", None}, registry : Name]
Request  == [kind : {"junk", "registries", "create", "store", "push"}, registry : Name]
KeyFiles == [file : {"absent", "corrupt", "there"}, in : SUBSET Secret]
Scenario == [keys : KeyFiles, commands : Nat, asks : Nat, hellos : SUBSET Hello,
             requests : SUBSET Request]

ASSUME SessionAssumption ==
    /\ Present \subseteq Registry /\ ScopeOf \in [Secret -> SUBSET Registry]
    /\ MaxSlot \in Nat /\ Cardinality(Present) <= MaxSlot
    /\ Racing \in BOOLEAN /\ None \notin Registry \cup Secret \cup Conn
    /\ "admin" \notin Secret
    /\ Scenarios \subseteq Scenario
    /\ \A sc \in Scenarios : sc.keys.file # "there" => sc.keys.in = {}

VARIABLES
    bound,     \* the scenario, with the key commands left
    keys,      \* the keys file: absent, corrupt or there, and the secrets in it
    issued,    \* secrets ever issued
    revoked,   \* secrets whose revocation has been reported done
    admin,     \* the key command in progress, with what it loaded
    hosted,    \* the slot of each registry, 0 when the host has none
    stores,    \* the registries whose store is on disk
    opened,    \* how often the store of each slot was opened
    gate,      \* the connection inside each slot
    conn,      \* the handshake of each connection
    work,      \* the request each connection is working on
    sent,      \* the requests a client has written
    replies,   \* the requests that were answered, in order
    told       \* the registry names a connection was told

keyVars  == <<bound, keys, issued, revoked, admin>>
hostVars == <<hosted, stores, opened, gate>>
talkVars == <<conn, work, sent, replies, told>>
vars     == <<keyVars, hostVars, talkVars>>

Slot     == 1..MaxSlot
NoWork   == [at |-> "idle", req |-> None, slot |-> 0]
NoAdmin  == [op |-> "none", secret |-> None, loaded |-> {}]
Phases   == {"new", "greeted", "authorized", "settled", "refused"}
Stages   == {"idle", "prepared", "absent", "made", "waiting", "inside", "open",
             "reply"}
NewConn  == [phase |-> "new", hello |-> None, scope |-> {}, slot |-> 0,
             reads |-> TRUE]

TypeOK ==
    /\ keys \in KeyFiles
    /\ revoked \subseteq issued /\ issued \subseteq Secret
    /\ admin.op \in {"none", "issue", "revoke"}
    /\ hosted \in [Registry -> 0..MaxSlot] /\ stores \subseteq Registry
    /\ opened \in [Slot -> Nat] /\ gate \in [Slot -> Conn \cup {None}]
    /\ \A c \in Conn :
          /\ conn[c].phase \in Phases /\ conn[c].scope \subseteq Registry
          /\ work[c].at \in Stages /\ work[c].slot \in 0..MaxSlot
          /\ work[c].at \in {"inside", "open"} => gate[work[c].slot] = c
          /\ Len(sent[c]) <= bound.asks /\ told[c] \subseteq Registry
    \* a gate is shut by a request that is inside
    /\ \A i \in Slot : gate[i] # None =>
          work[gate[i]].at \in {"inside", "open"} /\ work[gate[i]].slot = i
    \* the host never loses a registry it has told somebody about
    /\ \A c \in Conn : \A r \in told[c] : hosted[r] # 0

Visible(scope) == {r \in Registry : hosted[r] # 0 /\ r \in scope}

Tell(c, names) == told' = [told EXCEPT ![c] = @ \cup names]

---------------------------------------------------------------------------
(* The keys file.  Every command is a load and, later, a save.             *)

KeysFile(file, in) == [file |-> file, in |-> in]

\* issue and revoke load first; neither goes on with a file it cannot read, and
\* there is nothing to revoke in a file that does not exist.
\* One operator: nothing in the code keeps a second command, or an editor, from
\* the file between the load and the save.
KeyCommand(op, s) ==
    /\ bound.commands > 0 /\ bound' = [bound EXCEPT !.commands = @ - 1]
    /\ admin = NoAdmin /\ keys.file # "corrupt"
    /\ IF op = "issue" THEN s \notin issued ELSE s \in keys.in
    /\ admin' = [op |-> op, secret |-> s, loaded |-> keys.in]
    /\ UNCHANGED <<keys, issued, revoked, hostVars, talkVars>>

\* Mutation: a file without keys is removed.
SaveTidy ==
    /\ admin # NoAdmin
    /\ LET kept == IF admin.op = "issue" THEN admin.loaded \cup {admin.secret}
                                          ELSE admin.loaded \ {admin.secret}
       IN keys' = KeysFile(IF kept = {} THEN "absent" ELSE "there", kept)
    /\ issued' = IF admin.op = "issue" THEN issued \cup {admin.secret} ELSE issued
    /\ revoked' = IF admin.op = "revoke" THEN revoked \cup {admin.secret} ELSE revoked
    /\ admin' = NoAdmin
    /\ UNCHANGED <<bound, hostVars, talkVars>>

\* save: the file is replaced in one rename, and it stays when no key is left.
Save ==
    /\ admin # NoAdmin
    /\ keys' = KeysFile("there", IF admin.op = "issue"
                                 THEN admin.loaded \cup {admin.secret}
                                 ELSE admin.loaded \ {admin.secret})
    /\ issued' = IF admin.op = "issue" THEN issued \cup {admin.secret} ELSE issued
    /\ revoked' = IF admin.op = "revoke" THEN revoked \cup {admin.secret} ELSE revoked
    /\ admin' = NoAdmin
    /\ UNCHANGED <<bound, hostVars, talkVars>>

\* Somebody edits the file into something that does not parse.
Corrupt ==
    /\ keys.file = "there" /\ keys' = KeysFile("corrupt", {}) /\ admin = NoAdmin
    /\ UNCHANGED <<bound, issued, revoked, admin, hostVars, talkVars>>

\* The outcomes of authorize: a scope, or None for a refusal.  No file is an
\* open server; a file that cannot be read refuses everybody.
Authorized(cred) ==
    CASE keys.file = "absent" \/ (keys.file = "there" /\ cred = "admin") -> Registry
      [] keys.file = "there" /\ cred \in keys.in -> ScopeOf[cred]
      [] OTHER -> None

---------------------------------------------------------------------------
(* The handshake.                                                          *)

Dial(c, h, reads) ==
    /\ conn[c].phase = "new"
    /\ conn' = [conn EXCEPT ![c].phase = "greeted", ![c].hello = h,
                            ![c].reads = reads]
    /\ UNCHANGED <<keyVars, hostVars, work, sent, replies, told>>

\* A codec, a protocol version or a client_version this server does not speak.
RefuseHello(c) ==
    /\ conn[c].phase = "greeted" /\ ~conn[c].hello.speaks
    /\ conn' = [conn EXCEPT ![c].phase = "refused", ![c].hello = None]
    /\ UNCHANGED <<keyVars, hostVars, work, sent, replies, told>>

\* authorize, then permit on the name the client asked for: both before any
\* registry is looked up, and neither names one the client did not.
Authorize(c) ==
    /\ conn[c].phase = "greeted" /\ conn[c].hello.speaks
    /\ LET scope == Authorized(conn[c].hello.cred)
       IN conn' = [conn EXCEPT
            ![c].phase = IF scope = None \/ (conn[c].hello.registry # None
                                             /\ conn[c].hello.registry \notin scope)
                         THEN "refused" ELSE "authorized",
            ![c].scope = IF scope = None THEN {} ELSE scope]
    /\ UNCHANGED <<keyVars, hostVars, work, sent, replies, told>>

\* route_within: the registry, or None when there is no such or no obvious one.
Routed(name, scope) ==
    IF name # None THEN IF name \in Visible(scope) THEN name ELSE None
    ELSE IF Cardinality(Visible(scope)) = 1
         THEN CHOOSE r \in Visible(scope) : TRUE ELSE None

\* A name that does not route is refused here and told what there is; no name
\* settles on the sole registry, or on nothing and is accepted all the same.
Route(c) ==
    /\ conn[c].phase = "authorized"
    /\ LET h == conn[c].hello
           r == Routed(h.registry, conn[c].scope)
       IN /\ conn' = [conn EXCEPT
                ![c].phase = IF r = None /\ h.registry # None THEN "refused" ELSE "settled",
                ![c].hello = None,
                ![c].slot  = IF r = None THEN 0 ELSE hosted[r]]
          /\ Tell(c, IF r # None THEN {r} ELSE Visible(conn[c].scope))
    /\ UNCHANGED <<keyVars, hostVars, work, sent, replies>>

---------------------------------------------------------------------------
(* Requests.  A client may write the next before it reads the last answer. *)

Ask(c, req) ==
    /\ conn[c].phase = "settled" /\ Len(sent[c]) < bound.asks
    /\ req.kind = "create" /\ ~Racing =>
          \A d \in Conn \ {c} : \A i \in Len(replies[d]) + 1..Len(sent[d]) :
              sent[d][i] # req
    /\ sent' = [sent EXCEPT ![c] = Append(@, req)]
    /\ UNCHANGED <<keyVars, hostVars, conn, work, replies, told>>

\* The next request, when the session is reading.
Taken(c) == sent[c][Len(replies[c]) + 1]
Reading(c) ==
    /\ conn[c].phase = "settled" /\ work[c].at = "idle"
    /\ Len(replies[c]) < Len(sent[c])

Answer(c, req) ==
    work' = [work EXCEPT ![c] = [at |-> "reply", req |-> req, slot |-> 0]]

\* A message that cannot be read is one message: answered, and the loop goes on.
Unreadable(c) ==
    /\ Reading(c) /\ Taken(c).kind = "junk"
    /\ Answer(c, Taken(c))
    /\ UNCHANGED <<keyVars, hostVars, conn, sent, replies, told>>

\* Questions about the server, answered without a registry.
Registries(c) ==
    /\ Reading(c) /\ Taken(c).kind = "registries"
    /\ Tell(c, Visible(conn[c].scope)) /\ Answer(c, Taken(c))
    /\ UNCHANGED <<keyVars, hostVars, conn, sent, replies>>

\* permit, then prepare: nothing is held between this and the end.
Prepare(c) ==
    /\ Reading(c) /\ Taken(c).kind = "create"
    /\ IF Taken(c).registry \in conn[c].scope /\ hosted[Taken(c).registry] = 0
       THEN work' = [work EXCEPT ![c] = [at |-> "prepared", req |-> Taken(c), slot |-> 0]]
       ELSE Answer(c, Taken(c))
    /\ UNCHANGED <<keyVars, hostVars, conn, sent, replies, told>>

\* init refuses a store that is there already ...
InitLooks(c) ==
    /\ work[c].at = "prepared"
    /\ IF work[c].req.registry \in stores THEN Answer(c, work[c].req)
       ELSE work' = [work EXCEPT ![c].at = "absent"]
    /\ UNCHANGED <<keyVars, hostVars, conn, sent, replies, told>>

\* ... and makes it after that.  A restore can fail, and takes its store along.
InitMakes(c) ==
    /\ work[c].at = "absent"
    /\ \/ /\ stores' = stores \cup {work[c].req.registry}
          /\ work' = [work EXCEPT ![c].at = "made"]
       \/ stores' = stores \ {work[c].req.registry} /\ Answer(c, work[c].req)
    /\ UNCHANGED <<keyVars, hosted, opened, gate, conn, sent, replies, told>>

\* A slot nobody has, has had open or is on the way to.
Fresh(i) ==
    /\ opened[i] = 0 /\ \A r \in Registry : hosted[r] # i
    /\ \A c \in Conn : work[c].slot # i /\ conn[c].slot # i

\* adopt: a new slot under the name, whatever was there.
Adopt(c) ==
    /\ work[c].at = "made"
    /\ \E i \in Slot :
          Fresh(i) /\ hosted' = [hosted EXCEPT ![work[c].req.registry] = i]
    /\ Answer(c, work[c].req)
    /\ UNCHANGED <<keyVars, stores, opened, gate, conn, sent, replies, told>>

\* Mutation: the two requests that name a registry are routed without the scope.
ChosenUnscoped(c, req) ==
    IF req.registry # None
    THEN IF req.registry \in Visible(Registry) THEN hosted[req.registry] ELSE 0
    ELSE conn[c].slot

\* The slot a request is for: push and export may name another registry, inside
\* the scope; everything else is for the one the handshake settled.
Chosen(c, req) ==
    IF req.registry # None
    THEN IF req.registry \in Visible(conn[c].scope) THEN hosted[req.registry] ELSE 0
    ELSE conn[c].slot

Dispatch(c) ==
    /\ Reading(c) /\ Taken(c).kind \in {"store", "push"}
    /\ IF Chosen(c, Taken(c)) = 0
       THEN Tell(c, Visible(conn[c].scope)) /\ Answer(c, Taken(c))
       ELSE /\ work' = [work EXCEPT ![c] = [at |-> "waiting", req |-> Taken(c),
                                            slot |-> Chosen(c, Taken(c))]]
            /\ UNCHANGED told
    /\ UNCHANGED <<keyVars, hostVars, conn, sent, replies>>

Enter(c) ==
    /\ work[c].at = "waiting" /\ gate[work[c].slot] = None
    /\ gate' = [gate EXCEPT ![work[c].slot] = c]
    /\ work' = [work EXCEPT ![c].at = "inside"]
    /\ UNCHANGED <<keyVars, hosted, stores, opened, conn, sent, replies, told>>

\* Mutation: the store is opened whether or not it is held.
OpenAgain(c) ==
    /\ work[c].at = "inside"
    /\ opened' = [opened EXCEPT ![work[c].slot] = IF @ < 2 THEN @ + 1 ELSE @]
    /\ work' = [work EXCEPT ![c].at = "open"]
    /\ UNCHANGED <<keyVars, hosted, stores, gate, conn, sent, replies, told>>

\* Slot::ops: the first request through the gate opens the store; an error is
\* answered and the slot stays closed.
Open(c) ==
    /\ work[c].at = "inside"
    /\ \/ /\ opened' = [opened EXCEPT ![work[c].slot] = IF @ = 0 THEN 1 ELSE @]
          /\ work' = [work EXCEPT ![c].at = "open"] /\ UNCHANGED gate
       \/ /\ opened[work[c].slot] = 0 /\ UNCHANGED opened
          /\ gate' = [gate EXCEPT ![work[c].slot] = None] /\ Answer(c, work[c].req)
    /\ UNCHANGED <<keyVars, hosted, stores, conn, sent, replies, told>>

\* Mutation: the reply is written with the gate held.
FinishReplying(c) ==
    /\ work[c].at = "open" /\ conn[c].reads
    /\ gate' = [gate EXCEPT ![work[c].slot] = None]
    /\ Answer(c, work[c].req)
    /\ UNCHANGED <<keyVars, hosted, stores, opened, conn, sent, replies, told>>

\* answer: one operation on the open registry, then the gate goes.
Finish(c) ==
    /\ work[c].at = "open"
    /\ gate' = [gate EXCEPT ![work[c].slot] = None]
    /\ Answer(c, work[c].req)
    /\ UNCHANGED <<keyVars, hosted, stores, opened, conn, sent, replies, told>>

\* A connection that is over leaves nothing: its client may come back.
Gone(c) ==
    /\ conn' = [conn EXCEPT ![c] = NewConn] /\ work' = [work EXCEPT ![c] = NoWork]
    /\ sent' = [sent EXCEPT ![c] = <<>>] /\ replies' = [replies EXCEPT ![c] = <<>>]
    /\ told' = [told EXCEPT ![c] = {}]

\* A panic in an operation ends its thread; the gate it poisoned opens again
\* (enter recovers the guard).
Panic(c) ==
    /\ work[c].at \in {"inside", "open"} /\ Gone(c)
    /\ gate' = [gate EXCEPT ![work[c].slot] = None]
    /\ UNCHANGED <<keyVars, hosted, stores, opened>>

\* The reply is written when the client takes it.
Reply(c) ==
    /\ work[c].at = "reply" /\ conn[c].reads
    /\ replies' = [replies EXCEPT ![c] = Append(@, work[c].req)]
    /\ work' = [work EXCEPT ![c] = NoWork]
    /\ UNCHANGED <<keyVars, hostVars, conn, sent, told>>

\* The client is gone; the session notices when it reads or writes.
HangUp(c) ==
    /\ conn[c].phase \in {"settled", "refused"} /\ work[c].at \in {"idle", "reply"}
    /\ Gone(c) /\ UNCHANGED <<keyVars, hostVars>>

---------------------------------------------------------------------------
Init ==
    /\ \E sc \in Scenarios :
          keys = sc.keys /\ issued = sc.keys.in /\ bound = sc
    /\ revoked = {} /\ admin = NoAdmin
    /\ \E number \in [Present -> Slot] :
          /\ IsInjective(number) /\ Range(number) = 1..Cardinality(Present)
          /\ hosted = [r \in Registry |-> IF r \in Present THEN number[r] ELSE 0]
    /\ stores = Present /\ opened = [s \in Slot |-> 0]
    /\ gate = [s \in Slot |-> None] /\ conn = [c \in Conn |-> NewConn]
    /\ work = [c \in Conn |-> NoWork] /\ sent = [c \in Conn |-> <<>>]
    /\ replies = [c \in Conn |-> <<>>] /\ told = [c \in Conn |-> {}]

Handshake(c) == RefuseHello(c) \/ Authorize(c) \/ Route(c)

Serve(c) ==
    \/ Unreadable(c) \/ Registries(c) \/ Prepare(c) \/ InitLooks(c) \/ InitMakes(c)
    \/ Adopt(c) \/ Dispatch(c) \/ Enter(c) \/ Open(c) \/ Finish(c) \/ Reply(c)

Next ==
    \/ \E s \in Secret : KeyCommand("issue", s) \/ KeyCommand("revoke", s)
    \/ Save \/ Corrupt
    \/ \E c \in Conn :
          \/ Handshake(c) \/ Serve(c) \/ Panic(c) \/ HangUp(c)
          \/ \E h \in bound.hellos, reads \in BOOLEAN : Dial(c, h, reads)
          \/ \E req \in bound.requests : Ask(c, req)

\* Threads are scheduled, and a lock is granted in the end to one that waits.
Spec ==
    /\ Init /\ [][Next]_vars
    /\ \A c \in Conn : WF_vars(Handshake(c)) /\ WF_vars(Serve(c)) /\ SF_vars(Enter(c))

---------------------------------------------------------------------------
(* Properties *)

\* A caller learns the names its credential covers and no other, whatever it
\* asks, and nothing at all when it was refused before it had a scope.
NothingDisclosed ==
    \A c \in Conn : told[c] \subseteq conn[c].scope

\* No request works on a registry outside the scope the handshake earned, also
\* not through a message that names one of its own.
StaysInScope ==
    \A c \in Conn : work[c].slot # 0 =>
        \E r \in conn[c].scope : hosted[r] = work[c].slot

\* Once a key was issued, whoever is let in holds one that was issued and not
\* revoked, or the admin key: not when the last key is revoked, not when the file
\* stops parsing, not for a hello that was on its way meanwhile.
OnlyKeyHolders ==
    [][\A c \in Conn :
          conn[c].phase = "greeted" /\ conn'[c].phase = "authorized" /\ issued # {}
            => conn[c].hello.cred \in (issued \ revoked) \cup {"admin"}]_vars

\* A store is opened once, and no two requests are inside one slot at once.
OneInside ==
    /\ \A s \in Slot : opened[s] <= 1
    /\ \A c, d \in Conn :
          c # d /\ {work[c].at, work[d].at} \subseteq {"inside", "open"}
            => work[c].slot # work[d].slot

\* A connection gets one answer for every message it wrote, in order, and none
\* that belongs to another.
AnswersLineUp ==
    \A c \in Conn : IsPrefix(replies[c], sent[c])

\* The gate and the conversation: one request inside a registry, one opening of its
\* store, one answer for each message (host.rs enter and ops, serve.rs session).
SessionInv == TypeOK /\ OneInside /\ AnswersLineUp

\* A credential bounds what its holder is told and what is done for it (keys.rs
\* permit, host.rs route_within).
WithinScope == NothingDisclosed /\ StaysInScope

\* A request is answered, unless its own client went away, stopped reading or
\* its operation died: neither a slow reader nor a panic stalls the others.
Answered ==
    \A c \in Conn :
        (conn[c].phase = "settled" /\ Len(replies[c]) < Len(sent[c]))
          ~> (Len(replies[c]) = Len(sent[c]) \/ ~conn[c].reads)
=============================================================================
