--------------------------- MODULE SessionProofs ---------------------------
(***************************************************************************)
(* What the handshake, the request loop and the gate of a server promise,  *)
(* for any number of connections, registries, keys and requests, and for   *)
(* key commands and hellos in any order.                                   *)
(***************************************************************************)
EXTENDS Session, TLAPS

\* A step of one connection, of its client or of the thread that serves it.
Moves(c) ==
    \/ Handshake(c) \/ Serve(c) \/ Panic(c) \/ HangUp(c)
    \/ \E h \in bound.hellos, reads \in BOOLEAN : Dial(c, h, reads)
    \/ \E req \in bound.requests : Ask(c, req)

USE DEF Moves

---------------------------------------------------------------------------
(* The inductive invariant, one part for each thing the code keeps straight*)

\* What each variable is.
Shaped ==
    /\ bound \in Scenario /\ keys \in KeyFiles
    /\ issued \subseteq Secret /\ revoked \subseteq Secret
    /\ admin \in [op : {"none", "issue", "revoke"}, secret : Secret \cup {None},
                  loaded : SUBSET Secret]
    /\ hosted \in [Registry -> 0..MaxSlot] /\ stores \subseteq Registry
    /\ opened \in [Slot -> {0, 1}] /\ gate \in [Slot -> Conn \cup {None}]
    /\ conn \in [Conn -> [phase : Phases, hello : Hello \cup {None},
                          scope : SUBSET Registry, slot : 0..MaxSlot, reads : BOOLEAN]]
    /\ work \in [Conn -> [at : Stages, req : Request \cup {None}, slot : 0..MaxSlot]]
    /\ sent \in [Conn -> Seq(Request)] /\ replies \in [Conn -> Seq(Request)]
    /\ told \in [Conn -> SUBSET Registry]

\* The file holds only keys in force; a command in progress knows what is in it,
\* because nobody else changes it meanwhile; and once a key was issued the file is
\* there, if perhaps not readable (keys.rs save).
KeysInForce ==
    /\ keys.in \subseteq issued \ revoked /\ revoked \subseteq issued
    /\ issued # {} => keys.file # "absent"
    /\ admin # NoAdmin =>
          /\ admin.loaded = keys.in /\ admin.secret \in Secret
          /\ admin.op = "issue" => admin.secret \notin issued
          /\ admin.op # "issue" => admin.op = "revoke" /\ admin.secret \in keys.in

\* The gate of a slot is shut by whoever is inside it, and by nobody else.
GateHeld ==
    /\ \A c \in Conn : work[c].at \in {"inside", "open"} =>
          work[c].slot \in Slot /\ gate[work[c].slot] = c
    /\ \A i \in Slot : gate[i] # None =>
          work[gate[i]].at \in {"inside", "open"} /\ work[gate[i]].slot = i

\* A connection works on one message at a time, the first it has not answered, and
\* has a slot in mind from the routing of the request to its answer.
InTurnOf(c) ==
    /\ Len(sent[c]) <= bound.asks /\ Len(replies[c]) <= Len(sent[c])
    /\ \A i \in 1..Len(replies[c]) : replies[c][i] = sent[c][i]
    /\ work[c].at # "idle" =>
          /\ conn[c].phase = "settled"
          /\ Len(replies[c]) < Len(sent[c]) /\ work[c].req = Taken(c)
    /\ work[c].at \in {"waiting", "inside", "open"} <=> work[c].slot # 0
    /\ work[c].at \in {"prepared", "absent", "made"} =>
          work[c].req.kind = "create" /\ work[c].req.registry \in conn[c].scope

InTurn == \A c \in Conn : InTurnOf(c)

\* What a connection was told is hosted and in its scope, and who has no scope yet
\* was told nothing.
ToldOf(c) ==
    /\ conn[c].phase \in {"new", "greeted"} => told[c] = {}
    /\ told[c] \subseteq conn[c].scope
    /\ \A r \in told[c] : hosted[r] # 0

ToldInScope == \A c \in Conn : ToldOf(c)

SessionSafe == Shaped /\ KeysInForce /\ GateHeld /\ InTurn /\ ToldInScope

---------------------------------------------------------------------------
(* The start.                                                              *)

\* A server starts with nobody talking, no command running, and keys in its file
\* that are all in force.
LEMMA SessionStarts == Init => SessionSafe
  <1> SUFFICES ASSUME Init PROVE SessionSafe  OBVIOUS
  <1> USE SessionAssumption
  <1>1. PICK sc \in Scenarios : keys = sc.keys /\ issued = sc.keys.in /\ bound = sc
    BY DEF Init
  <1>2. sc \in Scenario  OBVIOUS
  <1>3. PICK number \in [Present -> Slot] :
           hosted = [r \in Registry |-> IF r \in Present THEN number[r] ELSE 0]
    BY DEF Init
  <1>4. Shaped
    <2>1. hosted \in [Registry -> 0..MaxSlot]  BY <1>3 DEF Slot
    <2>2. bound \in Scenario /\ keys \in KeyFiles /\ issued \subseteq Secret
      BY <1>1, <1>2 DEF Scenario, KeyFiles
    <2>3. conn \in [Conn -> [phase : Phases, hello : Hello \cup {None},
                             scope : SUBSET Registry, slot : 0..MaxSlot, reads : BOOLEAN]]
      BY DEF Init, NewConn, Phases
    <2>4. work \in [Conn -> [at : Stages, req : Request \cup {None}, slot : 0..MaxSlot]]
      BY DEF Init, NoWork, Stages
    <2> QED  BY <2>1, <2>2, <2>3, <2>4 DEF Init, Shaped, NoAdmin
  <1>5. KeysInForce
    BY <1>1, <1>2 DEF Init, KeysInForce, Scenario, KeyFiles
  <1>6. GateHeld /\ ToldInScope
    BY DEF Init, GateHeld, ToldInScope, ToldOf, NoWork, NewConn
  <1>7. InTurn
    BY <1>1, <1>2 DEF Init, InTurn, InTurnOf, NoWork, Scenario
  <1> QED  BY <1>4, <1>5, <1>6, <1>7 DEF SessionSafe

---------------------------------------------------------------------------
(* Key commands.                                                           *)

\* A key command begins with what the file holds (keys.rs load), and never issues a
\* key twice.
LEMMA KeysStay ==
    ASSUME Shaped, KeysInForce,
           NEW s \in Secret, KeyCommand("issue", s) \/ KeyCommand("revoke", s)
    PROVE  /\ bound' \in Scenario /\ bound'.asks = bound.asks
           /\ KeysInForce'
           /\ admin' \in [op : {"none", "issue", "revoke"}, secret : Secret \cup {None},
                          loaded : SUBSET Secret]
  <1>1. bound' \in Scenario /\ bound'.asks = bound.asks
    <2>1. /\ bound.commands > 0
          /\ bound' = [bound EXCEPT !.commands = @ - 1]
      BY DEF KeyCommand
    <2>2. bound \in Scenario /\ bound.commands \in Nat  BY DEF Shaped, Scenario
    <2>3. bound.commands - 1 \in Nat  BY <2>1, <2>2
    <2> QED  BY <2>1, <2>2, <2>3 DEF Scenario
  <1>2. UNCHANGED <<keys, issued, revoked>> /\ admin'.secret = s
        /\ admin'.loaded = keys.in /\ admin'.op \in {"issue", "revoke"}
    BY DEF KeyCommand
  <1>3. admin'.op = "issue" => s \notin issued
    BY DEF KeyCommand
  <1>4. admin'.op = "revoke" => s \in keys.in
    BY DEF KeyCommand
  <1> QED  BY <1>1, <1>2, <1>3, <1>4 DEF KeysInForce, KeyCommand, Shaped, KeyFiles

\* A command that ends writes the keys in force (keys.rs save): the file it replaces
\* is still the one it loaded.
LEMMA KeysSaved ==
    ASSUME Shaped, KeysInForce, Save
    PROVE  /\ KeysInForce' /\ keys' \in KeyFiles
           /\ issued' \subseteq Secret /\ revoked' \subseteq Secret
           /\ admin' = NoAdmin
  BY DEF Shaped, KeysInForce, Save, KeysFile, KeyFiles, NoAdmin

\* A file nobody can read holds no key, and is not absent (keys.rs load).
LEMMA KeysCorrupted ==
    ASSUME Shaped, KeysInForce, Corrupt
    PROVE  KeysInForce' /\ keys' \in KeyFiles
  BY DEF Shaped, KeysInForce, Corrupt, KeysFile, KeyFiles, NoAdmin

---------------------------------------------------------------------------
(* Every variable keeps its shape.                                         *)

\* What a session takes next is a request its client wrote.
LEMMA TakenIsRequest ==
    ASSUME Shaped, NEW c \in Conn, Len(replies[c]) < Len(sent[c])
    PROVE  Taken(c) \in Request
  <1>1. sent[c] \in Seq(Request) /\ replies[c] \in Seq(Request)  BY DEF Shaped
  <1>2. Len(replies[c]) + 1 \in 1..Len(sent[c])  BY <1>1
  <1> QED  BY <1>1, <1>2 DEF Taken

\* A request that is answered leaves the connection with an answer to write.
LEMMA AnswerShaped ==
    ASSUME Shaped, NEW c \in Conn, NEW req \in Request, Answer(c, req)
    PROVE  work' \in [Conn -> [at : Stages, req : Request \cup {None}, slot : 0..MaxSlot]]
  <1>1. [at |-> "reply", req |-> req, slot |-> 0]
            \in [at : Stages, req : Request \cup {None}, slot : 0..MaxSlot]
    BY SessionAssumption DEF Stages
  <1> QED  BY <1>1 DEF Shaped, Answer

\* A connection that is over is a new one.
LEMMA GoneShaped ==
    ASSUME Shaped, NEW c \in Conn, Gone(c)
    PROVE  /\ conn' \in [Conn -> [phase : Phases, hello : Hello \cup {None},
                                 scope : SUBSET Registry, slot : 0..MaxSlot, reads : BOOLEAN]]
           /\ work' \in [Conn -> [at : Stages, req : Request \cup {None}, slot : 0..MaxSlot]]
           /\ sent' \in [Conn -> Seq(Request)] /\ replies' \in [Conn -> Seq(Request)]
           /\ told' \in [Conn -> SUBSET Registry]
  <1>1. NewConn \in [phase : Phases, hello : Hello \cup {None}, scope : SUBSET Registry,
                     slot : 0..MaxSlot, reads : BOOLEAN]
    BY SessionAssumption DEF NewConn, Phases
  <1>2. NoWork \in [at : Stages, req : Request \cup {None}, slot : 0..MaxSlot]
    BY SessionAssumption DEF NoWork, Stages
  <1> QED  BY <1>1, <1>2 DEF Shaped, Gone

\* The handshake.
LEMMA HandshakeShaped ==
    ASSUME Shaped, NEW c \in Conn,
           Handshake(c) \/ \E h \in bound.hellos, reads \in BOOLEAN : Dial(c, h, reads)
    PROVE  Shaped'
  <1> USE SessionAssumption
  <1> DEFINE C == [phase : Phases, hello : Hello \cup {None}, scope : SUBSET Registry,
                   slot : 0..MaxSlot, reads : BOOLEAN]
  <1>c. conn[c] \in C /\ conn \in [Conn -> C]  BY DEF Shaped
  <1>1. ASSUME NEW h \in bound.hellos, NEW reads \in BOOLEAN, Dial(c, h, reads) PROVE Shaped'
    <2>1. h \in Hello  BY DEF Shaped, Scenario
    <2>2. conn' \in [Conn -> C]  BY <1>1, <1>c, <2>1 DEF Dial, Phases
    <2> QED  BY <1>1, <2>2 DEF Dial, Shaped, keyVars, hostVars
  <1>2. CASE RefuseHello(c)
    <2>1. conn' \in [Conn -> C]  BY <1>2, <1>c DEF RefuseHello, Phases
    <2> QED  BY <1>2, <2>1 DEF RefuseHello, Shaped, keyVars, hostVars
  <1>3. CASE Authorize(c)
    <2> DEFINE scope == Authorized(conn[c].hello.cred)
    <2>1. scope = None \/ scope \subseteq Registry  BY <1>c DEF Authorized, Shaped, KeyFiles
    <2>2. (IF scope = None THEN {} ELSE scope) \in SUBSET Registry  BY <2>1
    <2>3. conn' \in [Conn -> C]  BY <1>3, <1>c, <2>2 DEF Authorize, Phases
    <2> QED  BY <1>3, <2>3 DEF Authorize, Shaped, keyVars, hostVars
  <1>4. CASE Route(c)
    <2> DEFINE r == Routed(conn[c].hello.registry, conn[c].scope)
    <2>1. r = None \/ r \in Registry  BY DEF Routed, Visible
    <2>2. (IF r = None THEN 0 ELSE hosted[r]) \in 0..MaxSlot  BY <2>1 DEF Shaped
    <2>3. conn' \in [Conn -> C]  BY <1>4, <1>c, <2>2 DEF Route, Phases
    <2>4. told' \in [Conn -> SUBSET Registry]
      BY <1>4, <2>1 DEF Route, Tell, Shaped, Visible
    <2> QED  BY <1>4, <2>3, <2>4 DEF Route, Shaped, keyVars, hostVars
  <1> QED  BY <1>1, <1>2, <1>3, <1>4 DEF Handshake

\* The request loop, and connections that end.
LEMMA RequestsShaped ==
    ASSUME Shaped, InTurn, NEW c \in Conn,
           Serve(c) \/ Panic(c) \/ HangUp(c) \/ \E req \in bound.requests : Ask(c, req)
    PROVE  Shaped'
  <1> USE SessionAssumption
  <1> DEFINE W == [at : Stages, req : Request \cup {None}, slot : 0..MaxSlot]
  <1>w. work[c] \in W /\ work \in [Conn -> W]  BY DEF Shaped
  <1>h. conn[c].scope \in SUBSET Registry /\ conn[c].slot \in 0..MaxSlot  BY DEF Shaped
  <1>t. ASSUME Reading(c) PROVE Taken(c) \in Request
    BY <1>t, TakenIsRequest DEF Reading
  <1>v. Visible(conn[c].scope) \subseteq Registry  BY DEF Visible
  <1>r. work[c].at # "idle" => work[c].req \in Request /\ work[c].req = Taken(c)
    BY TakenIsRequest DEF InTurn, InTurnOf
  <1>1. ASSUME NEW req \in bound.requests, Ask(c, req) PROVE Shaped'
    <2>1. req \in Request  BY DEF Shaped, Scenario
    <2>2. Append(sent[c], req) \in Seq(Request)  BY <2>1 DEF Shaped
    <2>3. sent' \in [Conn -> Seq(Request)]  BY <1>1, <2>2 DEF Ask, Shaped
    <2> QED  BY <1>1, <2>3 DEF Ask, Shaped, keyVars, hostVars
  <1>2. CASE Unreadable(c)
    <2>1. Taken(c) \in Request /\ Answer(c, Taken(c))  BY <1>2, <1>t DEF Unreadable
    <2>2. work' \in [Conn -> W]  BY <2>1, AnswerShaped
    <2> QED  BY <1>2, <2>2 DEF Unreadable, Shaped, keyVars, hostVars
  <1>3. CASE Registries(c)
    <2>1. Taken(c) \in Request /\ Answer(c, Taken(c))  BY <1>3, <1>t DEF Registries
    <2>2. work' \in [Conn -> W]  BY <2>1, AnswerShaped
    <2>3. told' \in [Conn -> SUBSET Registry]
      BY <1>3, <1>v DEF Registries, Tell, Shaped
    <2> QED  BY <1>3, <2>2, <2>3 DEF Registries, Shaped, keyVars, hostVars
  <1>4. CASE Prepare(c)
    <2>1. Taken(c) \in Request  BY <1>4, <1>t DEF Prepare
    <2>2. CASE Answer(c, Taken(c))
      <3>1. work' \in [Conn -> W]  BY <2>1, <2>2, AnswerShaped
      <3> QED  BY <1>4, <3>1 DEF Prepare, Shaped, keyVars, hostVars
    <2>3. CASE work' = [work EXCEPT ![c] = [at |-> "prepared", req |-> Taken(c), slot |-> 0]]
      <3>1. work' \in [Conn -> W]  BY <1>w, <2>1, <2>3 DEF Stages
      <3> QED  BY <1>4, <3>1 DEF Prepare, Shaped, keyVars, hostVars
    <2> QED  BY <1>4, <2>2, <2>3 DEF Prepare
  <1>5. CASE InitLooks(c)
    <2>1. work[c].req \in Request  BY <1>5, <1>r DEF InitLooks
    <2>2. CASE Answer(c, work[c].req)
      <3>1. work' \in [Conn -> W]  BY <2>1, <2>2, AnswerShaped
      <3> QED  BY <1>5, <3>1 DEF InitLooks, Shaped, keyVars, hostVars
    <2>3. CASE work' = [work EXCEPT ![c].at = "absent"]
      <3>1. work' \in [Conn -> W]  BY <1>w, <2>3 DEF Stages
      <3> QED  BY <1>5, <3>1 DEF InitLooks, Shaped, keyVars, hostVars
    <2> QED  BY <1>5, <2>2, <2>3 DEF InitLooks
  <1>6. CASE InitMakes(c)
    <2>1. work[c].req \in Request /\ work[c].req = Taken(c)  BY <1>6, <1>r DEF InitMakes
    <2>2. CASE Answer(c, work[c].req) /\ stores' = stores \ {work[c].req.registry}
      <3>1. work' \in [Conn -> W]  BY <2>1, <2>2, AnswerShaped
      <3> QED  BY <1>6, <2>2, <3>1 DEF InitMakes, Shaped, keyVars
    <2>3. CASE /\ work' = [work EXCEPT ![c].at = "made"]
               /\ stores' = stores \cup {work[c].req.registry}
      <3>1. work' \in [Conn -> W]  BY <1>w, <2>3 DEF Stages
      <3>2. work[c].req.registry \in Registry  BY <1>6, <1>h DEF InitMakes, InTurn, InTurnOf
      <3> QED  BY <1>6, <2>3, <3>1, <3>2 DEF InitMakes, Shaped, keyVars
    <2> QED  BY <1>6, <2>2, <2>3 DEF InitMakes
  <1>7. CASE Adopt(c)
    <2>1. work[c].req \in Request /\ Answer(c, work[c].req)  BY <1>7, <1>r DEF Adopt
    <2>2. work' \in [Conn -> W]  BY <2>1, AnswerShaped
    <2>3. PICK i \in Slot : hosted' = [hosted EXCEPT ![work[c].req.registry] = i]
      BY <1>7 DEF Adopt
    <2>4. i \in 0..MaxSlot  BY DEF Slot
    <2>5. hosted' \in [Registry -> 0..MaxSlot]  BY <2>3, <2>4 DEF Shaped
    <2> QED  BY <1>7, <2>2, <2>5 DEF Adopt, Shaped, keyVars
  <1>8. CASE Dispatch(c)
    <2>1. Taken(c) \in Request  BY <1>8, <1>t DEF Dispatch
    <2>2. CASE Answer(c, Taken(c)) /\ Tell(c, Visible(conn[c].scope))
      <3>1. work' \in [Conn -> W]  BY <2>1, <2>2, AnswerShaped
      <3>2. told' \in [Conn -> SUBSET Registry]  BY <1>v, <2>2 DEF Tell, Shaped
      <3> QED  BY <1>8, <3>1, <3>2 DEF Dispatch, Shaped, keyVars, hostVars
    <2>3. CASE /\ work' = [work EXCEPT ![c] = [at |-> "waiting", req |-> Taken(c),
                                               slot |-> Chosen(c, Taken(c))]]
               /\ UNCHANGED told
      <3>1. Chosen(c, Taken(c)) \in 0..MaxSlot  BY <1>h DEF Chosen, Visible, Shaped
      <3>2. work' \in [Conn -> W]  BY <1>w, <2>1, <2>3, <3>1 DEF Stages
      <3> QED  BY <1>8, <2>3, <3>2 DEF Dispatch, Shaped, keyVars, hostVars
    <2> QED  BY <1>8, <2>2, <2>3 DEF Dispatch
  <1>9. CASE Enter(c)
    <2>1. work' \in [Conn -> W]  BY <1>9, <1>w DEF Enter, Stages
    <2>2. gate' \in [Slot -> Conn \cup {None}]  BY <1>9 DEF Enter, Shaped
    <2> QED  BY <1>9, <2>1, <2>2 DEF Enter, Shaped, keyVars
  <1>10. CASE Open(c)
    <2>1. work[c].req \in Request  BY <1>10, <1>r DEF Open
    <2>2. gate' \in [Slot -> Conn \cup {None}] /\ opened' \in [Slot -> {0, 1}]
      BY ZenonT(60), <1>10 DEF Open, Shaped
    <2>3. work' \in [Conn -> W]
      <3>1. CASE Answer(c, work[c].req)  BY <2>1, <3>1, AnswerShaped
      <3>2. CASE work' = [work EXCEPT ![c].at = "open"]  BY <1>w, <3>2 DEF Stages
      <3> QED  BY <1>10, <3>1, <3>2 DEF Open
    <2> QED  BY <1>10, <2>2, <2>3 DEF Open, Shaped, keyVars
  <1>11. CASE Finish(c)
    <2>1. work[c].req \in Request /\ Answer(c, work[c].req)  BY <1>11, <1>r DEF Finish
    <2>2. work' \in [Conn -> W]  BY <2>1, AnswerShaped
    <2>3. gate' \in [Slot -> Conn \cup {None}]  BY <1>11 DEF Finish, Shaped
    <2> QED  BY <1>11, <2>2, <2>3 DEF Finish, Shaped, keyVars
  <1>12. CASE Reply(c)
    <2>1. work[c].req \in Request  BY <1>12, <1>r DEF Reply
    <2>2. Append(replies[c], work[c].req) \in Seq(Request)  BY <2>1 DEF Shaped
    <2>3. replies' \in [Conn -> Seq(Request)]  BY <1>12, <2>2 DEF Reply, Shaped
    <2>4. NoWork \in W  BY DEF NoWork, Stages
    <2>5. work' \in [Conn -> W]  BY <1>12, <1>w, <2>4 DEF Reply
    <2> QED  BY <1>12, <2>3, <2>5 DEF Reply, Shaped, keyVars, hostVars
  <1>13. CASE Panic(c)
    <2>1. Gone(c)  BY <1>13 DEF Panic
    <2>2. gate' \in [Slot -> Conn \cup {None}]  BY <1>13 DEF Panic, Shaped
    <2> QED  BY <1>13, <2>1, <2>2, GoneShaped DEF Panic, Shaped, keyVars
  <1>14. CASE HangUp(c)
    <2>1. Gone(c)  BY <1>14 DEF HangUp
    <2> QED  BY <1>14, <2>1, GoneShaped DEF HangUp, Shaped, keyVars, hostVars
  <1> QED
    BY <1>1, <1>2, <1>3, <1>4, <1>5, <1>6, <1>7, <1>8, <1>9, <1>10, <1>11, <1>12, <1>13,
       <1>14 DEF Serve

---------------------------------------------------------------------------
(* The gate.                                                               *)

\* What a connection does leaves the key file and its command alone.
LEMMA KeysUntouched ==
    ASSUME NEW c \in Conn,
           Moves(c)
    PROVE  UNCHANGED keyVars
  <1>1. CASE Handshake(c)  BY <1>1 DEF Handshake, RefuseHello, Authorize, Route
  <1>2. CASE Serve(c)
    BY <1>2 DEF Serve, Unreadable, Registries, Prepare, InitLooks, InitMakes, Adopt,
                Dispatch, Enter, Open, Finish, Reply
  <1>3. CASE Panic(c) \/ HangUp(c)  BY <1>3 DEF Panic, HangUp
  <1> QED  BY <1>1, <1>2, <1>3 DEF Dial, Ask

\* A request that is not inside can change its own work as long as it stays outside.
LEMMA OutsideKeepsGate ==
    ASSUME Shaped, GateHeld, Shaped', NEW c \in Conn, UNCHANGED gate,
           work[c].at \notin {"inside", "open"}, work'[c].at \notin {"inside", "open"},
           \A d \in Conn \ {c} : work'[d] = work[d]
    PROVE  GateHeld'
  <1>1. ASSUME NEW d \in Conn, work'[d].at \in {"inside", "open"}
        PROVE  work'[d].slot \in Slot /\ gate'[work'[d].slot] = d
    BY <1>1 DEF GateHeld
  <1>2. ASSUME NEW i \in Slot, gate'[i] # None
        PROVE  work'[gate'[i]].at \in {"inside", "open"} /\ work'[gate'[i]].slot = i
    <2>1. gate[i] \in Conn /\ gate[i] # c  BY <1>2 DEF GateHeld, Shaped
    <2> QED  BY <1>2, <2>1 DEF GateHeld
  <1> QED  BY <1>1, <1>2 DEF GateHeld

\* A request that leaves opens the gate it held.
LEMMA LeavingKeepsGate ==
    ASSUME Shaped, GateHeld, Shaped', NEW c \in Conn,
           work[c].at \in {"inside", "open"}, work'[c].at \notin {"inside", "open"},
           gate' = [gate EXCEPT ![work[c].slot] = None],
           \A d \in Conn \ {c} : work'[d] = work[d]
    PROVE  GateHeld'
  <1>s. work[c].slot \in Slot /\ gate[work[c].slot] = c  BY DEF GateHeld
  <1>g. \A i \in Slot : gate'[i] = IF i = work[c].slot THEN None ELSE gate[i]
    BY DEF Shaped
  <1>1. ASSUME NEW d \in Conn, work'[d].at \in {"inside", "open"}
        PROVE  work'[d].slot \in Slot /\ gate'[work'[d].slot] = d
    <2>1. d # c /\ work'[d] = work[d]  BY <1>1
    <2>2. work[d].slot \in Slot /\ gate[work[d].slot] = d  BY <1>1, <2>1 DEF GateHeld
    <2> QED  BY <1>s, <1>g, <2>1, <2>2
  <1>2. ASSUME NEW i \in Slot, gate'[i] # None
        PROVE  work'[gate'[i]].at \in {"inside", "open"} /\ work'[gate'[i]].slot = i
    <2>1. i # work[c].slot /\ gate'[i] = gate[i]  BY <1>g, <1>2
    <2>2. gate[i] \in Conn /\ gate[i] # c  BY <1>2, <2>1 DEF GateHeld, Shaped
    <2> QED  BY <1>2, <2>1, <2>2 DEF GateHeld
  <1> QED  BY <1>1, <1>2 DEF GateHeld

\* Whoever enters a slot shuts its gate, and whoever leaves opens it, by an answer,
\* an error or a panic (host.rs enter).
LEMMA GateStays ==
    ASSUME Shaped, GateHeld, InTurn, Shaped', NEW c \in Conn,
           Serve(c) \/ Panic(c) \/ HangUp(c)
    PROVE  GateHeld'
  <1> USE SessionAssumption
  <1>w. work \in [Conn -> [at : Stages, req : Request \cup {None}, slot : 0..MaxSlot]]
    BY DEF Shaped
  <1>a. ASSUME NEW req, Answer(c, req)
        PROVE  work'[c].at = "reply" /\ \A d \in Conn \ {c} : work'[d] = work[d]
    BY <1>a, <1>w DEF Answer
  <1>1. CASE Unreadable(c) \/ Registries(c) \/ Prepare(c) \/ InitLooks(c) \/ InitMakes(c)
             \/ Adopt(c) \/ Dispatch(c)
    <2>1. UNCHANGED gate
      BY <1>1 DEF Unreadable, Registries, Prepare, InitLooks, InitMakes, Adopt, Dispatch,
                  hostVars
    <2>2. work[c].at \notin {"inside", "open"}
      BY <1>1 DEF Unreadable, Registries, Prepare, InitLooks, InitMakes, Adopt, Dispatch,
                  Reading
    <2>3. work'[c].at \notin {"inside", "open"} /\ \A d \in Conn \ {c} : work'[d] = work[d]
      BY <1>1, <1>a, <1>w DEF Unreadable, Registries, Prepare, InitLooks, InitMakes, Adopt,
                              Dispatch
    <2> QED  BY <2>1, <2>2, <2>3, OutsideKeepsGate
  <1>2. CASE Enter(c)
    <2>1. /\ work[c].slot \in Slot /\ gate[work[c].slot] = None
          /\ work'[c].at = "inside" /\ work'[c].slot = work[c].slot
          /\ gate' = [gate EXCEPT ![work[c].slot] = c]
          /\ \A d \in Conn \ {c} : work'[d] = work[d]
      BY <1>2, <1>w DEF Enter, InTurn, InTurnOf, Slot
    <2>2. \A i \in Slot : gate'[i] = IF i = work[c].slot THEN c ELSE gate[i]
      BY <2>1 DEF Shaped
    <2>3. ASSUME NEW d \in Conn, work'[d].at \in {"inside", "open"}
          PROVE  work'[d].slot \in Slot /\ gate'[work'[d].slot] = d
      <3>1. CASE d = c  BY <2>1, <2>2, <3>1
      <3>2. CASE d # c
        <4>1. work[d].slot \in Slot /\ gate[work[d].slot] = d
          BY <2>1, <2>3, <3>2 DEF GateHeld
        <4> QED  BY <2>1, <2>2, <3>2, <4>1
      <3> QED  BY <3>1, <3>2
    <2>4. ASSUME NEW i \in Slot, gate'[i] # None
          PROVE  work'[gate'[i]].at \in {"inside", "open"} /\ work'[gate'[i]].slot = i
      <3>1. CASE i = work[c].slot  BY <2>1, <2>2, <3>1
      <3>2. CASE i # work[c].slot
        <4>1. gate'[i] = gate[i] /\ gate[i] \in Conn  BY <2>2, <2>4, <3>2 DEF Shaped
        <4>2. gate[i] # c  BY <1>2, <2>4, <4>1 DEF GateHeld, Enter
        <4> QED  BY <2>1, <2>4, <4>1, <4>2 DEF GateHeld
      <3> QED  BY <3>1, <3>2
    <2> QED  BY <2>3, <2>4 DEF GateHeld
  <1>3. CASE Open(c)
    <2>1. CASE Answer(c, work[c].req) /\ gate' = [gate EXCEPT ![work[c].slot] = None]
      BY <1>3, <1>a, <2>1, LeavingKeepsGate DEF Open
    <2>2. CASE work' = [work EXCEPT ![c].at = "open"] /\ UNCHANGED gate
      <3>1. /\ work'[c].at = "open" /\ work'[c].slot = work[c].slot /\ work[c].at = "inside"
            /\ \A d \in Conn \ {c} : work'[d] = work[d]
        BY <1>3, <2>2, <1>w DEF Open
      <3>2. ASSUME NEW d \in Conn, work'[d].at \in {"inside", "open"}
            PROVE  work'[d].slot \in Slot /\ gate'[work'[d].slot] = d
        BY <2>2, <3>1, <3>2 DEF GateHeld
      <3>3. ASSUME NEW i \in Slot, gate'[i] # None
            PROVE  work'[gate'[i]].at \in {"inside", "open"} /\ work'[gate'[i]].slot = i
        <4>1. gate[i] \in Conn /\ gate'[i] = gate[i]  BY <2>2, <3>3 DEF Shaped
        <4>2. work[gate[i]].at \in {"inside", "open"} /\ work[gate[i]].slot = i
          BY <3>3, <4>1 DEF GateHeld
        <4> QED  BY <3>1, <4>1, <4>2
      <3> QED  BY <3>2, <3>3 DEF GateHeld
    <2> QED  BY <1>3, <2>1, <2>2 DEF Open
  <1>4. CASE Finish(c)
    BY <1>4, <1>a, LeavingKeepsGate DEF Finish
  <1>5. CASE Reply(c) \/ HangUp(c)
    <2>1. UNCHANGED gate /\ work' = [work EXCEPT ![c] = NoWork]
          /\ work[c].at \notin {"inside", "open"}
      BY <1>5 DEF Reply, HangUp, Gone, hostVars
    <2>2. work'[c].at = "idle" /\ \A d \in Conn \ {c} : work'[d] = work[d]
      BY <2>1, <1>w DEF NoWork
    <2> QED  BY <2>1, <2>2, OutsideKeepsGate
  <1>6. CASE Panic(c)
    <2>1. work'[c].at = "idle" /\ \A d \in Conn \ {c} : work'[d] = work[d]
      BY <1>6, <1>w DEF Panic, Gone, NoWork
    <2> QED  BY <1>6, <2>1, LeavingKeepsGate DEF Panic
  <1> QED  BY <1>1, <1>2, <1>3, <1>4, <1>5, <1>6 DEF Serve

---------------------------------------------------------------------------
(* Messages and answers.                                                   *)

\* What one connection does is not seen by the others.
LEMMA OthersUntouched ==
    ASSUME Shaped, NEW c \in Conn, NEW d \in Conn \ {c},
           Moves(c)
    PROVE  /\ conn'[d] = conn[d] /\ work'[d] = work[d]
           /\ sent'[d] = sent[d] /\ replies'[d] = replies[d] /\ told'[d] = told[d]
  <1>1. CASE \/ Handshake(c) \/ \E h \in bound.hellos, reads \in BOOLEAN : Dial(c, h, reads)
             \/ \E req \in bound.requests : Ask(c, req)
    BY <1>1 DEF Handshake, RefuseHello, Authorize, Route, Dial, Ask, Tell, Shaped
  <1>2. CASE Serve(c)
    BY <1>2 DEF Serve, Unreadable, Registries, Prepare, InitLooks, InitMakes, Adopt,
                Dispatch, Enter, Open, Finish, Reply, Answer, Tell, Shaped
  <1>3. CASE Panic(c) \/ HangUp(c)  BY <1>3 DEF Panic, HangUp, Gone, Shaped
  <1> QED  BY <1>1, <1>2, <1>3

\* A step of a connection that leaves its messages and its phase alone, and keeps
\* the request it works on.
LEMMA StillInTurn ==
    ASSUME InTurn, NEW c \in Conn, UNCHANGED bound,
           conn'[c] = conn[c], sent'[c] = sent[c], replies'[c] = replies[c],
           work'[c].at # "idle" =>
              /\ conn[c].phase = "settled" /\ Len(replies[c]) < Len(sent[c])
              /\ work'[c].req = Taken(c),
           work'[c].at \in {"waiting", "inside", "open"} <=> work'[c].slot # 0,
           work'[c].at \in {"prepared", "absent", "made"} =>
              work'[c].req.kind = "create" /\ work'[c].req.registry \in conn[c].scope
    PROVE  InTurnOf(c)'
  BY DEF InTurn, InTurnOf, Taken

\* An answer is to the request that is worked on.
LEMMA AnsweredInTurn ==
    ASSUME Shaped, InTurn, NEW c \in Conn, UNCHANGED <<bound, conn, sent, replies>>,
           conn[c].phase = "settled", Len(replies[c]) < Len(sent[c]), Answer(c, Taken(c))
    PROVE  InTurnOf(c)'
  <1>1. work'[c] = [at |-> "reply", req |-> Taken(c), slot |-> 0]  BY DEF Answer, Shaped
  <1>2. work'[c].at = "reply" /\ work'[c].req = Taken(c) /\ work'[c].slot = 0  BY <1>1
  <1> QED  BY <1>2, StillInTurn

\* The handshake has no messages in hand.
LEMMA HandshakeInTurn ==
    ASSUME Shaped, InTurn, NEW c \in Conn,
           Handshake(c) \/ \E h \in bound.hellos, reads \in BOOLEAN : Dial(c, h, reads)
    PROVE  InTurnOf(c)'
  <1>1. UNCHANGED <<bound, work, sent, replies>> /\ work[c].at = "idle"
    BY DEF Handshake, RefuseHello, Authorize, Route, Dial, InTurn, InTurnOf, keyVars
  <1> QED  BY <1>1 DEF InTurn, InTurnOf

\* The request loop takes the first message it has not answered, and answers that
\* one (serve.rs session).
LEMMA RequestsInTurn ==
    ASSUME Shaped, InTurn, Shaped', NEW c \in Conn, UNCHANGED bound,
           Serve(c) \/ Panic(c) \/ HangUp(c) \/ \E req \in bound.requests : Ask(c, req)
    PROVE  InTurnOf(c)'
  <1> USE SessionAssumption
  <1>w. work \in [Conn -> [at : Stages, req : Request \cup {None}, slot : 0..MaxSlot]]
    BY DEF Shaped
  <1>s. sent[c] \in Seq(Request) /\ replies[c] \in Seq(Request)  BY DEF Shaped
  <1>i. InTurnOf(c)  BY DEF InTurn
  <1>t. Reading(c) => conn[c].phase = "settled" /\ Len(replies[c]) < Len(sent[c])
    BY DEF Reading
  <1>1. ASSUME NEW req \in bound.requests, Ask(c, req) PROVE InTurnOf(c)'
    <2>1. req \in Request  BY DEF Shaped, Scenario
    <2>2. /\ sent'[c] = Append(sent[c], req) /\ Len(sent[c]) < bound.asks
          /\ UNCHANGED <<conn, work, replies>>
      BY <1>1 DEF Ask, Shaped
    <2>3. /\ Len(sent'[c]) = Len(sent[c]) + 1
          /\ \A i \in 1..Len(sent[c]) : sent'[c][i] = sent[c][i]
      BY <1>s, <2>1, <2>2
    <2>4. bound.asks \in Nat  BY DEF Shaped, Scenario
    <2>5. \A i \in 1..Len(replies[c]) : i \in 1..Len(sent[c])  BY <1>i, <1>s DEF InTurnOf
    <2>6. Len(replies[c]) < Len(sent[c]) => Taken(c)' = Taken(c)
      <3>1. ASSUME Len(replies[c]) < Len(sent[c])
            PROVE  Len(replies[c]) + 1 \in 1..Len(sent[c])
        BY <1>s, <3>1
      <3> QED  BY <2>2, <2>3, <3>1 DEF Taken
    <2>7. /\ Len(sent'[c]) <= bound.asks /\ Len(replies[c]) <= Len(sent'[c])
          /\ Len(replies[c]) < Len(sent[c]) => Len(replies[c]) < Len(sent'[c])
      BY <1>i, <1>s, <2>2, <2>3, <2>4 DEF InTurnOf
    <2>8. \A i \in 1..Len(replies[c]) : replies[c][i] = sent'[c][i]
      BY <1>i, <2>3, <2>5 DEF InTurnOf
    <2> QED  BY <1>i, <2>2, <2>6, <2>7, <2>8 DEF InTurnOf
  <1>2. CASE Unreadable(c) \/ Registries(c)
    <2>1. Reading(c) /\ Answer(c, Taken(c)) /\ UNCHANGED <<conn, sent, replies>>
      BY <1>2 DEF Unreadable, Registries
    <2> QED  BY <1>t, <2>1, AnsweredInTurn
  <1>3. CASE Prepare(c)
    <2>1. Reading(c) /\ Taken(c).kind = "create" /\ UNCHANGED <<conn, sent, replies>>
      BY <1>3 DEF Prepare
    <2>2. CASE Answer(c, Taken(c))
      BY <1>t, <2>1, <2>2, AnsweredInTurn
    <2>3. CASE /\ Taken(c).registry \in conn[c].scope
               /\ work' = [work EXCEPT ![c] = [at |-> "prepared", req |-> Taken(c), slot |-> 0]]
      <3>1. work'[c] = [at |-> "prepared", req |-> Taken(c), slot |-> 0]  BY <1>w, <2>3
      <3> QED  BY <1>t, <2>1, <2>3, <3>1, StillInTurn
    <2> QED  BY <1>3, <2>2, <2>3 DEF Prepare
  <1>4. CASE InitLooks(c) \/ InitMakes(c) \/ Adopt(c)
    <2>1. /\ work[c].at \in {"prepared", "absent", "made"}
          /\ UNCHANGED <<conn, sent, replies>>
      BY <1>4 DEF InitLooks, InitMakes, Adopt
    <2>2. CASE Answer(c, work[c].req)
      BY <1>i, <2>1, <2>2, AnsweredInTurn DEF InTurnOf
    <2>3. CASE work' = [work EXCEPT ![c].at = "absent"] \/ work' = [work EXCEPT ![c].at = "made"]
      <3>1. /\ work'[c].at \in {"absent", "made"}
            /\ work'[c].req = work[c].req /\ work'[c].slot = work[c].slot
        BY <1>w, <2>3
      <3> QED  BY <1>i, <2>1, <3>1, StillInTurn DEF InTurnOf
    <2> QED  BY <1>4, <2>2, <2>3 DEF InitLooks, InitMakes, Adopt
  <1>5. CASE Dispatch(c)
    <2>1. Reading(c) /\ UNCHANGED <<conn, sent, replies>>  BY <1>5 DEF Dispatch
    <2>2. CASE Answer(c, Taken(c))
      BY <1>t, <2>1, <2>2, AnsweredInTurn
    <2>3. CASE /\ Chosen(c, Taken(c)) # 0
               /\ work' = [work EXCEPT ![c] = [at |-> "waiting", req |-> Taken(c),
                                               slot |-> Chosen(c, Taken(c))]]
      <3>1. work'[c] = [at |-> "waiting", req |-> Taken(c), slot |-> Chosen(c, Taken(c))]
        BY <1>w, <2>3
      <3> QED  BY <1>t, <2>1, <2>3, <3>1, StillInTurn
    <2> QED  BY <1>5, <2>2, <2>3 DEF Dispatch
  <1>6. CASE Enter(c) \/ Open(c) \/ Finish(c)
    <2>1. /\ work[c].at \in {"waiting", "inside", "open"}
          /\ UNCHANGED <<conn, sent, replies>>
      BY <1>6 DEF Enter, Open, Finish
    <2>2. CASE Answer(c, work[c].req)
      BY <1>i, <2>1, <2>2, AnsweredInTurn DEF InTurnOf
    <2>3. CASE work' = [work EXCEPT ![c].at = "inside"] \/ work' = [work EXCEPT ![c].at = "open"]
      <3>1. /\ work'[c].at \in {"inside", "open"}
            /\ work'[c].req = work[c].req /\ work'[c].slot = work[c].slot
        BY <1>w, <2>3
      <3> QED  BY <1>i, <2>1, <3>1, StillInTurn DEF InTurnOf
    <2> QED  BY <1>6, <2>2, <2>3 DEF Enter, Open, Finish
  <1>7. CASE Reply(c)
    <2>1. /\ replies'[c] = Append(replies[c], Taken(c)) /\ work'[c] = NoWork
          /\ Len(replies[c]) < Len(sent[c]) /\ UNCHANGED <<conn, sent>>
      BY <1>7, <1>i, <1>w DEF Reply, InTurnOf, Shaped
    <2>2. Taken(c) \in Request  BY <2>1, TakenIsRequest
    <2>3. /\ Len(replies'[c]) = Len(replies[c]) + 1
          /\ \A i \in 1..Len(replies[c]) : replies'[c][i] = replies[c][i]
          /\ replies'[c][Len(replies[c]) + 1] = Taken(c)
      BY <1>s, <2>1, <2>2
    <2>4. \A i \in 1..Len(replies'[c]) : replies'[c][i] = sent'[c][i]
      <3> SUFFICES ASSUME NEW i \in 1..Len(replies'[c]) PROVE replies'[c][i] = sent[c][i]
        BY <2>1
      <3>1. i \in 1..Len(replies[c]) \/ i = Len(replies[c]) + 1  BY <1>s, <2>3
      <3> QED  BY <1>i, <2>3, <3>1 DEF InTurnOf, Taken
    <2>5. Len(replies'[c]) <= Len(sent'[c])  BY <1>s, <2>1, <2>3
    <2> QED  BY <1>i, <2>1, <2>4, <2>5 DEF InTurnOf, NoWork
  <1>8. CASE Panic(c) \/ HangUp(c)
    <2>1. work'[c] = NoWork /\ sent'[c] = <<>> /\ replies'[c] = <<>>
      BY <1>8 DEF Panic, HangUp, Gone, Shaped
    <2>2. bound.asks \in Nat  BY DEF Shaped, Scenario
    <2> QED  BY <2>1, <2>2 DEF InTurnOf, NoWork
  <1> QED  BY <1>1, <1>2, <1>3, <1>4, <1>5, <1>6, <1>7, <1>8 DEF Serve

---------------------------------------------------------------------------
(* What connections are told.                                              *)

\* A registry that is hosted stays hosted (host.rs adopt is all that changes slots).
LEMMA HostedStays ==
    ASSUME Shaped, NEW c \in Conn, NEW r \in Registry, hosted[r] # 0,
           Moves(c)
    PROVE  hosted'[r] # 0
  <1>1. CASE Adopt(c)
    <2>1. PICK i \in Slot : hosted' = [hosted EXCEPT ![work[c].req.registry] = i]
      BY <1>1 DEF Adopt
    <2>2. i # 0  BY SessionAssumption DEF Slot
    <2> QED  BY <2>1, <2>2 DEF Shaped
  <1>2. CASE ~Adopt(c)
    BY <1>2 DEF Handshake, RefuseHello, Authorize, Route, Dial, Ask, Serve, Unreadable,
                Registries, Prepare, InitLooks, InitMakes, Dispatch, Enter, Open, Finish,
                Reply, Panic, HangUp, hostVars
  <1> QED  BY <1>1, <1>2

\* A connection is told of hosted registries in its scope, and loses what it was
\* told when it ends (host.rs route_within, serve.rs session).
LEMMA ToldStays ==
    ASSUME Shaped, InTurn, ToldInScope, NEW c \in Conn,
           Moves(c)
    PROVE  ToldInScope'
  <1> USE SessionAssumption
  <1>o. ASSUME NEW d \in Conn, conn'[d] = conn[d], told'[d] = told[d] PROVE ToldOf(d)'
    <2>1. told[d] \subseteq Registry  BY DEF Shaped
    <2> QED  BY <1>o, <2>1, HostedStays DEF ToldInScope, ToldOf
  <1>v. \A s \in SUBSET Registry : Visible(s) \subseteq s /\ \A r \in Visible(s) : hosted[r] # 0
    BY DEF Visible
  <1>c. ToldOf(c)'
    <2>1. CASE \E h \in bound.hellos, reads \in BOOLEAN : Dial(c, h, reads)
      <3>1. told'[c] = {}  BY <2>1 DEF Dial, ToldInScope, ToldOf
      <3> QED  BY <3>1 DEF ToldOf
    <2>2. CASE RefuseHello(c) \/ Authorize(c)
      <3>1. told'[c] = {}  BY <2>2 DEF RefuseHello, Authorize, ToldInScope, ToldOf
      <3> QED  BY <3>1 DEF ToldOf
    <2>3. CASE Route(c)
      <3> DEFINE r == Routed(conn[c].hello.registry, conn[c].scope)
                 names == IF r # None THEN {r} ELSE Visible(conn[c].scope)
      <3>1. names \subseteq Visible(conn[c].scope)  BY DEF Routed
      <3>2. told'[c] = told[c] \cup names /\ UNCHANGED hosted
        BY <2>3 DEF Route, Tell, Shaped, hostVars
      <3>3. conn'[c].scope = conn[c].scope /\ conn'[c].phase \in {"refused", "settled"}
        BY <2>3 DEF Route, Shaped
      <3>4. conn[c].scope \in SUBSET Registry  BY DEF Shaped
      <3> QED  BY <1>v, <3>1, <3>2, <3>3, <3>4 DEF ToldInScope, ToldOf
    <2>4. CASE Registries(c) \/ Dispatch(c)
      <3>1. /\ conn[c].phase = "settled" /\ UNCHANGED <<conn, hosted>>
            /\ told'[c] = told[c] \/ told'[c] = told[c] \cup Visible(conn[c].scope)
        BY <2>4 DEF Registries, Dispatch, Reading, Tell, Shaped, hostVars
      <3>2. conn[c].scope \in SUBSET Registry  BY DEF Shaped
      <3> QED  BY <1>v, <3>1, <3>2 DEF ToldInScope, ToldOf
    <2>5. CASE Panic(c) \/ HangUp(c)
      <3>1. told'[c] = {}  BY <2>5 DEF Panic, HangUp, Gone, Shaped
      <3> QED  BY <3>1 DEF ToldOf
    <2>6. CASE \/ \E req \in bound.requests : Ask(c, req)
               \/ Unreadable(c) \/ Prepare(c) \/ InitLooks(c) \/ InitMakes(c) \/ Adopt(c)
               \/ Enter(c) \/ Open(c) \/ Finish(c) \/ Reply(c)
      BY <1>o, <2>6 DEF Ask, Unreadable, Prepare, InitLooks, InitMakes, Adopt, Enter, Open,
                        Finish, Reply
    <2> QED  BY <2>1, <2>2, <2>3, <2>4, <2>5, <2>6 DEF Handshake, Serve
  <1> SUFFICES ASSUME NEW d \in Conn PROVE ToldOf(d)'  BY DEF ToldInScope
  <1>1. CASE d = c  BY <1>1, <1>c
  <1>2. CASE d # c  BY <1>2, <1>o, OthersUntouched
  <1> QED  BY <1>1, <1>2

---------------------------------------------------------------------------
(* The invariant, and what follows from it.                                *)

\* No step of an operator, a client or a session breaks any part.
LEMMA SessionSteps == SessionSafe /\ [Next]_vars => SessionSafe'
  <1> SUFFICES ASSUME SessionSafe, [Next]_vars PROVE SessionSafe'  OBVIOUS
  <1>i. Shaped /\ KeysInForce /\ GateHeld /\ InTurn /\ ToldInScope  BY DEF SessionSafe
  <1>1. ASSUME NEW s \in Secret, KeyCommand("issue", s) \/ KeyCommand("revoke", s)
        PROVE  SessionSafe'
    <2>1. UNCHANGED <<keys, issued, revoked, hostVars, talkVars>>  BY <1>1 DEF KeyCommand
    <2>2. /\ bound' \in Scenario /\ bound'.asks = bound.asks /\ KeysInForce'
          /\ admin' \in [op : {"none", "issue", "revoke"}, secret : Secret \cup {None},
                         loaded : SUBSET Secret]
      BY <1>i, <1>1, KeysStay
    <2>3. Shaped'  BY <1>i, <2>1, <2>2 DEF Shaped, hostVars, talkVars
    <2>4. GateHeld' /\ InTurn' /\ ToldInScope'
      BY <1>i, <2>1, <2>2 DEF GateHeld, InTurn, InTurnOf, ToldInScope, ToldOf, Taken,
                              hostVars, talkVars
    <2> QED  BY <2>2, <2>3, <2>4 DEF SessionSafe
  <1>2. CASE Save \/ Corrupt
    <2>1. UNCHANGED <<bound, hostVars, talkVars>>  BY <1>2 DEF Save, Corrupt
    <2>2. /\ KeysInForce' /\ keys' \in KeyFiles /\ issued' \subseteq Secret
          /\ revoked' \subseteq Secret
          /\ admin' \in [op : {"none", "issue", "revoke"}, secret : Secret \cup {None},
                         loaded : SUBSET Secret]
      <3>1. CASE Save  BY <1>i, <3>1, KeysSaved DEF NoAdmin
      <3>2. CASE Corrupt  BY <1>i, <3>2, KeysCorrupted DEF Corrupt, Shaped
      <3> QED  BY <1>2, <3>1, <3>2
    <2>3. Shaped'  BY <1>i, <2>1, <2>2 DEF Shaped, hostVars, talkVars
    <2>4. GateHeld' /\ InTurn' /\ ToldInScope'
      BY <1>i, <2>1 DEF GateHeld, InTurn, InTurnOf, ToldInScope, ToldOf, Taken,
                        hostVars, talkVars
    <2> QED  BY <2>2, <2>3, <2>4 DEF SessionSafe
  <1>3. ASSUME NEW c \in Conn,
               Moves(c)
        PROVE  SessionSafe'
    <2>1. UNCHANGED keyVars  BY <1>3, KeysUntouched
    <2>2. KeysInForce'  BY <1>i, <2>1 DEF KeysInForce, keyVars
    <2>3. Shaped'  BY <1>i, <1>3, HandshakeShaped, RequestsShaped
    <2>4. GateHeld'
      <3>1. CASE Serve(c) \/ Panic(c) \/ HangUp(c)  BY <1>i, <2>3, <3>1, GateStays
      <3>2. CASE \/ Handshake(c) \/ \E h \in bound.hellos, reads \in BOOLEAN : Dial(c, h, reads)
                 \/ \E req \in bound.requests : Ask(c, req)
        <4>1. UNCHANGED <<gate, work>>
          BY <3>2 DEF Handshake, RefuseHello, Authorize, Route, Dial, Ask, hostVars
        <4> QED  BY <1>i, <4>1 DEF GateHeld
      <3> QED  BY <1>3, <3>1, <3>2
    <2>5. InTurn'
      <3>1. InTurnOf(c)'
        BY <1>i, <1>3, <2>1, <2>3, HandshakeInTurn, RequestsInTurn DEF keyVars
      <3>2. ASSUME NEW d \in Conn \ {c} PROVE InTurnOf(d)'
        <4>1. /\ conn'[d] = conn[d] /\ work'[d] = work[d]
              /\ sent'[d] = sent[d] /\ replies'[d] = replies[d]
          BY <1>i, <1>3, OthersUntouched
        <4> QED  BY <1>i, <2>1, <4>1 DEF InTurn, InTurnOf, Taken, keyVars
      <3> QED  BY <3>1, <3>2 DEF InTurn
    <2>6. ToldInScope'  BY <1>i, <1>3, ToldStays
    <2> QED  BY <2>2, <2>3, <2>4, <2>5, <2>6 DEF SessionSafe
  <1>4. CASE UNCHANGED vars
    BY <1>i, <1>4 DEF SessionSafe, Shaped, KeysInForce, GateHeld, InTurn, InTurnOf,
                      ToldInScope, ToldOf, Taken, vars, keyVars, hostVars, talkVars
  <1> QED  BY <1>1, <1>2, <1>3, <1>4 DEF Next

\* The invariant says all that the runs check of the conversation.
LEMMA SafeSaysInv == SessionSafe => SessionInv
  <1> SUFFICES ASSUME SessionSafe PROVE SessionInv  OBVIOUS
  <1> USE SessionAssumption
  <1>i. Shaped /\ KeysInForce /\ GateHeld /\ InTurn /\ ToldInScope  BY DEF SessionSafe
  <1>1. TypeOK
    <2>1. opened \in [Slot -> Nat]
      <3>1. opened \in [Slot -> {0, 1}]  BY <1>i DEF Shaped
      <3>2. \A i \in Slot : opened[i] \in Nat  BY <3>1
      <3> QED  BY <3>1, <3>2
    <2>2. ASSUME NEW c \in Conn
          PROVE  /\ conn[c].phase \in Phases /\ conn[c].scope \subseteq Registry
                 /\ work[c].at \in Stages /\ work[c].slot \in 0..MaxSlot
                 /\ told[c] \subseteq Registry
      BY <1>i DEF Shaped
    <2>3. \A c \in Conn : work[c].at \in {"inside", "open"} => gate[work[c].slot] = c
      BY <1>i DEF GateHeld
    <2>4. \A c \in Conn : Len(sent[c]) <= bound.asks
      BY <1>i DEF InTurn, InTurnOf
    <2>5. \A i \in Slot : gate[i] # None =>
             work[gate[i]].at \in {"inside", "open"} /\ work[gate[i]].slot = i
      BY <1>i DEF GateHeld
    <2>6. \A c \in Conn : \A r \in told[c] : hosted[r] # 0
      BY <1>i DEF ToldInScope, ToldOf
    <2>7. /\ keys \in KeyFiles /\ revoked \subseteq issued /\ issued \subseteq Secret
          /\ admin.op \in {"none", "issue", "revoke"}
          /\ hosted \in [Registry -> 0..MaxSlot] /\ stores \subseteq Registry
          /\ gate \in [Slot -> Conn \cup {None}]
      BY <1>i DEF Shaped, KeysInForce
    <2> QED  BY <2>1, <2>2, <2>3, <2>4, <2>5, <2>6, <2>7 DEF TypeOK
  <1>2. OneInside
    <2>1. \A s \in Slot : opened[s] <= 1
      <3>1. opened \in [Slot -> {0, 1}]  BY <1>i DEF Shaped
      <3>2. \A s \in Slot : opened[s] = 0 \/ opened[s] = 1  BY <3>1
      <3> QED  BY <3>2
    <2>2. \A c \in Conn : work[c].at \in {"inside", "open"} => gate[work[c].slot] = c
      BY <1>i DEF GateHeld
    <2> QED  BY <2>1, <2>2 DEF OneInside
  <1>3. ASSUME NEW c \in Conn PROVE IsPrefix(replies[c], sent[c])
    <2>1. sent[c] \in Seq(Request) /\ replies[c] \in Seq(Request)  BY <1>i DEF Shaped
    <2>2. Len(replies[c]) <= Len(sent[c])  BY <1>i DEF InTurn, InTurnOf
    <2>3. \A i \in 1..Len(replies[c]) : replies[c][i] = sent[c][i]
      BY <1>i DEF InTurn, InTurnOf
    <2>4. SubSeq(replies[c], 1, Len(replies[c])) = SubSeq(sent[c], 1, Len(replies[c]))
      <3> DEFINE n == Len(replies[c])
                 a == SubSeq(replies[c], 1, n)
                 b == SubSeq(sent[c], 1, n)
      <3>1. n \in Nat /\ n <= Len(sent[c])  BY <2>1, <2>2
      <3>2. a \in Seq(Request) /\ Len(a) = n /\ \A i \in 1..n : a[i] = replies[c][i]
        BY <2>1, <3>1
      <3>3. b \in Seq(Request) /\ Len(b) = n /\ \A i \in 1..n : b[i] = sent[c][i]
        BY <2>1, <3>1
      <3>4. \A i \in 1..n : a[i] = b[i]  BY <2>3, <3>2, <3>3
      <3> HIDE DEF a, b
      <3>5. a = [i \in 1..n |-> a[i]] /\ b = [i \in 1..n |-> b[i]]
        BY <3>1, <3>2, <3>3
      <3>6. [i \in 1..n |-> a[i]] = [i \in 1..n |-> b[i]]
        BY <3>4
      <3>7. a = b  BY <3>5, <3>6, Zenon
      <3> QED  BY <3>7 DEF a, b
    <2> QED  BY <2>2, <2>4 DEF IsPrefix
  <1> QED  BY <1>1, <1>2, <1>3 DEF SessionInv, AnswersLineUp

\* Every request is answered once and in its order, one request at a time is inside
\* a slot, whose store was opened once, and a registry a client was told of stays
\* (serve.rs session, host.rs enter and ops), for any number of all of them.
THEOREM SessionTheorem == Spec => []SessionInv
  <1>1. Init => SessionSafe  BY SessionStarts
  <1>2. SessionSafe /\ [Next]_vars => SessionSafe'  BY SessionSteps
  <1>3. SessionSafe => SessionInv  BY SafeSaysInv
  <1> QED  BY <1>1, <1>2, <1>3, PTL DEF Spec

\* Once a key was issued nobody is let in without a key in force or the admin key,
\* whatever the operator does to the file meanwhile (keys.rs authorize and save).
THEOREM KeyHoldersTheorem == Spec => OnlyKeyHolders
  <1>1. Init => SessionSafe  BY SessionStarts
  <1>2. SessionSafe /\ [Next]_vars => SessionSafe'  BY SessionSteps
  <1>3. SessionSafe /\ [Next]_vars =>
          [\A c \in Conn :
             conn[c].phase = "greeted" /\ conn'[c].phase = "authorized" /\ issued # {}
               => conn[c].hello.cred \in (issued \ revoked) \cup {"admin"}]_vars
    <2>a. SUFFICES ASSUME NEW c \in Conn, conn[c].phase = "greeted",
                        conn'[c].phase = "authorized", issued # {},
                        SessionSafe, [Next]_vars
                 PROVE  conn[c].hello.cred \in (issued \ revoked) \cup {"admin"}
      OBVIOUS
    <2>i. Shaped /\ KeysInForce  BY <2>a DEF SessionSafe
    <2>1. Authorize(c)
      <3>1. ~UNCHANGED conn  BY <2>a
      <3>2. PICK d \in Conn :
               Moves(d)
        BY <2>a, <3>1 DEF Next, KeyCommand, Save, Corrupt, vars, talkVars
      <3>3. d = c  BY <2>a, <2>i, <3>2, OthersUntouched
      <3>4. CASE Handshake(c)
        <4>1. RefuseHello(c) => conn'[c].phase = "refused"
          BY <2>i DEF RefuseHello, Shaped
        <4>2. ~Route(c)  BY <2>a DEF Route
        <4> QED  BY <2>a, <3>4, <4>1, <4>2 DEF Handshake
      <3>5. CASE \E h \in bound.hellos, reads \in BOOLEAN : Dial(c, h, reads)
        BY <2>a, <2>i, <3>5 DEF Dial, Shaped
      <3>6. CASE Panic(c) \/ HangUp(c)
        BY <2>a, <2>i, <3>6 DEF Panic, HangUp, Gone, NewConn, Shaped
      <3>7. CASE Serve(c) \/ \E req \in bound.requests : Ask(c, req)
        BY <3>1, <3>7 DEF Serve, Unreadable, Registries, Prepare, InitLooks, InitMakes,
                          Adopt, Dispatch, Enter, Open, Finish, Reply, Ask
      <3> QED  BY <3>2, <3>3, <3>4, <3>5, <3>6, <3>7
    <2>2. Authorized(conn[c].hello.cred) # None  BY <2>a, <2>i, <2>1 DEF Authorize, Shaped
    <2>3. keys.file = "there"
      <3>1. keys.file # "absent"  BY <2>a, <2>i DEF KeysInForce
      <3>2. keys.file = "corrupt" => Authorized(conn[c].hello.cred) = None  BY DEF Authorized
      <3>3. keys.file \in {"absent", "corrupt", "there"}  BY <2>i DEF Shaped, KeyFiles
      <3> QED  BY <2>2, <3>1, <3>2, <3>3
    <2>4. conn[c].hello.cred = "admin" \/ conn[c].hello.cred \in keys.in
      BY <2>2, <2>3 DEF Authorized
    <2> QED  BY <2>i, <2>4 DEF KeysInForce
  <1> QED  BY <1>1, <1>2, <1>3, PTL DEF Spec, OnlyKeyHolders

---------------------------------------------------------------------------
(* Scopes.  The slots a connection works with are those of its scope as    *)
(* long as no slot is replaced, that is, as long as one client at a time   *)
(* makes a registry of a name.                                             *)

\* The requests of a connection that are not answered yet.
Pending(c) == Len(replies[c]) + 1 .. Len(sent[c])

\* No two connections ask for the same new registry.
OneMaker ==
    \A c, d \in Conn : c # d =>
        \A i \in Pending(c), j \in Pending(d) :
            sent[c][i].kind = "create" => sent[c][i] # sent[d][j]

\* The slot of the connection and the slot of its request are slots of names in
\* its scope, and a registry it is making is not hosted meanwhile.
ScopedOf(c) ==
    /\ conn[c].phase \in {"new", "greeted", "authorized"} => conn[c].slot = 0
    /\ conn[c].slot # 0 => \E r \in conn[c].scope : hosted[r] = conn[c].slot
    /\ work[c].slot # 0 => \E r \in conn[c].scope : hosted[r] = work[c].slot
    /\ work[c].at \in {"prepared", "absent", "made"} => hosted[work[c].req.registry] = 0

Scoped == OneMaker /\ \A c \in Conn : ScopedOf(c)

\* A message that a step leaves unanswered was there before, or asks for a
\* registry no other client asks for.
LEMMA PendingGrows ==
    ASSUME ~Racing, Shaped, InTurn, NEW c \in Conn,
           Moves(c),
           NEW i \in Pending(c)'
    PROVE  \/ i \in Pending(c) /\ sent'[c][i] = sent[c][i]
           \/ sent'[c][i].kind = "create" =>
                 \A d \in Conn \ {c} : \A j \in Pending(d) : sent[d][j] # sent'[c][i]
  <1>s. sent[c] \in Seq(Request) /\ replies[c] \in Seq(Request)  BY DEF Shaped
  <1>1. ASSUME NEW req \in bound.requests, Ask(c, req)
        PROVE  \/ i \in Pending(c) /\ sent'[c][i] = sent[c][i]
               \/ sent'[c][i].kind = "create" =>
                     \A d \in Conn \ {c} : \A j \in Pending(d) : sent[d][j] # sent'[c][i]
    <2>1. req \in Request  BY DEF Shaped, Scenario
    <2>2. sent'[c] = Append(sent[c], req) /\ UNCHANGED replies  BY <1>1 DEF Ask, Shaped
    <2>3. /\ Len(sent'[c]) = Len(sent[c]) + 1
          /\ \A k \in 1..Len(sent[c]) : sent'[c][k] = sent[c][k]
          /\ sent'[c][Len(sent[c]) + 1] = req
      BY <1>s, <2>1, <2>2
    <2>4. i \in Len(replies[c]) + 1 .. Len(sent[c]) + 1  BY <2>2, <2>3 DEF Pending
    <2>5. CASE i = Len(sent[c]) + 1
      <3>1. sent'[c][i] = req  BY <2>3, <2>5
      <3> QED  BY <1>1, <3>1 DEF Ask, Pending
    <2>6. CASE i # Len(sent[c]) + 1
      <3>1. i \in Pending(c) /\ i \in 1..Len(sent[c])  BY <1>s, <2>4, <2>6 DEF Pending
      <3> QED  BY <2>3, <3>1
    <2> QED  BY <2>5, <2>6
  <1>2. CASE Reply(c)
    <2>1. work[c].req = Taken(c) /\ Len(replies[c]) < Len(sent[c])
      BY <1>2 DEF Reply, InTurn, InTurnOf
    <2>2. Taken(c) \in Request  BY <2>1, TakenIsRequest
    <2>3. replies'[c] = Append(replies[c], Taken(c)) /\ UNCHANGED sent
      BY <1>2, <2>1 DEF Reply, Shaped
    <2>4. Len(replies'[c]) = Len(replies[c]) + 1  BY <1>s, <2>2, <2>3
    <2> QED  BY <1>s, <2>3, <2>4 DEF Pending
  <1>3. CASE Panic(c) \/ HangUp(c)
    <2>1. sent'[c] = <<>> /\ replies'[c] = <<>>  BY <1>3 DEF Panic, HangUp, Gone, Shaped
    <2> QED  BY <2>1 DEF Pending
  <1>4. CASE UNCHANGED <<sent, replies>>  BY <1>4 DEF Pending
  <1>5. \/ \E req \in bound.requests : Ask(c, req)
        \/ Reply(c) \/ Panic(c) \/ HangUp(c) \/ UNCHANGED <<sent, replies>>
    BY DEF Handshake, RefuseHello, Authorize, Route, Dial, Serve, Unreadable, Registries,
           Prepare, InitLooks, InitMakes, Adopt, Dispatch, Enter, Open, Finish
  <1> QED  BY <1>1, <1>2, <1>3, <1>4, <1>5

\* Ask keeps clients that make registries apart, and answers never bring two of
\* them together.
LEMMA OneMakerStays ==
    ASSUME ~Racing, Shaped, InTurn, OneMaker, NEW c \in Conn,
           Moves(c)
    PROVE  OneMaker'
  <1>o. \A d \in Conn \ {c} : sent'[d] = sent[d] /\ Pending(d)' = Pending(d)
    BY OthersUntouched DEF Pending
  <1>p. \A i \in Pending(c)' :
           \/ i \in Pending(c) /\ sent'[c][i] = sent[c][i]
           \/ sent'[c][i].kind = "create" =>
                 \A d \in Conn \ {c} : \A j \in Pending(d) : sent[d][j] # sent'[c][i]
    BY PendingGrows
  <1> SUFFICES ASSUME NEW a \in Conn, NEW b \in Conn, a # b,
                      NEW i \in Pending(a)', NEW j \in Pending(b)',
                      sent'[a][i].kind = "create"
               PROVE  sent'[a][i] # sent'[b][j]
    BY DEF OneMaker
  <1>1. CASE a = c
    <2>1. b \in Conn \ {c} /\ sent'[b] = sent[b] /\ j \in Pending(b)  BY <1>o, <1>1
    <2>2. CASE i \in Pending(c) /\ sent'[c][i] = sent[c][i]
      BY <1>1, <2>1, <2>2 DEF OneMaker
    <2> QED  BY <1>p, <1>1, <2>1, <2>2
  <1>2. CASE b = c
    <2>1. a \in Conn \ {c} /\ sent'[a] = sent[a] /\ i \in Pending(a)  BY <1>o, <1>2
    <2>2. CASE j \in Pending(c) /\ sent'[c][j] = sent[c][j]
      BY <1>2, <2>1, <2>2 DEF OneMaker
    <2>3. CASE sent'[c][j].kind = "create" =>
                  \A d \in Conn \ {c} : \A k \in Pending(d) : sent[d][k] # sent'[c][j]
      BY <1>2, <2>1, <2>3
    <2> QED  BY <1>p, <1>2, <2>2, <2>3
  <1>3. CASE a # c /\ b # c
    BY <1>o, <1>3 DEF OneMaker
  <1> QED  BY <1>1, <1>2, <1>3

\* While clients make registries apart, a registry keeps the slot it has.
LEMMA SlotStays ==
    ASSUME Shaped, Scoped, NEW c \in Conn, NEW r \in Registry, hosted[r] # 0,
           Moves(c)
    PROVE  hosted'[r] = hosted[r]
  <1>1. CASE Adopt(c)
    <2>1. hosted[work[c].req.registry] = 0  BY <1>1 DEF Adopt, Scoped, ScopedOf
    <2>2. PICK i \in Slot : hosted' = [hosted EXCEPT ![work[c].req.registry] = i]
      BY <1>1 DEF Adopt
    <2> QED  BY <2>1, <2>2 DEF Shaped
  <1>2. CASE ~Adopt(c)
    BY <1>2 DEF Handshake, RefuseHello, Authorize, Route, Dial, Ask, Serve, Unreadable,
                Registries, Prepare, InitLooks, InitMakes, Dispatch, Enter, Open, Finish,
                Reply, Panic, HangUp, hostVars
  <1> QED  BY <1>1, <1>2

\* A registry somebody is making is not adopted under another's hand.
LEMMA UnhostedStays ==
    ASSUME Shaped, InTurn, Scoped, NEW c \in Conn, NEW d \in Conn \ {c},
           work[d].at \in {"prepared", "absent", "made"},
           Moves(c)
    PROVE  hosted'[work[d].req.registry] = 0
  <1>d. /\ hosted[work[d].req.registry] = 0 /\ work[d].req.kind = "create"
        /\ work[d].req = Taken(d) /\ Len(replies[d]) < Len(sent[d])
    BY DEF Scoped, ScopedOf, InTurn, InTurnOf
  <1>1. CASE Adopt(c)
    <2>1. /\ work[c].req.kind = "create" /\ work[c].req = Taken(c)
          /\ Len(replies[c]) < Len(sent[c])
      BY <1>1 DEF Adopt, InTurn, InTurnOf
    <2>2. \A e \in {c, d} : Len(replies[e]) + 1 \in Pending(e)
      <3>1. \A e \in {c, d} : Len(replies[e]) \in Nat /\ Len(sent[e]) \in Nat  BY DEF Shaped
      <3> QED  BY <1>d, <2>1, <3>1 DEF Pending
    <2>3. work[c].req # work[d].req
      BY <1>d, <2>1, <2>2 DEF Taken, Scoped, OneMaker
    <2>4. work[c].req \in Request /\ work[d].req \in Request
      BY <1>d, <2>1, TakenIsRequest
    <2>5. work[c].req.registry # work[d].req.registry
      BY <1>d, <2>1, <2>3, <2>4 DEF Request
    <2>6. PICK i \in Slot : hosted' = [hosted EXCEPT ![work[c].req.registry] = i]
      BY <1>1 DEF Adopt
    <2>7. work[d].req.registry \in Registry  BY DEF InTurn, InTurnOf, Shaped
    <2> QED  BY <1>d, <2>5, <2>6, <2>7 DEF Shaped
  <1>2. CASE ~Adopt(c)
    <2>1. UNCHANGED hosted
      BY <1>2 DEF Handshake, RefuseHello, Authorize, Route, Dial, Ask, Serve, Unreadable,
                  Registries, Prepare, InitLooks, InitMakes, Dispatch, Enter, Open, Finish,
                  Reply, Panic, HangUp, hostVars
    <2> QED  BY <1>d, <2>1
  <1> QED  BY <1>1, <1>2

\* A connection takes its slots from the names it can see (host.rs route_within),
\* and makes only what it found unhosted.
LEMMA OwnSlotsInScope ==
    ASSUME Shaped, Shaped', InTurn, Scoped, NEW c \in Conn,
           Moves(c)
    PROVE  ScopedOf(c)'
  <1> USE SessionAssumption
  <1>s. ScopedOf(c) /\ InTurnOf(c)  BY DEF Scoped, InTurn
  <1>w. work \in [Conn -> [at : Stages, req : Request \cup {None}, slot : 0..MaxSlot]]
    BY DEF Shaped
  <1>c. conn \in [Conn -> [phase : Phases, hello : Hello \cup {None},
                           scope : SUBSET Registry, slot : 0..MaxSlot, reads : BOOLEAN]]
    BY DEF Shaped
  <1>1. CASE \E h \in bound.hellos, reads \in BOOLEAN : Dial(c, h, reads)
    <2>p. PICK h \in bound.hellos, reads \in BOOLEAN : Dial(c, h, reads)  BY <1>1
    <2>1. UNCHANGED <<work, hosted>> /\ conn[c].phase = "new"  BY <2>p DEF Dial, hostVars
    <2>2. conn'[c].slot = conn[c].slot /\ conn'[c].scope = conn[c].scope
      BY ZenonT(60), <1>c, <2>p DEF Dial
    <2> QED  BY <1>s, <2>1, <2>2 DEF ScopedOf
  <1>2. CASE RefuseHello(c) \/ Authorize(c)
    <2>1. /\ conn'[c].slot = conn[c].slot /\ conn[c].phase = "greeted"
          /\ UNCHANGED <<work, hosted>>
      BY <1>2, <1>c DEF RefuseHello, Authorize, hostVars
    <2>2. conn[c].slot = 0 /\ work[c].at = "idle"  BY <1>s, <2>1 DEF ScopedOf, InTurnOf
    <2>3. work[c].slot = 0  BY <1>s, <2>2 DEF InTurnOf
    <2> QED  BY <2>1, <2>2, <2>3 DEF ScopedOf
  <1>3. CASE Route(c)
    <2> DEFINE r == Routed(conn[c].hello.registry, conn[c].scope)
    <2>1. /\ conn'[c].slot = (IF r = None THEN 0 ELSE hosted[r])
          /\ conn'[c].scope = conn[c].scope /\ conn'[c].phase \in {"refused", "settled"}
          /\ UNCHANGED <<work, hosted>>
      BY <1>3, <1>c DEF Route, hostVars
    <2>2. r # None => r \in conn[c].scope  BY DEF Routed, Visible
    <2> QED  BY <1>s, <2>1, <2>2 DEF ScopedOf
  <1>4. CASE Panic(c) \/ HangUp(c)
    <2>1. conn'[c] = NewConn /\ work'[c] = NoWork
      BY <1>4, <1>c, <1>w DEF Panic, HangUp, Gone
    <2> QED  BY <2>1 DEF ScopedOf, NewConn, NoWork
  <1>5. CASE Prepare(c)
    <2>1. UNCHANGED <<conn, hosted>>  BY <1>5 DEF Prepare, hostVars
    <2>2. /\ work'[c].slot = 0
          /\ \/ work'[c].at = "reply"
             \/ work'[c].at = "prepared" /\ hosted[work'[c].req.registry] = 0
      <3>1. \/ work'[c] = [at |-> "reply", req |-> Taken(c), slot |-> 0]
            \/ /\ work'[c] = [at |-> "prepared", req |-> Taken(c), slot |-> 0]
               /\ hosted[Taken(c).registry] = 0
        <4>1. CASE Answer(c, Taken(c))  BY <1>w, <4>1 DEF Answer
        <4>2. CASE /\ hosted[Taken(c).registry] = 0
                   /\ work' = [work EXCEPT ![c] =
                                  [at |-> "prepared", req |-> Taken(c), slot |-> 0]]
          BY <1>w, <4>2
        <4> QED  BY <1>5, <4>1, <4>2 DEF Prepare
      <3> QED  BY <3>1
    <2> QED  BY <1>s, <2>1, <2>2 DEF ScopedOf
  <1>6. CASE InitLooks(c) \/ InitMakes(c)
    <2>1. UNCHANGED <<conn, hosted>> /\ work[c].at \in {"prepared", "absent"}
      BY <1>6 DEF InitLooks, InitMakes, hostVars
    <2>2. \/ work'[c].slot = 0 /\ work'[c].at = "reply"
          \/ work'[c].slot = work[c].slot /\ work'[c].req = work[c].req
      BY <1>6, <1>w DEF InitLooks, InitMakes, Answer
    <2> QED  BY <1>s, <2>1, <2>2 DEF ScopedOf
  <1>7. CASE Adopt(c)
    <2>1. UNCHANGED conn /\ work'[c].slot = 0 /\ work'[c].at = "reply"
      BY <1>7, <1>w DEF Adopt, Answer
    <2>2. \A r \in conn[c].scope : hosted[r] # 0 => hosted'[r] = hosted[r]
      BY <1>7, <1>c, SlotStays DEF Serve
    <2> QED  BY <1>s, <2>1, <2>2 DEF ScopedOf
  <1>8. CASE Dispatch(c)
    <2>1. UNCHANGED <<conn, hosted>> /\ conn[c].phase = "settled"
      BY <1>8 DEF Dispatch, Reading, hostVars
    <2>2. \/ work'[c].slot = 0 /\ work'[c].at = "reply"
          \/ work'[c].slot = Chosen(c, Taken(c)) /\ work'[c].at = "waiting"
      BY <1>8, <1>w DEF Dispatch, Answer
    <2>3. Chosen(c, Taken(c)) # 0 =>
             \E r \in conn[c].scope : hosted[r] = Chosen(c, Taken(c))
      BY <1>s DEF Chosen, Visible, ScopedOf
    <2> QED  BY <1>s, <2>1, <2>2, <2>3 DEF ScopedOf
  <1>9. CASE \/ Unreadable(c) \/ Registries(c) \/ Enter(c) \/ Open(c) \/ Finish(c)
             \/ Reply(c) \/ \E req \in bound.requests : Ask(c, req)
    <2>1. UNCHANGED <<conn, hosted>>
      BY <1>9 DEF Unreadable, Registries, Enter, Open, Finish, Reply, Ask, hostVars
    <2>2. \/ work'[c].slot = 0 /\ work'[c].at \in {"idle", "reply"}
          \/ work'[c].slot = work[c].slot /\ work'[c].at \in {"inside", "open"}
          \/ work'[c] = work[c]
      BY <1>9, <1>w DEF Unreadable, Registries, Enter, Open, Finish, Reply, Ask, Answer,
                        NoWork
    <2> QED  BY <1>s, <2>1, <2>2 DEF ScopedOf
  <1> QED  BY <1>1, <1>2, <1>3, <1>4, <1>5, <1>6, <1>7, <1>8, <1>9 DEF Handshake, Serve

\* A scope bounds the slots of every step.
LEMMA ScopeSteps == ~Racing => (SessionSafe /\ Scoped /\ [Next]_vars => Scoped')
  <1> SUFFICES ASSUME ~Racing, SessionSafe, Scoped, [Next]_vars PROVE Scoped'  OBVIOUS
  <1>i. Shaped /\ InTurn /\ Shaped'  BY SessionSteps DEF SessionSafe
  <1>1. ASSUME NEW c \in Conn,
               Moves(c)
        PROVE  Scoped'
    <2>1. OneMaker'  BY <1>i, <1>1, OneMakerStays DEF Scoped
    <2>2. ScopedOf(c)'  BY <1>i, <1>1, OwnSlotsInScope
    <2>3. ASSUME NEW d \in Conn \ {c} PROVE ScopedOf(d)'
      <3>1. conn'[d] = conn[d] /\ work'[d] = work[d]  BY <1>i, <1>1, OthersUntouched
      <3>2. \A r \in conn[d].scope : hosted[r] # 0 => hosted'[r] = hosted[r]
        <4>1. conn[d].scope \subseteq Registry  BY <1>i DEF Shaped
        <4> QED  BY <1>i, <1>1, <4>1, SlotStays
      <3>3. work[d].at \in {"prepared", "absent", "made"} =>
               hosted'[work[d].req.registry] = 0
        BY <1>i, <1>1, UnhostedStays
      <3>4. ScopedOf(d)  BY DEF Scoped
      <3> QED  BY <3>1, <3>2, <3>3, <3>4 DEF ScopedOf
    <2> QED  BY <2>1, <2>2, <2>3 DEF Scoped
  <1>2. CASE UNCHANGED <<hosted, conn, work, sent, replies>>
    BY <1>2 DEF Scoped, ScopedOf, OneMaker, Pending
  <1> QED
    BY <1>1, <1>2 DEF Next, KeyCommand, Save, Corrupt, vars, hostVars, talkVars

\* A credential bounds what its holder is told and the registries its requests work
\* on (keys.rs permit, host.rs route_within), as long as no two clients make one
\* registry at the same time: adopt replaces a slot without looking.
THEOREM ScopeTheorem == ASSUME ~Racing PROVE Spec => []WithinScope
  <1>1. Init => SessionSafe /\ Scoped
    <2>1. Init => Scoped
      BY DEF Init, Scoped, ScopedOf, OneMaker, Pending, NewConn, NoWork
    <2> QED  BY <2>1, SessionStarts
  <1>2. SessionSafe /\ Scoped /\ [Next]_vars => (SessionSafe /\ Scoped)'
    BY SessionSteps, ScopeSteps
  <1>3. SessionSafe /\ Scoped => WithinScope
    BY DEF SessionSafe, Scoped, ScopedOf, ToldInScope, ToldOf, WithinScope,
           NothingDisclosed, StaysInScope
  <1> QED  BY <1>1, <1>2, <1>3, PTL DEF Spec
=============================================================================
