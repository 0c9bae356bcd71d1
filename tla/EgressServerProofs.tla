--------------------------- MODULE EgressServerProofs --------------------------
(***************************************************************************)
(* Proofs about EgressServer for any clients, any limit and any faults.    *)
(*                                                                         *)
(* The inductive invariant says who holds the permit of a connection       *)
(* (Holds), in which order a connection and its session live (Begins),     *)
(* what each place of the accept loop knows of the watch and of the tasks  *)
(* (Loop), and, when no client pipelines, whether the session or the       *)
(* client has the request (Turns).                                         *)
(***************************************************************************)
EXTENDS EgressServer, FiniteSetTheorems, TLAPS

(* The permit of a connection is held by exactly the tasks that live.      *)
Holds ==
  \A c \in Connections : /\ "connection" \in held[c] <=> ConnAlive(c)
                         /\ "session" \in held[c] <=> SessionAlive(c)

(* A client that has not been accepted has no task, and there is no        *)
(* session before the connection is upgraded.                              *)
Begins ==
  \A c \in Connections :
    /\ client[c] \in {"away", "connecting"} => conn[c] = "none"
    /\ conn[c] \in {"none", "idle", "busy", "last"} => session[c] = "none"

(* The watch follows the loop, and a drain that waits for the sessions has *)
(* no connection left that could become another.                           *)
Loop ==
  /\ server \in {"permit", "accept"} => ws = "Running"
  /\ server \in {"join", "wait"} => ws = "Draining"
  /\ server \in {"force_join", "force_wait", "abort"} => ws = "Force"
  /\ server = "wait" \/ (server = "returned" /\ ws # "Running") => \A c \in Connections : ~ConnAlive(c)
  /\ server = "returned" /\ ws = "Draining" => \A c \in Connections : ~SessionAlive(c)

Served == {c \in Connections : held[c] # {}}

(* Where a session has nothing to answer, and where it has.                *)
Idle == {"none", "upgrade", "first", "settle", "finish", "next"}

Answering == {"connect", "open", "forward_create", "request", "stream", "emit", "emit_last",
              "warmup", "deliver_last"}

Relaying == {"relay", "forward", "deliver"}

(* A client that does not pipeline waits for the request it sent, which is *)
(* unread or with the session; a relay knows which by request_in_flight.   *)
InTurn(c) ==
  /\ create[c] = 1 => awaiting[c]
  /\ session[c] \in Idle => (awaiting[c] => create[c] = 1)
  /\ session[c] \in Answering => awaiting[c] /\ create[c] = 0
  /\ session[c] \in Relaying => IF in_flight[c] THEN awaiting[c] /\ create[c] = 0
                                               ELSE awaiting[c] => create[c] = 1

Turns == \A c \in Connections : InTurn(c)

Inv == TypeOK /\ Holds /\ Begins /\ Loop /\ PermitsAreConserved

-----------------------------------------------------------------------------
(* Counting: a task that ends gives the permit back if it was the last.    *)

(* The limit is a number, and every set of clients is finite.              *)
LEMMA Finite ==
  /\ MaxConnections \in Nat
  /\ \A S \in SUBSET Connections : IsFiniteSet(S) /\ Cardinality(S) \in Nat
  BY EgressAssumption, FS_Subset, FS_CardinalityType

(* PermitsAreConserved, said of the connections that are served.           *)
LEMMA Counted ==
  /\ IsFiniteSet(Served) /\ Cardinality(Served) \in Nat
  /\ PermitsAreConserved <=>
       permits + Cardinality(Served) + (IF server = "accept" THEN 1 ELSE 0) = MaxConnections
  BY Finite DEF Served, PermitsAreConserved

(* The same of the next state.                                             *)
LEMMA CountedNext ==
  /\ Cardinality(Served') \in Nat
  /\ PermitsAreConserved' <=>
       permits' + Cardinality(Served') + (IF server' = "accept" THEN 1 ELSE 0) = MaxConnections
  BY Finite DEF Served, PermitsAreConserved

(* What a step owes when it changes the permits, the tasks or the place of *)
(* the loop.                                                               *)
LEMMA Conserved ==
  ASSUME PermitsAreConserved, permits \in Nat, permits' \in Nat,
         permits' + Cardinality(Served') + (IF server' = "accept" THEN 1 ELSE 0)
           = permits + Cardinality(Served) + (IF server = "accept" THEN 1 ELSE 0)
  PROVE  PermitsAreConserved' /\ permits' \in 0 .. MaxConnections
  BY Counted, CountedNext, Finite

(* The permit is free again exactly when its last holder dropped it.       *)
LEMMA DropCounts ==
  ASSUME TypeOK, NEW c \in Connections, NEW task \in Tasks, Drop(c, task)
  PROVE  /\ permits' \in Nat /\ permits' + Cardinality(Served') = permits + Cardinality(Served)
         /\ held' \in [Connections -> SUBSET Tasks]
         /\ \A d \in Connections : held'[d] = IF d = c THEN held[d] \ {task} ELSE held[d]
<1>1. /\ held \in [Connections -> SUBSET Tasks] /\ permits \in Nat
      /\ held' = [held EXCEPT ![c] = @ \ {task}]
      /\ permits' = permits + IF held[c] = {task} THEN 1 ELSE 0
  BY DEF TypeOK, Drop
<1>2. /\ held' \in [Connections -> SUBSET Tasks]
      /\ \A d \in Connections : held'[d] = IF d = c THEN held[d] \ {task} ELSE held[d]
  BY <1>1
<1>3. IsFiniteSet(Served) /\ Cardinality(Served) \in Nat
  BY Counted
<1>4. ASSUME held[c] = {task} PROVE permits' + Cardinality(Served') = permits + Cardinality(Served)
  <2>1. c \in Served /\ Served' = Served \ {c}
    BY <1>2, <1>4 DEF Served
  <2>2. Cardinality(Served') = Cardinality(Served) - 1
    BY <2>1, <1>3, FS_RemoveElement
  <2>3. permits' = permits + 1
    BY <1>1, <1>4
  <2> QED BY <1>1, <1>3, <2>2, <2>3
<1>5. ASSUME held[c] # {task} PROVE permits' + Cardinality(Served') = permits + Cardinality(Served)
  <2>1. held[c] \ {task} = {} <=> held[c] = {}
    BY <1>5
  <2>2. Served' = Served
    BY <1>2, <2>1 DEF Served
  <2>3. permits' = permits
    BY <1>1, <1>5
  <2> QED BY <1>1, <1>3, <2>2, <2>3
<1>6. permits' \in Nat /\ permits' + Cardinality(Served') = permits + Cardinality(Served)
  <2>1. /\ held[c] = {task} => permits' \in Nat
        /\ held[c] # {task} => permits' \in Nat
    BY <1>1
  <2> QED BY <2>1, <1>4, <1>5
<1> QED BY <1>2, <1>6

(* An abort frees the permits that no session holds.                       *)
LEMMA AbortCounts ==
  ASSUME TypeOK, AbortConnections
  PROVE  /\ Freed \in Nat /\ Freed + Cardinality(Served') = Cardinality(Served)
         /\ held' \in [Connections -> SUBSET Tasks]
         /\ \A d \in Connections : held'[d] = held[d] \ {"connection"}
<1>1. held \in [Connections -> SUBSET Tasks] /\ held' = [d \in Connections |-> held[d] \ {"connection"}]
  BY DEF TypeOK, AbortConnections
<1>2. /\ held' \in [Connections -> SUBSET Tasks]
      /\ \A d \in Connections : held'[d] = held[d] \ {"connection"}
  BY <1>1
<1> DEFINE Last == {d \in Connections : held[d] = {"connection"}}
<1>3. Last \subseteq Served /\ Served' = Served \ Last
  BY <1>1, <1>2 DEF Served
<1>4. IsFiniteSet(Served) /\ Served \cap Last = Last
  BY <1>3, Counted
<1>5. IsFiniteSet(Last) /\ Cardinality(Last) \in Nat
  BY <1>3, <1>4, FS_Subset, FS_CardinalityType
<1>6. Cardinality(Served') = Cardinality(Served) - Cardinality(Last)
  <2>1. Cardinality(Served \ Last) = Cardinality(Served) - Cardinality(Served \cap Last)
    BY <1>4, FS_Difference
  <2> QED BY <2>1, <1>3, <1>4
<1>7. Cardinality(Served) \in Nat
  BY Counted
<1> QED BY <1>2, <1>5, <1>6, <1>7 DEF Freed

-----------------------------------------------------------------------------
(* A step of a session: it moves on, and leaves the others alone.          *)

OfSession ==
  /\ create \in [Connections -> 0 .. 1] /\ awaiting \in [Connections -> BOOLEAN]
  /\ upstream \in [Connections -> {"reading", "stalled"}] /\ in_flight \in [Connections -> BOOLEAN]

SessionMoves(c) ==
  /\ SessionAlive(c)
  /\ \E pc \in SessionPcs \ {"none"} : Goes(c, pc)
  /\ UNCHANGED Outside
  /\ OfSession'
  /\ \A d \in Connections \ {c} : create'[d] = create[d] /\ awaiting'[d] = awaiting[d]
                                  /\ in_flight'[d] = in_flight[d]

(* A step that changes only the place of a session.                        *)
LEMMA AnyMove ==
  ASSUME TypeOK, NEW c \in Connections, NEW from, NEW to \in SessionPcs \ {"none"},
         from \cap {"none", "ended"} = {}, Moves(c, from, to)
  PROVE  SessionMoves(c) /\ UNCHANGED <<create, awaiting, in_flight>>
  BY DEF TypeOK, OfSession, SessionMoves, Moves, SessionAlive

(* Every step of a session is one of these.                                *)
LEMMA SessionStep ==
  ASSUME TypeOK, NEW c \in Connections, Session(c)
  PROVE  SessionMoves(c)
<1>1. /\ session[c] \in SessionPcs /\ OfSession
  BY DEF TypeOK, OfSession
<1>2. CASE ShutdownNoticed(c)
  BY <1>2, AnyMove DEF ShutdownNoticed, SessionPcs
<1>3. CASE IdleTimeout(c)
  BY <1>3, AnyMove DEF IdleTimeout, SessionPcs
<1>4. CASE Closing(c)
  BY <1>4, AnyMove DEF Closing, SessionPcs
<1>5. CASE UpgradeAnswered(c)
  BY <1>5, AnyMove DEF UpgradeAnswered, SessionPcs
<1>6. CASE FirstMessage(c)
  BY <1>1, <1>6 DEF FirstMessage, Reads, SessionMoves, OfSession, SessionAlive, SessionPcs
<1>7. CASE ConnectUpstream(c)
  <2>1. CASE Moves(c, {"connect"}, "close_downstream")
    BY <2>1, AnyMove DEF SessionPcs
  <2> QED BY <1>1, <1>7, <2>1 DEF ConnectUpstream, SessionMoves, OfSession, SessionAlive, SessionPcs
<1>8. CASE SentUpstream(c)
  BY <1>1, <1>8 DEF SentUpstream, SessionMoves, OfSession, SessionAlive, SessionPcs
<1>9. CASE FromClient(c)
  BY <1>1, <1>9 DEF FromClient, Reads, SessionMoves, OfSession, SessionAlive, SessionPcs
<1>10. CASE FromUpstream(c)
  BY <1>1, <1>10 DEF FromUpstream, SessionMoves, OfSession, SessionAlive, SessionPcs
<1>11. CASE SentDownstream(c)
  <2>1. CASE \E from \in SUBSET (SessionPcs \ {"none", "ended"}), to \in SessionPcs \ {"none"} : Moves(c, from, to)
    BY <2>1, AnyMove
  <2>2. CASE /\ session[c] \in {"deliver_last", "emit_last", "warmup"}
             /\ awaiting' = [awaiting EXCEPT ![c] = FALSE]
             /\ \E to \in {"settle", "finish", "next"} : Goes(c, to)
             /\ UNCHANGED <<create, upstream, in_flight, Outside>>
    BY <1>1, <2>2 DEF SessionMoves, OfSession, SessionAlive, SessionPcs
  <2> QED BY <1>11, <2>1, <2>2 DEF SentDownstream, SessionPcs
<1>12. CASE Settle(c)
  BY <1>1, <1>12 DEF Settle, Settled, SessionMoves, OfSession, SessionAlive, SessionPcs
<1>13. CASE RequestHttp(c)
  BY <1>13, AnyMove DEF RequestHttp, SessionPcs
<1>14. CASE CollectSse(c)
  <2>1. CASE \E to \in SessionPcs \ {"none"} : Moves(c, {"stream"}, to)
    BY <2>1, AnyMove
  <2>2. CASE /\ session[c] = "stream" /\ Reads(c) /\ Goes(c, "close_downstream")
             /\ UNCHANGED <<awaiting, upstream, in_flight, Outside>>
    BY <1>1, <2>2 DEF Reads, SessionMoves, OfSession, SessionAlive, SessionPcs
  <2> QED BY <1>14, <2>1, <2>2 DEF CollectSse, SessionPcs
<1>15. CASE Finish(c)
  BY <1>1, <1>15 DEF Finish, SessionMoves, OfSession, SessionAlive, SessionPcs
<1>16. CASE receive_next_create(c)
  BY <1>1, <1>16 DEF receive_next_create, Reads, SessionMoves, OfSession, SessionAlive, SessionPcs
<1> QED BY <1>2, <1>3, <1>4, <1>5, <1>6, <1>7, <1>8, <1>9, <1>10, <1>11, <1>12, <1>13, <1>14,
           <1>15, <1>16 DEF Session

(* Wherever a session goes, at its end with its permit.                    *)
LEMMA SessionKeeps ==
  ASSUME Inv, NEW c \in Connections, SessionMoves(c)
  PROVE  Inv'
<1>1. PICK pc \in SessionPcs \ {"none"} : Goes(c, pc)
  BY DEF SessionMoves
<1>2. /\ UNCHANGED <<server, shutdown, ws, client, conn>> /\ session[c] \notin {"none", "ended"}
      /\ session' = [session EXCEPT ![c] = pc]
  BY <1>1 DEF SessionMoves, Outside, Goes, SessionAlive
<1>3. /\ held' \in [Connections -> SUBSET Tasks] /\ permits' \in Nat
      /\ wire' \in [Connections -> {"closed", "http", "websocket"}]
      /\ permits' + Cardinality(Served') = permits + Cardinality(Served)
      /\ \A d \in Connections : held'[d] = IF d = c /\ pc = "ended" THEN held[d] \ {"session"} ELSE held[d]
  <2>1. CASE pc = "ended"
    <3>1. Drop(c, "session") /\ wire' = [wire EXCEPT ![c] = "closed"]
      BY <1>1, <2>1 DEF Goes
    <3>2. TypeOK /\ "session" \in Tasks
      BY DEF Inv, Tasks
    <3>3. wire' \in [Connections -> {"closed", "http", "websocket"}]
      BY <3>1, <3>2 DEF TypeOK
    <3> QED BY <2>1, <3>1, <3>2, <3>3, DropCounts
  <2>2. CASE pc # "ended"
    BY <1>1, <2>2 DEF Goes, Inv, TypeOK, Served
  <2> QED BY <2>1, <2>2
<1>4. PermitsAreConserved' /\ permits' \in 0 .. MaxConnections
  BY <1>2, <1>3, Conserved, Counted DEF Inv, TypeOK
<1>5. TypeOK'
  BY <1>2, <1>3, <1>4 DEF Inv, TypeOK, SessionMoves, OfSession
<1>6. Holds'
  BY <1>2, <1>3 DEF Inv, TypeOK, Holds, ConnAlive, SessionAlive
<1>7. Begins'
  BY <1>2 DEF Inv, TypeOK, Begins
<1>8. Loop'
  BY <1>2 DEF Inv, Loop, ConnAlive, SessionAlive
<1> QED BY <1>4, <1>5, <1>6, <1>7, <1>8 DEF Inv

-----------------------------------------------------------------------------
(* The accept loop.                                                        *)

(* A free permit becomes that of the loop.                                 *)
LEMMA AcquireKeeps == ASSUME Inv, Acquire PROVE Inv'
<1>1. PermitsAreConserved' /\ permits' \in 0 .. MaxConnections
  <2>1. permits \in Nat /\ permits' \in Nat /\ permits' = permits - 1 /\ server = "permit" /\ server' = "accept"
    BY DEF Acquire, Inv, TypeOK
  <2>2. Served' = Served
    BY DEF Acquire, Served
  <2> QED BY <2>1, <2>2, Conserved, Counted DEF Inv
<1>2. TypeOK'
  BY <1>1 DEF Acquire, Inv, TypeOK, ServerPcs, Clientside, Sessions
<1>3. Holds' /\ Begins' /\ Loop'
  BY DEF Acquire, Inv, Holds, Begins, Loop, ConnAlive, SessionAlive, Clientside, Sessions
<1> QED BY <1>1, <1>2, <1>3 DEF Inv

(* The permit of the loop becomes that of a connection.                    *)
LEMMA AcceptKeeps == ASSUME Inv, NEW c \in Connections, Accept(c) PROVE Inv'
<1>1. /\ conn[c] = "none" /\ session[c] = "none" /\ held[c] = {}
      /\ held \in [Connections -> SUBSET Tasks]
      /\ held' = [held EXCEPT ![c] = {"connection"}]
      /\ server = "accept" /\ server' = "permit" /\ permits' = permits /\ permits \in Nat
  BY DEF Accept, Inv, TypeOK, Begins, Holds, ConnAlive, SessionAlive, Tasks
<1>2. PermitsAreConserved' /\ permits' \in 0 .. MaxConnections
  <2>1. c \notin Served /\ Served' = Served \cup {c}
    BY <1>1 DEF Served
  <2>2. Cardinality(Served') = Cardinality(Served) + 1
    BY <2>1, Counted, FS_AddElement
  <2> QED BY <1>1, <2>2, Conserved, Counted DEF Inv
<1>3. TypeOK'
  BY <1>2 DEF Accept, Inv, TypeOK, ServerPcs, Clients, ConnPcs, Tasks, Sessions
<1>4. Holds'
  BY <1>1 DEF Accept, Inv, TypeOK, Holds, ConnAlive, SessionAlive, Sessions
<1>5. Begins'
  BY <1>1 DEF Accept, Inv, TypeOK, Begins, Sessions
<1>6. Loop'
  BY <1>1 DEF Accept, Inv, Loop
<1> QED BY <1>2, <1>3, <1>4, <1>5, <1>6 DEF Inv

(* A stop gives the permit of the loop back.                               *)
LEMMA StopAcceptingKeeps == ASSUME Inv, StopAccepting PROVE Inv'
<1>1. PermitsAreConserved' /\ permits' \in 0 .. MaxConnections
  <2>1. /\ permits \in Nat /\ permits' = permits + IF server = "accept" THEN 1 ELSE 0
        /\ server' = "join"
    BY DEF StopAccepting, Inv, TypeOK
  <2>2. Served' = Served
    BY DEF StopAccepting, Served
  <2> QED BY <2>1, <2>2, Conserved, Counted DEF Inv
<1>2. TypeOK'
  BY <1>1 DEF StopAccepting, Inv, TypeOK, ServerPcs, Clientside, Sessions
<1>3. Holds' /\ Begins' /\ Loop'
  BY DEF StopAccepting, Inv, Holds, Begins, Loop, ConnAlive, SessionAlive, Clientside, Sessions
<1> QED BY <1>1, <1>2, <1>3 DEF Inv

(* Aborted connections end, and their sessions go on.                      *)
LEMMA AbortKeeps ==
  ASSUME Inv, AbortConnections, server' = "returned", server = "abort",
         permits' = permits + Freed,
         UNCHANGED <<shutdown, ws, Clientside, Sessions>>
  PROVE  Inv'
<1>1. TypeOK
  BY DEF Inv
<1>2. /\ Freed \in Nat /\ Freed + Cardinality(Served') = Cardinality(Served)
      /\ held' \in [Connections -> SUBSET Tasks]
      /\ \A d \in Connections : held'[d] = held[d] \ {"connection"}
  BY <1>1, AbortCounts
<1>3. /\ conn' \in [Connections -> ConnPcs] /\ wire' \in [Connections -> {"closed", "http", "websocket"}]
      /\ \A d \in Connections : conn'[d] = IF ConnAlive(d) THEN "ended" ELSE conn[d]
  BY <1>1 DEF AbortConnections, TypeOK, ConnPcs
<1>4. PermitsAreConserved' /\ permits' \in 0 .. MaxConnections
  <2>1. permits \in Nat /\ permits' \in Nat
    BY <1>1, <1>2 DEF TypeOK
  <2> QED BY <1>2, <2>1, CountedNext, Conserved, Counted DEF Inv
<1>5. TypeOK'
  BY <1>1, <1>2, <1>3, <1>4 DEF TypeOK, ServerPcs, Clientside, Sessions
<1>6. Holds'
  BY <1>2, <1>3 DEF Inv, Holds, ConnAlive, SessionAlive, Sessions
<1>7. Begins'
  BY <1>3 DEF Inv, Begins, ConnAlive, Clientside, Sessions
<1>8. Loop'
  BY <1>3 DEF Inv, Loop, ConnAlive, SessionAlive, Sessions
<1> QED BY <1>4, <1>5, <1>6, <1>7, <1>8 DEF Inv

(* The drain goes on when what it waits for has ended, or its time is up.  *)
LEMMA ServerGoesKeeps == ASSUME Inv, Drain \/ GraceElapsed PROVE Inv'
<1>1. /\ UNCHANGED <<shutdown, permits, held, conn, wire, Clientside, Sessions>>
      /\ server \in {"join", "wait", "force_join", "force_wait"}
      /\ server' \in ServerPcs \ {"permit", "accept"} /\ ws' \in {"Draining", "Force"}
  BY DEF Drain, GraceElapsed, CloseWindow, ServerPcs, Inv, Loop
<1>2. TypeOK'
  BY <1>1 DEF Inv, TypeOK, Clientside, Sessions
<1>3. Holds' /\ Begins'
  BY <1>1 DEF Inv, Holds, Begins, ConnAlive, SessionAlive, Clientside, Sessions
<1>4. Loop'
  <2>1. CASE Drain
    BY <2>1 DEF Drain, Joined, Inv, Loop, ConnAlive, SessionAlive, Sessions
  <2>2. CASE GraceElapsed
    BY <2>2 DEF GraceElapsed, CloseWindow, Inv, Loop
  <2> QED BY <2>1, <2>2
<1>5. PermitsAreConserved'
  BY <1>1 DEF Inv, PermitsAreConserved
<1> QED BY <1>2, <1>3, <1>4, <1>5 DEF Inv

(* The loop returns with its permit; what it served may go on for a while. *)
LEMMA AcceptFailsKeeps == ASSUME Inv, AcceptFails PROVE Inv'
<1>1. PermitsAreConserved' /\ permits' \in 0 .. MaxConnections
  <2>1. permits \in Nat /\ permits' = permits + 1 /\ server = "accept" /\ server' = "returned"
    BY DEF AcceptFails, Inv, TypeOK
  <2>2. Served' = Served
    BY DEF AcceptFails, Served
  <2> QED BY <2>1, <2>2, Conserved, Counted DEF Inv
<1>2. TypeOK'
  BY <1>1 DEF AcceptFails, Inv, TypeOK, ServerPcs, Clientside, Sessions
<1>3. Holds' /\ Begins' /\ Loop'
  BY DEF AcceptFails, Inv, Holds, Begins, Loop, ConnAlive, SessionAlive, Clientside, Sessions
<1> QED BY <1>1, <1>2, <1>3 DEF Inv

(* Every step of the loop.                                                 *)
LEMMA ServerKeeps == ASSUME Inv, Server PROVE Inv'
<1>1. CASE Abort
  BY <1>1, AbortKeeps DEF Abort
<1> QED
  BY <1>1, AcquireKeeps, AcceptKeeps, StopAcceptingKeeps, AcceptFailsKeeps, ServerGoesKeeps DEF Server

-----------------------------------------------------------------------------
(* The tasks of the connections.                                           *)

(* A connection task ends, and its session, if any, goes on.               *)
LEMMA EndConnectionKeeps ==
  ASSUME Inv, NEW c \in Connections, NEW to \in {"closed", "websocket"}, ConnAlive(c),
         EndConnection(c, to), UNCHANGED <<server, shutdown, ws, Clientside, Sessions>>
  PROVE  Inv'
<1>1. TypeOK /\ Drop(c, "connection") /\ "connection" \in Tasks
  BY DEF Inv, EndConnection, Tasks
<1>2. /\ permits' \in Nat /\ permits' + Cardinality(Served') = permits + Cardinality(Served)
      /\ held' \in [Connections -> SUBSET Tasks]
      /\ \A d \in Connections : held'[d] = IF d = c THEN held[d] \ {"connection"} ELSE held[d]
  BY <1>1, DropCounts
<1>3. /\ conn' = [conn EXCEPT ![c] = "ended"] /\ conn' \in [Connections -> ConnPcs]
      /\ wire' \in [Connections -> {"closed", "http", "websocket"}]
  BY <1>1 DEF EndConnection, TypeOK, ConnPcs
<1>4. PermitsAreConserved' /\ permits' \in 0 .. MaxConnections
  BY <1>1, <1>2, Conserved, Counted DEF Inv, TypeOK
<1>5. TypeOK'
  BY <1>1, <1>2, <1>3, <1>4 DEF TypeOK, Clientside, Sessions
<1>6. Holds'
  BY <1>1, <1>2, <1>3 DEF TypeOK, Inv, Holds, ConnAlive, SessionAlive, Sessions
<1>7. Begins'
  BY <1>1, <1>3 DEF TypeOK, Inv, Begins, ConnAlive, Clientside, Sessions
<1>8. Loop'
  BY <1>1, <1>3 DEF TypeOK, Inv, Loop, ConnAlive, SessionAlive, Sessions
<1> QED BY <1>4, <1>5, <1>6, <1>7, <1>8 DEF Inv

(* An HTTP request begins and ends without a change of tasks.              *)
LEMMA HttpKeeps ==
  ASSUME Inv, NEW c \in Connections, NEW pc \in {"idle", "busy", "last"},
         conn[c] \in {"idle", "busy"}, conn' = [conn EXCEPT ![c] = pc],
         UNCHANGED <<server, shutdown, ws, permits, held, wire, Clientside, Sessions>>
  PROVE  Inv'
<1>1. TypeOK'
  BY DEF Inv, TypeOK, ConnPcs, Clientside, Sessions
<1>2. Holds'
  BY DEF Inv, TypeOK, Holds, ConnAlive, SessionAlive, Sessions
<1>3. Begins'
  BY DEF Inv, TypeOK, Begins, Clientside, Sessions
<1>4. Loop'
  BY DEF Inv, TypeOK, Loop, ConnAlive, SessionAlive, Sessions
<1>5. PermitsAreConserved'
  BY DEF Inv, PermitsAreConserved
<1> QED BY <1>1, <1>2, <1>3, <1>4, <1>5 DEF Inv

(* A session is spawned with the permit of its connection.                 *)
LEMMA UpgradeKeeps == ASSUME Inv, NEW c \in Connections, websocket_upgrade(c) PROVE Inv'
<1>1. /\ conn[c] = "idle" /\ client[c] = "here" /\ held \in [Connections -> SUBSET Tasks]
      /\ held' = [held EXCEPT ![c] = held[c] \cup {"session"}]
      /\ "connection" \in held[c]
      /\ conn' = [conn EXCEPT ![c] = "upgrading"] /\ session' = [session EXCEPT ![c] = "upgrade"]
      /\ UNCHANGED <<server, shutdown, ws, permits, wire, client, create, awaiting, upstream, in_flight>>
  BY DEF websocket_upgrade, SessionPermit, Inv, TypeOK, Holds, ConnAlive, Clientside
<1>2. Served' = Served
  BY <1>1 DEF Served
<1>3. TypeOK'
  BY <1>1 DEF Inv, TypeOK, Tasks, ConnPcs, SessionPcs
<1>4. Holds'
  BY <1>1 DEF Inv, TypeOK, Holds, ConnAlive, SessionAlive
<1>5. Begins'
  BY <1>1 DEF Inv, TypeOK, Begins
<1>6. Loop'
  BY <1>1 DEF Inv, TypeOK, Loop, ConnAlive, SessionAlive
<1>7. PermitsAreConserved'
  BY <1>1, <1>2, Counted, CountedNext DEF Inv
<1> QED BY <1>3, <1>4, <1>5, <1>6, <1>7 DEF Inv

(* Every step of a connection task.                                        *)
LEMMA ConnectionKeeps == ASSUME Inv, NEW c \in Connections, Connection(c) PROVE Inv'
<1>1. CASE StartHttp(c)
  BY <1>1, HttpKeeps DEF StartHttp
<1>2. CASE EndHttp(c)
  BY <1>2, HttpKeeps, EndConnectionKeeps DEF EndHttp, ConnAlive
<1>3. CASE GracefulShutdown(c)
  BY <1>3, HttpKeeps, EndConnectionKeeps DEF GracefulShutdown, ConnAlive
<1>4. CASE Upgraded(c)
  BY <1>4, EndConnectionKeeps DEF Upgraded, ConnAlive
<1>5. CASE ClientLeft(c)
  BY <1>5, EndConnectionKeeps DEF ClientLeft
<1>6. CASE Aborted(c)
  BY <1>6, EndConnectionKeeps DEF Aborted
<1> QED BY <1>1, <1>2, <1>3, <1>4, <1>5, <1>6, UpgradeKeeps DEF Connection

-----------------------------------------------------------------------------
(* The environment.                                                        *)

(* A client begins again when nothing of its connection is left.           *)
LEMMA ForgetKeeps == ASSUME Inv, NEW c \in Connections, Forget(c) PROVE Inv'
<1>1. TypeOK'
  BY DEF Forget, Inv, TypeOK, Clients, ConnPcs, SessionPcs
<1>2. Holds'
  BY DEF Forget, Inv, TypeOK, Holds, ConnAlive, SessionAlive
<1>3. Begins'
  BY DEF Forget, Inv, TypeOK, Begins
<1>4. Loop'
  BY DEF Forget, Inv, TypeOK, Loop, ConnAlive, SessionAlive
<1>5. PermitsAreConserved'
  BY DEF Forget, Inv, PermitsAreConserved
<1> QED BY <1>1, <1>2, <1>3, <1>4, <1>5 DEF Inv

(* What the clients, the upstreams and the user do touches no task.        *)
LEMMA PeerKeeps ==
  ASSUME Inv, UNCHANGED Listener,
         \/ Shutdown
         \/ \E c \in Connections : Connect(c) \/ SendCreate(c) \/ Stalls(c) \/ Leave(c)
  PROVE  Inv'
<1>1. TypeOK'
  <2>1. TypeOK /\ UNCHANGED <<server, ws, permits, held, conn, wire, session, in_flight>>
    BY DEF Inv, Listener
  <2>2. CASE Shutdown
    BY <2>1, <2>2 DEF TypeOK, Shutdown
  <2>3. ASSUME NEW c \in Connections, Connect(c) PROVE TypeOK'
    BY <2>1, <2>3 DEF TypeOK, Connect, Clients
  <2>4. ASSUME NEW c \in Connections, SendCreate(c) PROVE TypeOK'
    <3>1. 1 \in 0 .. 1 /\ TRUE \in BOOLEAN
      OBVIOUS
    <3>2. create' \in [Connections -> 0 .. 1] /\ awaiting' \in [Connections -> BOOLEAN]
      BY <2>1, <2>4, <3>1 DEF TypeOK, SendCreate
    <3> QED BY <2>1, <2>4, <3>2 DEF TypeOK, SendCreate
  <2>5. ASSUME NEW c \in Connections, Stalls(c) PROVE TypeOK'
    BY <2>1, <2>5 DEF TypeOK, Stalls, Clients
  <2>6. ASSUME NEW c \in Connections, Leave(c) PROVE TypeOK'
    BY <2>1, <2>6 DEF TypeOK, Leave, Clients
  <2> QED BY <2>2, <2>3, <2>4, <2>5, <2>6
<1>2. Begins'
  BY DEF Shutdown, Connect, SendCreate, Stalls, Leave, Inv, TypeOK, Begins, Listener
<1>3. Holds' /\ Loop'
  BY DEF Inv, Holds, Loop, ConnAlive, SessionAlive, Listener
<1>4. PermitsAreConserved'
  BY DEF Inv, PermitsAreConserved, Listener
<1> QED BY <1>1, <1>2, <1>3, <1>4 DEF Inv

(* Every step of a client and its upstream.                                *)
LEMMA EnvironmentKeeps == ASSUME Inv, NEW c \in Connections, Environment(c) PROVE Inv'
<1>1. CASE Connect(c) \/ SendCreate(c) \/ Stalls(c) \/ Leave(c)
  BY <1>1, PeerKeeps DEF Connect, SendCreate, Stalls, Leave
<1> QED BY <1>1, ForgetKeeps DEF Environment

(* The listener starts with every permit free.                             *)
LEMMA InitKeeps == Init => Inv
<1> SUFFICES ASSUME Init PROVE Inv
  OBVIOUS
<1>1. Served = {} /\ Cardinality(Served) = 0
  BY FS_EmptySet DEF Init, Served
<1>2. PermitsAreConserved
  BY <1>1, Counted, Finite DEF Init
<1>3. TypeOK
  <2>1. permits \in 0 .. MaxConnections
    BY Finite DEF Init
  <2>2. create \in [Connections -> 0 .. 1] /\ held \in [Connections -> SUBSET Tasks]
    BY DEF Init
  <2> QED BY <2>1, <2>2 DEF Init, TypeOK, ServerPcs, Clients, ConnPcs, SessionPcs
<1> QED BY <1>2, <1>3 DEF Init, Inv, Holds, Begins, Loop, ConnAlive, SessionAlive

(* Every step keeps the invariant.                                         *)
LEMMA NextKeeps == ASSUME Inv, [Next]_vars PROVE Inv'
<1>1. CASE UNCHANGED vars
  BY <1>1 DEF vars, Inv, TypeOK, Holds, Begins, Loop, PermitsAreConserved, ConnAlive, SessionAlive
<1>2. CASE Shutdown
  BY <1>2, PeerKeeps DEF Shutdown
<1>3. ASSUME NEW c \in Connections, Session(c) PROVE Inv'
  BY <1>3, SessionStep, SessionKeeps DEF Inv
<1> QED BY <1>1, <1>2, <1>3, ServerKeeps, ConnectionKeeps, EnvironmentKeeps DEF Next

-----------------------------------------------------------------------------
(* The turns of the client and of its session.                             *)

(* What a session tells of its client's turn.                              *)
Told(c) == <<create[c], awaiting[c], session[c], in_flight[c]>>

(* A step that tells no session or client anything keeps the turns.        *)
LEMMA Untold ==
  ASSUME Turns, \A d \in Connections : Told(d)' = Told(d)
  PROVE  Turns'
<1> SUFFICES ASSUME NEW d \in Connections PROVE InTurn(d)'
  BY DEF Turns
<1> QED BY DEF Turns, Told, InTurn

(* A session that reads a request owes its client the last event.          *)
LEMMA SessionInTurn ==
  ASSUME Inv, Turns, NEW c \in Connections, Session(c)
  PROVE  Turns'
<1>1. SessionMoves(c) /\ TypeOK
  BY SessionStep DEF Inv
<1>2. \A d \in Connections \ {c} : Told(d)' = Told(d)
  <2>1. PICK pc \in SessionPcs \ {"none"} : Goes(c, pc)
    BY <1>1 DEF SessionMoves
  <2>2. \A d \in Connections \ {c} : session'[d] = session[d]
    BY <1>1, <2>1 DEF Goes, TypeOK
  <2> QED BY <1>1, <2>2 DEF SessionMoves, Told
<1>3. ASSUME NEW from, NEW to, Moves(c, from, to)
      PROVE  /\ session[c] \in from /\ session'[c] = to
             /\ create'[c] = create[c] /\ awaiting'[c] = awaiting[c] /\ in_flight'[c] = in_flight[c]
  BY <1>1, <1>3 DEF Moves, Goes, TypeOK
<1>4. ASSUME NEW pc, Goes(c, pc) PROVE session'[c] = pc
  BY <1>1, <1>4 DEF Goes, TypeOK
<1>5. /\ create[c] \in 0 .. 1 /\ InTurn(c)
      /\ Reads(c) => create[c] = 1 /\ create'[c] = 0
  BY <1>1 DEF TypeOK, Turns, Reads
<1>6. InTurn(c)'
  <2>1. CASE ShutdownNoticed(c)
    BY <1>3, <1>5, <2>1 DEF ShutdownNoticed, InTurn, Idle, Answering, Relaying
  <2>2. CASE IdleTimeout(c)
    BY <1>3, <1>5, <2>2 DEF IdleTimeout, InTurn, Idle, Answering, Relaying
  <2>3. CASE Closing(c)
    BY <1>3, <1>5, <2>3 DEF Closing, InTurn, Idle, Answering, Relaying
  <2>4. CASE UpgradeAnswered(c)
    BY <1>3, <1>5, <2>4 DEF UpgradeAnswered, InTurn, Idle, Answering, Relaying
  <2>5. CASE FirstMessage(c)
    BY <1>4, <1>5, <2>5 DEF FirstMessage, InTurn, Idle, Answering, Relaying
  <2>6. CASE ConnectUpstream(c)
    BY <1>3, <1>4, <1>5, <2>6 DEF ConnectUpstream, InTurn, Idle, Answering, Relaying
  <2>7. CASE SentUpstream(c)
    <3>1. in_flight'[c] \in {in_flight[c], in_flight[c] \/ session[c] # "forward"}
      BY <1>1, <2>7 DEF SentUpstream, TypeOK
    <3>2. CASE session'[c] = "relay" /\ in_flight'[c] = (in_flight[c] \/ session[c] # "forward")
      BY <1>5, <2>7, <3>2 DEF SentUpstream, InTurn, Idle, Answering, Relaying
    <3>3. CASE session'[c] \in {"close_downstream", "abandon"}
      BY <1>5, <2>7, <3>3 DEF SentUpstream, InTurn, Idle, Answering, Relaying
    <3> QED BY <1>1, <1>4, <2>7, <3>2, <3>3 DEF SentUpstream, TypeOK
  <2>8. CASE FromClient(c)
    BY <1>4, <1>5, <2>8 DEF FromClient, InTurn, Idle, Answering, Relaying
  <2>9. CASE FromUpstream(c)
    BY <1>4, <1>5, <2>9 DEF FromUpstream, InTurn, Idle, Answering, Relaying
  <2>10. CASE SentDownstream(c)
    <3>1. CASE session[c] \in {"deliver_last", "emit_last", "warmup"} /\ awaiting' = [awaiting EXCEPT ![c] = FALSE]
               /\ (\E to \in {"settle", "finish", "next"} : Goes(c, to)) /\ create' = create
      BY <1>1, <1>4, <1>5, <3>1 DEF InTurn, Idle, Answering, Relaying, TypeOK
    <3>2. CASE \/ Moves(c, {"deliver"}, "relay") \/ Moves(c, {"emit"}, "stream")
               \/ Moves(c, {"deliver", "deliver_last"}, "abandon")
               \/ Moves(c, {"emit", "emit_last", "warmup"}, "close_downstream")
      BY <1>3, <1>5, <3>2 DEF InTurn, Idle, Answering, Relaying
    <3> QED BY <2>10, <3>1, <3>2 DEF SentDownstream
  <2>11. CASE Settle(c)
    <3>1. in_flight'[c] = FALSE
      BY <1>1, <2>11 DEF Settle, Settled, TypeOK
    <3> QED BY <1>4, <1>5, <2>11, <3>1 DEF Settle, InTurn, Idle, Answering, Relaying
  <2>12. CASE RequestHttp(c)
    BY <1>3, <1>5, <2>12 DEF RequestHttp, InTurn, Idle, Answering, Relaying
  <2>13. CASE CollectSse(c)
    BY <1>3, <1>4, <1>5, <2>13 DEF CollectSse, InTurn, Idle, Answering, Relaying
  <2>14. CASE Finish(c)
    BY <1>4, <1>5, <2>14 DEF Finish, InTurn, Idle, Answering, Relaying
  <2>15. CASE receive_next_create(c)
    BY <1>4, <1>5, <2>15 DEF receive_next_create, InTurn, Idle, Answering, Relaying
  <2> QED BY <2>1, <2>2, <2>3, <2>4, <2>5, <2>6, <2>7, <2>8, <2>9, <2>10, <2>11, <2>12, <2>13,
             <2>14, <2>15 DEF Session
<1>7. ASSUME NEW d \in Connections \ {c} PROVE InTurn(d)'
  BY <1>2, <1>7 DEF Turns, Told, InTurn
<1> QED BY <1>6, <1>7 DEF Turns

(* A client sends a request when it has the answer to the one before.      *)
LEMMA OtherTurns ==
  ASSUME "pipelines" \notin Faults, Inv, Turns, NEW c \in Connections, Connection(c) \/ Environment(c)
  PROVE  Turns'
<1>1. TypeOK
  BY DEF Inv
<1>2. CASE StartHttp(c) \/ EndHttp(c) \/ GracefulShutdown(c) \/ Upgraded(c) \/ ClientLeft(c) \/ Aborted(c)
  BY <1>2, Untold DEF StartHttp, EndHttp, GracefulShutdown, Upgraded, ClientLeft, Aborted, Clientside, Sessions,
                      Told
<1>3. CASE websocket_upgrade(c)
  <2>1. session[c] = "none" /\ session' = [session EXCEPT ![c] = "upgrade"]
        /\ UNCHANGED <<create, awaiting, in_flight>>
    BY <1>3 DEF websocket_upgrade, Clientside, Inv, Begins
  <2> QED BY <1>1, <2>1 DEF TypeOK, Turns, InTurn, Idle, Answering, Relaying
<1>4. CASE Connect(c) \/ Stalls(c) \/ Leave(c)
  BY <1>4, Untold DEF Connect, Stalls, Leave, Listener, Told
<1>5. CASE SendCreate(c)
  <2>1. create[c] = 0 /\ ~ awaiting[c] /\ create' = [create EXCEPT ![c] = 1]
        /\ awaiting' = [awaiting EXCEPT ![c] = TRUE] /\ UNCHANGED <<session, in_flight>>
    BY <1>5 DEF SendCreate, Listener
  <2> QED BY <1>1, <2>1 DEF TypeOK, Turns, InTurn, Idle, Answering, Relaying
<1>6. CASE Forget(c)
  BY <1>1, <1>6 DEF Forget, TypeOK, Turns, InTurn, Idle, Answering, Relaying
<1> QED BY <1>2, <1>3, <1>4, <1>5, <1>6 DEF Connection, Environment

(* Every step keeps the turns.                                             *)
LEMMA TurnsKeep == ASSUME "pipelines" \notin Faults, Inv, Turns, [Next]_vars PROVE Turns'
<1>1. CASE UNCHANGED vars
  BY <1>1, Untold DEF vars, Told
<1>2. CASE Server
  BY <1>2, Untold DEF Server, Acquire, Accept, StopAccepting, AcceptFails, Drain, GraceElapsed, Abort,
                      Clientside, Sessions, Told
<1>3. CASE Shutdown
  BY <1>3, Untold DEF Shutdown, Listener, Told
<1> QED BY <1>1, <1>2, <1>3, SessionInTurn, OtherTurns DEF Next

(* Only a session without a request is closed by a drain that does not     *)
(* force it; one that answers ends only with its client.                   *)
LEMMA EndsInTurn ==
  ASSUME Inv, Turns, [Next]_vars, NEW c \in Connections, awaiting[c], create[c] = 0,
         session[c] \in Responding, session'[c] \in {"close", "ended"}
  PROVE  wait_for_force \/ client[c] = "gone"
<1>1. TypeOK /\ InTurn(c) /\ SessionAlive(c)
  BY DEF Inv, Turns, SessionAlive, Responding
<1>2. session'[c] # session[c]
  BY DEF Responding
<1>3. Session(c)
  <2>1. \A d \in Connections : Session(d) => d = c
    <3> SUFFICES ASSUME NEW d \in Connections, Session(d), d # c PROVE FALSE
      OBVIOUS
    <3>1. SessionMoves(d)
      BY <1>1, SessionStep
    <3>2. session'[c] = session[c]
      BY <1>1, <3>1 DEF SessionMoves, Goes, TypeOK
    <3> QED BY <1>2, <3>2
  <2>2. \A d \in Connections : ~ Connection(d)
    <3> SUFFICES ASSUME NEW d \in Connections, Connection(d) PROVE FALSE
      OBVIOUS
    <3>1. \/ session' = session
          \/ conn[d] = "idle" /\ session' = [session EXCEPT ![d] = "upgrade"]
      BY DEF Connection, StartHttp, EndHttp, GracefulShutdown, websocket_upgrade, Upgraded, ClientLeft, Aborted,
             Sessions
    <3> QED BY <1>1, <1>2, <3>1 DEF TypeOK
  <2>3. \A d \in Connections : ~ Environment(d)
    <3> SUFFICES ASSUME NEW d \in Connections, Environment(d) PROVE FALSE
      OBVIOUS
    <3>1. \/ session' = session
          \/ session' = [session EXCEPT ![d] = "none"]
      BY DEF Environment, Connect, SendCreate, Stalls, Leave, Forget, Listener
    <3> QED BY <1>1, <1>2, <3>1 DEF TypeOK
  <2>4. ~ Server /\ ~ Shutdown /\ ~ UNCHANGED vars
    BY <1>2 DEF Server, Acquire, Accept, StopAccepting, AcceptFails, Drain, GraceElapsed, Abort, Shutdown,
                Sessions, Listener, vars
  <2> QED BY <2>1, <2>2, <2>3, <2>4 DEF Next
<1>4. ASSUME NEW from, NEW to, Moves(c, from, to)
      PROVE  session[c] \in from /\ session'[c] = to
  BY <1>1, <1>4 DEF Moves, Goes, TypeOK
<1>5. ASSUME NEW pc, Goes(c, pc) PROVE session'[c] = pc
  BY <1>1, <1>5 DEF Goes, TypeOK
<1>6. CASE ShutdownNoticed(c)
  <2>1. wait_for_session_shutdown(c) /\ session[c] = "relay" => wait_for_force
    BY <1>1 DEF wait_for_session_shutdown, InTurn, Relaying
  <2> QED BY <1>4, <1>6, <2>1 DEF ShutdownNoticed, Responding
<1>7. CASE IdleTimeout(c) \/ Closing(c) \/ UpgradeAnswered(c)
  BY <1>4, <1>7 DEF IdleTimeout, Closing, UpgradeAnswered, Responding
<1>8. CASE FirstMessage(c) \/ SentUpstream(c) \/ FromClient(c) \/ FromUpstream(c)
  BY <1>5, <1>8 DEF FirstMessage, SentUpstream, FromClient, FromUpstream, Responding
<1>9. CASE ConnectUpstream(c) \/ RequestHttp(c)
  BY <1>4, <1>5, <1>9 DEF ConnectUpstream, RequestHttp
<1>10. CASE SentDownstream(c)
  BY <1>4, <1>5, <1>10 DEF SentDownstream
<1>11. CASE CollectSse(c)
  BY <1>4, <1>5, <1>11 DEF CollectSse, ClientClosed
<1>12. CASE Settle(c) \/ Finish(c) \/ receive_next_create(c)
  BY <1>12 DEF Settle, Finish, receive_next_create, Responding
<1> QED BY <1>3, <1>6, <1>7, <1>8, <1>9, <1>10, <1>11, <1>12 DEF Session

-----------------------------------------------------------------------------
(* What is served follows the abstract admission.                          *)

Admitted == {c \in Connections : ConnAlive(c) \/ SessionAlive(c)}

Open == server \in {"permit", "accept"}

(* The connections that hold a permit are those of which a task lives.     *)
LEMMA ServedIsAdmitted == ASSUME TypeOK, Holds PROVE Admitted = Served
<1> SUFFICES ASSUME NEW c \in Connections PROVE (ConnAlive(c) \/ SessionAlive(c)) <=> held[c] # {}
  BY DEF Admitted, Served
<1>1. held[c] \subseteq {"connection", "session"}
  BY DEF TypeOK, Tasks
<1> QED BY <1>1 DEF Holds

(* Every step but that of an accept lets connections go, or changes none.  *)
LEMMA LetsGo ==
  ASSUME Admitted' \subseteq Admitted, Open' => Open
  PROVE  Promised!Next
<1>1. Admitted' = Admitted \ (Admitted \ Admitted') /\ Admitted \ Admitted' \in SUBSET Admitted
  OBVIOUS
<1>2. Open \in BOOLEAN /\ Open' \in BOOLEAN
  BY DEF Open
<1>3. Open' \in {Open, FALSE}
  BY <1>2
<1> QED BY <1>1, <1>3 DEF Promised!Next, Promised!LetGo, Admitted, Open

(* The abstract specification counts as this one does.                     *)
LEMMA SameCount == ASSUME NEW S PROVE Promised!Cardinality(S) = Cardinality(S)
  BY DEF Promised!Cardinality, Cardinality

(* An accept admits its connection: it was not served, and a permit is its *)
(* own.                                                                    *)
LEMMA Admits == ASSUME Inv, NEW c \in Connections, Accept(c) PROVE Promised!Next
<1>1. /\ TypeOK /\ Holds /\ Cardinality(Served) \in Nat /\ PermitsAreConserved
      /\ server = "accept" /\ server' = "permit" /\ permits \in Nat
  BY Counted DEF Inv, Accept, TypeOK
<1>2. Cardinality(Admitted) < MaxConnections
  BY <1>1, Counted, ServedIsAdmitted, Finite
<1>3. /\ conn[c] = "none" /\ session[c] = "none" /\ conn' = [conn EXCEPT ![c] = "idle"] /\ session' = session
  BY DEF Accept, Inv, Begins, Sessions
<1>4. c \notin Admitted /\ Admitted' = Admitted \cup {c}
  BY <1>1, <1>3 DEF Admitted, ConnAlive, SessionAlive, TypeOK
<1>5. (server \in {"permit", "accept"}) /\ (server' \in {"permit", "accept"}) = (server \in {"permit", "accept"})
  BY <1>1
<1>6. Promised!Admit(c)
  BY <1>2, <1>4, <1>5, SameCount DEF Promised!Admit, Admitted
<1> QED BY <1>6 DEF Promised!Next

(* Every step admits, lets go, or is invisible.                            *)
LEMMA Refines == ASSUME Inv, [Next]_vars PROVE [Promised!Next]_Promised!vars
<1>1. TypeOK
  BY DEF Inv
<1>2. CASE UNCHANGED vars
  BY <1>2, LetsGo DEF vars, Admitted, Open, ConnAlive, SessionAlive
<1>3. CASE Server
  <2>1. CASE Abort
    <3>1. Admitted' \subseteq Admitted
      BY <2>1 DEF Abort, AbortConnections, Sessions, Admitted, ConnAlive, SessionAlive
    <3>2. ~ Open'
      BY <2>1 DEF Abort, Open
    <3> QED BY <3>1, <3>2, LetsGo
  <2>2. CASE Acquire \/ StopAccepting \/ AcceptFails \/ Drain \/ GraceElapsed
    <3>1. Admitted' = Admitted
      BY <2>2 DEF Acquire, StopAccepting, AcceptFails, Drain, GraceElapsed, Sessions, Admitted, ConnAlive,
                  SessionAlive
    <3>2. Open' => Open
      BY <2>2 DEF Acquire, StopAccepting, AcceptFails, Drain, GraceElapsed, CloseWindow, Open
    <3> QED BY <3>1, <3>2, LetsGo
  <2> QED BY <1>3, <2>1, <2>2, Admits DEF Server
<1>4. ASSUME NEW c \in Connections, Connection(c) PROVE Promised!Next
  <2>1. server' = server
    BY <1>4 DEF Connection, StartHttp, EndHttp, GracefulShutdown, websocket_upgrade, Upgraded, ClientLeft,
                   Aborted
  <2>2. Admitted' \subseteq Admitted
    <3>1. CASE websocket_upgrade(c)
      BY <1>1, <3>1 DEF websocket_upgrade, TypeOK, Admitted, ConnAlive, SessionAlive
    <3>2. CASE StartHttp(c) \/ EndHttp(c) \/ GracefulShutdown(c) \/ Upgraded(c) \/ ClientLeft(c) \/ Aborted(c)
      <4>1. session' = session /\ ConnAlive(c) /\ \E pc \in ConnPcs : conn' = [conn EXCEPT ![c] = pc]
        BY <3>2 DEF StartHttp, EndHttp, GracefulShutdown, Upgraded, ClientLeft, Aborted, EndConnection,
                    Sessions, ConnAlive, ConnPcs
      <4> QED BY <1>1, <4>1 DEF TypeOK, Admitted, ConnAlive, SessionAlive
    <3> QED BY <1>4, <3>1, <3>2 DEF Connection
  <2> QED BY <2>1, <2>2, LetsGo DEF Open
<1>5. ASSUME NEW c \in Connections, Session(c) PROVE Promised!Next
  <2>1. SessionMoves(c)
    BY <1>1, <1>5, SessionStep
  <2>2. UNCHANGED <<server, conn>> /\ SessionAlive(c) /\ \E pc : session' = [session EXCEPT ![c] = pc]
    BY <2>1 DEF SessionMoves, Outside, Goes
  <2>3. Admitted' \subseteq Admitted
    BY <1>1, <2>2 DEF TypeOK, Admitted, ConnAlive, SessionAlive
  <2> QED BY <2>2, <2>3, LetsGo DEF Open
<1>6. ASSUME NEW c \in Connections, Environment(c) PROVE Promised!Next
  <2>1. CASE Forget(c)
    <3>1. Admitted' \subseteq Admitted
      BY <1>1, <2>1 DEF Forget, TypeOK, Admitted, ConnAlive, SessionAlive
    <3> QED BY <2>1, <3>1, LetsGo DEF Forget, Open
  <2>2. CASE Connect(c) \/ SendCreate(c) \/ Stalls(c) \/ Leave(c)
    BY <2>2, LetsGo DEF Connect, SendCreate, Stalls, Leave, Listener, Admitted, Open, ConnAlive, SessionAlive
  <2> QED BY <1>6, <2>1, <2>2 DEF Environment
<1>7. CASE Shutdown
  BY <1>7, LetsGo DEF Shutdown, Listener, Admitted, Open, ConnAlive, SessionAlive
<1> QED BY <1>2, <1>3, <1>4, <1>5, <1>6, <1>7 DEF Next

-----------------------------------------------------------------------------
(* Theorems.  But for the last two they need only the assumptions on the   *)
(* constants: a finite set of clients and a limit that is a number.        *)

(* Every variable keeps its type; free permits never exceed the limit.     *)
THEOREM EgressTypes == Spec => []TypeOK
<1>1. Inv => TypeOK
  BY DEF Inv
<1> QED BY <1>1, InitKeeps, NextKeeps, PTL DEF Spec

(* Free permits, those of the tasks and that of the loop add up to the     *)
(* limit, whoever ends, fails or is aborted, in any order.                 *)
THEOREM PermitsAddUp == Spec => []PermitsAreConserved
<1>1. Inv => PermitsAreConserved
  BY DEF Inv
<1> QED BY <1>1, InitKeeps, NextKeeps, PTL DEF Spec

(* When the server has returned from a drain nothing of it is left, but    *)
(* the sessions it had to force.                                           *)
THEOREM ReturnIsClean == Spec => []RunLeavesNothing
<1>1. Inv => RunLeavesNothing
  BY DEF Inv, Loop, RunLeavesNothing
<1> QED BY <1>1, InitKeeps, NextKeeps, PTL DEF Spec

(* The listener implements the admission it promises: within the limit,    *)
(* upgraded connections included, and nobody after a stop.                 *)
THEOREM AdmitsAsPromised == Spec => ImplementsAdmission
<1>1. Init => Promised!Init
  BY DEF Init, Promised!Init, ConnAlive, SessionAlive
<1> QED BY <1>1, InitKeeps, NextKeeps, Refines, PTL DEF Spec, ImplementsAdmission, Promised!Spec

(* Both invariants hold when no client pipelines.                          *)
LEMMA TurnsKept == ASSUME "pipelines" \notin Faults PROVE Spec => [](Inv /\ Turns)
<1>1. Init => Turns
  BY DEF Init, Turns, InTurn, Idle, Answering, Relaying
<1>2. Inv /\ Turns /\ [Next]_vars => (Inv /\ Turns)'
  BY NextKeeps, TurnsKeep
<1> QED BY <1>1, <1>2, InitKeeps, PTL DEF Spec

(* The next request of a client that waited for the last event of the one  *)
(* before is in turn, though the session may still have to note the end.   *)
THEOREM NextRequestIsInTurn == ASSUME "pipelines" \notin Faults PROVE Spec => []NextRequestInTurn
<1>1. Inv /\ Turns => NextRequestInTurn
  BY DEF Turns, InTurn, Answering, Relaying, NextRequestInTurn
<1> QED BY <1>1, TurnsKept, PTL

(* A drain does not cut off a response before it forces the sessions.      *)
THEOREM DrainLetsFinish == ASSUME "pipelines" \notin Faults PROVE Spec => RespondsThroughDrain
<1> DEFINE Cut == \E c \in Connections :
                     /\ awaiting[c] /\ create[c] = 0 /\ session[c] \in Responding
                     /\ session'[c] \in {"close", "ended"}
                     /\ ~ (wait_for_force \/ client[c] = "gone")
<1>1. Inv /\ Turns /\ [Next]_vars => ~ Cut
  BY EndsInTurn
<1>2. [~ Cut]_vars => [\A c \in Connections :
                          /\ awaiting[c] /\ create[c] = 0 /\ session[c] \in Responding
                          /\ session'[c] \in {"close", "ended"}
                          => wait_for_force \/ client[c] = "gone"]_vars
  OBVIOUS
<1> QED BY <1>1, <1>2, TurnsKept, PTL DEF Spec, RespondsThroughDrain
=============================================================================
