----------------------------- MODULE EgressServer ------------------------------
(***************************************************************************)
(* The egress listener of provider-x: its accept loop and shutdown, the    *)
(* hyper task of each connection, and the WebSocket session a connection   *)
(* is upgraded to, relayed to a WebSocket or bridged to an HTTP upstream.  *)
(*                                                                         *)
(* Tasks share the connection permit, the watch that tells the sessions to *)
(* drain, and their sockets.  A timeout may fire at any moment; contents,  *)
(* routes and the conversion of protocols are left out.                    *)
(***************************************************************************)
EXTENDS Integers, FiniteSets

CONSTANTS
    Connections,     \* client connections
    MaxConnections,  \* listener.max_connections
    Faults           \* what goes wrong, a subset of FaultKinds

FaultKinds == {"accept", "upstream", "client_stalls", "upstream_stalls", "pipelines"}

ASSUME EgressAssumption ==
    /\ IsFiniteSet(Connections) /\ MaxConnections \in Nat
    /\ Faults \subseteq FaultKinds

VARIABLES
    server,    \* where EgressServer::run is
    shutdown,  \* the watch of the application: stop
    ws,        \* the watch of the sessions
    permits,   \* free permits of connection_limit
    held,      \* the tasks that hold the permit of a connection
    client,    \* what each client does
    create,    \* response.create a client sent and the session has not read: 0 or 1
    awaiting,  \* does the client wait for the response to its request?
    upstream,  \* the other socket of a session
    conn,      \* the hyper task of each connection
    wire,      \* what the connection speaks
    session,   \* the WebSocket session of each connection
    in_flight  \* request_in_flight of relay

vars == <<server, shutdown, ws, permits, held, client, create, awaiting, upstream, conn, wire,
          session, in_flight>>

Tasks == {"connection", "session"}

\* permit and accept: the loop; join and wait: draining, and again when forced; abort; returned.
ServerPcs == {"permit", "accept", "join", "wait", "force_join", "force_wait", "abort", "returned"}

Clients == {"away", "connecting", "here", "stalled", "gone"}

\* last: a request is answered after graceful_shutdown, and no other follows.
ConnPcs == {"none", "idle", "busy", "last", "upgrading", "ended"}

\* The awaits of run_session, of relay, and of ws_http_runner::run.
SessionPcs ==
    {"none", "upgrade", "first", "ended"} \cup
    {"connect", "open", "relay", "forward_create", "forward", "deliver", "deliver_last", "settle"} \cup
    {"request", "stream", "emit", "emit_last", "finish", "warmup", "next"} \cup
    {"close", "close_upstream", "close_downstream", "abandon"}

Init ==
    /\ server = "permit" /\ shutdown = FALSE /\ ws = "Running"
    /\ permits = MaxConnections
    /\ held = [c \in Connections |-> {}]
    /\ client = [c \in Connections |-> "away"]
    /\ create = [c \in Connections |-> 0]
    /\ awaiting = [c \in Connections |-> FALSE]
    /\ upstream = [c \in Connections |-> "reading"]
    /\ conn = [c \in Connections |-> "none"]
    /\ wire = [c \in Connections |-> "closed"]
    /\ session = [c \in Connections |-> "none"]
    /\ in_flight = [c \in Connections |-> FALSE]

(***************************************************************************)
(* EgressServer::run                                                       *)
(***************************************************************************)

Clientside == <<client, create, awaiting>>

Sessions == <<session, in_flight, upstream>>

ConnAlive(c) == conn[c] \notin {"none", "ended"}

SessionAlive(c) == session[c] \notin {"none", "ended"}

\* The permit is an Arc: it is free again when the last task that holds it ends.
Drop(c, task) ==
    /\ held' = [held EXCEPT ![c] = @ \ {task}]
    /\ permits' = permits + IF held[c] = {task} THEN 1 ELSE 0

Acquire ==
    /\ server = "permit" /\ permits > 0
    /\ server' = "accept"
    /\ permits' = permits - 1
    /\ UNCHANGED <<shutdown, ws, held, conn, wire, Clientside, Sessions>>

Accept(c) ==
    /\ server = "accept" /\ client[c] = "connecting"
    /\ server' = "permit"
    /\ client' = [client EXCEPT ![c] = "here"]
    /\ conn' = [conn EXCEPT ![c] = "idle"]
    /\ wire' = [wire EXCEPT ![c] = "http"]
    /\ held' = [held EXCEPT ![c] = {"connection"}]
    /\ UNCHANGED <<shutdown, ws, permits, create, awaiting, Sessions>>

\* The loop sees the watch, waiting for a permit or for a connection, and the drain begins.
StopAccepting ==
    /\ server \in {"permit", "accept"} /\ shutdown
    /\ server' = "join"
    /\ ws' = "Draining"
    /\ permits' = permits + IF server = "accept" THEN 1 ELSE 0
    /\ UNCHANGED <<shutdown, held, conn, wire, Clientside, Sessions>>

\* The connection tasks are aborted with their sockets; a session keeps its own.
AbortConnections ==
    /\ conn' = [c \in Connections |-> IF ConnAlive(c) THEN "ended" ELSE conn[c]]
    /\ wire' = [c \in Connections |-> IF ConnAlive(c) THEN "closed" ELSE wire[c]]
    /\ held' = [c \in Connections |-> held[c] \ {"connection"}]

\* Mutated form of Freed: the permits of the aborted connections are freed, sessions or not.
FreedUpgraded == Cardinality({c \in Connections : "connection" \in held[c]})

Freed == Cardinality({c \in Connections : held[c] = {"connection"}})

\* accept() fails, and run returns at once: the watch is dropped, and the JoinSet, which asks
\* the connection tasks to abort and does not wait for them.
AcceptFails ==
    /\ "accept" \in Faults
    /\ server = "accept"
    /\ server' = "returned"
    /\ permits' = permits + 1
    /\ UNCHANGED <<shutdown, ws, held, conn, wire, Clientside, Sessions>>

\* Mutated form of Joined: the tasks of the sessions are awaited before the connections.
JoinedSessionsFirst(pc) ==
    CASE pc \in {"join", "force_join"} -> \A c \in Connections : ~ SessionAlive(c)
      [] OTHER                         -> \A c \in Connections : ~ ConnAlive(c)

\* What the drain waits for: first every connection task, then every session.
Joined(pc) ==
    CASE pc \in {"join", "force_join"} -> \A c \in Connections : ~ ConnAlive(c)
      [] OTHER                         -> \A c \in Connections : ~ SessionAlive(c)

Drain ==
    /\ server \in {"join", "wait", "force_join", "force_wait"}
    /\ Joined(server)
    /\ server' = CASE server = "join"       -> "wait"
                   [] server = "wait"       -> "returned"
                   [] server = "force_join" -> "force_wait"
                   [] OTHER                 -> "abort"
    /\ UNCHANGED <<shutdown, ws, permits, held, conn, wire, Clientside, Sessions>>

\* Mutated form of CloseWindow: the second wait has no timeout.
CloseWindowNever(pc) == pc

\* Where the drain goes on when close_window elapsed.
CloseWindow(pc) == "abort"

GraceElapsed ==
    /\ \/ /\ server \in {"join", "wait"}
          /\ server' = "force_join"
          /\ ws' = "Force"
       \/ /\ server \in {"force_join", "force_wait"}
          /\ server' = CloseWindow(server)
          /\ UNCHANGED ws
    /\ UNCHANGED <<shutdown, permits, held, conn, wire, Clientside, Sessions>>

Abort ==
    /\ server = "abort"
    /\ server' = "returned"
    /\ AbortConnections
    /\ permits' = permits + Freed
    /\ UNCHANGED <<shutdown, ws, Clientside, Sessions>>

(***************************************************************************)
(* The hyper task of a connection                                          *)
(***************************************************************************)

\* A request that is not an upgrade is read, proxied and answered.
StartHttp(c) ==
    /\ conn[c] = "idle" /\ client[c] = "here"
    /\ conn' = [conn EXCEPT ![c] = "busy"]
    /\ UNCHANGED <<server, shutdown, ws, permits, held, wire, Clientside, Sessions>>

\* The task ends: its socket is closed unless it was upgraded.
EndConnection(c, to) ==
    /\ conn' = [conn EXCEPT ![c] = "ended"]
    /\ wire' = [wire EXCEPT ![c] = to]
    /\ Drop(c, "connection")

\* The response ends, or fails at the idle timeout of its stream, while the client reads.
EndHttp(c) ==
    /\ client[c] # "stalled"
    /\ \/ /\ conn[c] = "busy"
          /\ conn' = [conn EXCEPT ![c] = "idle"]
          /\ UNCHANGED <<wire, held, permits>>
       \/ /\ conn[c] = "last"
          /\ EndConnection(c, "closed")
    /\ UNCHANGED <<server, shutdown, ws, Clientside, Sessions>>

\* wait_for_shutdown: graceful_shutdown ends an idle connection, and keeps another for its answer.
GracefulShutdown(c) ==
    /\ shutdown
    /\ \/ conn[c] = "idle" /\ EndConnection(c, "closed")
       \/ /\ conn[c] = "busy"
          /\ conn' = [conn EXCEPT ![c] = "last"]
          /\ UNCHANGED <<wire, held, permits>>
    /\ UNCHANGED <<server, shutdown, ws, Clientside, Sessions>>

\* Mutated form of SessionPermit: the session is spawned without the permit.
SessionPermitDropped(c) == held[c]

\* The tasks that hold the permit once the session is spawned.
SessionPermit(c) == held[c] \cup {"session"}

\* websocket_upgrade: the session is spawned before the handshake is answered.
websocket_upgrade(c) ==
    /\ conn[c] = "idle" /\ client[c] = "here"
    /\ conn' = [conn EXCEPT ![c] = "upgrading"]
    /\ session' = [session EXCEPT ![c] = "upgrade"]
    /\ held' = [held EXCEPT ![c] = SessionPermit(c)]
    /\ UNCHANGED <<server, shutdown, ws, permits, wire, Clientside, upstream, in_flight>>

\* 101 Switching Protocols is written, and hyper hands the socket over.
Upgraded(c) ==
    /\ conn[c] = "upgrading" /\ client[c] = "here"
    /\ EndConnection(c, "websocket")
    /\ UNCHANGED <<server, shutdown, ws, Clientside, Sessions>>

\* The client closed its side of a connection that is not upgraded.
ClientLeft(c) ==
    /\ ConnAlive(c) /\ client[c] = "gone"
    /\ EndConnection(c, "closed")
    /\ UNCHANGED <<server, shutdown, ws, Clientside, Sessions>>

\* A task that was asked to abort ends where it awaits; until then it goes on.
Aborted(c) ==
    /\ server = "returned" /\ ConnAlive(c)
    /\ EndConnection(c, "closed")
    /\ UNCHANGED <<server, shutdown, ws, Clientside, Sessions>>

(***************************************************************************)
(* The WebSocket session: what ends it, whatever it is doing               *)
(***************************************************************************)

\* Mutated form of WatchDropped: a session does not notice that the sender is gone.
DropUnnoticed == FALSE

\* The watch of the sessions is dropped when run returns; its value stays the last one sent.
WatchDropped == server = "returned"

wait_for_drain == ws # "Running" \/ WatchDropped

wait_for_force == ws = "Force" \/ WatchDropped

\* Mutated form of wait_for_session_shutdown: a drain ends a session with a request in flight.
WaitIgnoresRequest(c) == wait_for_drain

wait_for_session_shutdown(c) == wait_for_force \/ (~ in_flight[c] /\ ws = "Draining")

\* A session goes on at pc; at its end it drops its socket and its permit.
Goes(c, pc) ==
    /\ session' = [session EXCEPT ![c] = pc]
    /\ IF pc = "ended" THEN Drop(c, "session") /\ wire' = [wire EXCEPT ![c] = "closed"]
       ELSE UNCHANGED <<held, permits, wire>>

Outside == <<server, shutdown, ws, client, conn>>

\* A message can be sent to the client, or the attempt fails: it does not block.
ClientTakes(c) == client[c] # "stalled"

UpstreamTakes(c) == upstream[c] # "stalled"

Reads(c) == create[c] = 1 /\ create' = [create EXCEPT ![c] = 0]

\* The stream of the client is at its end: it closed, and nothing it sent is unread.
ClientClosed(c) == client[c] = "gone" /\ create[c] = 0

\* A step of the session that changes only its place.
Moves(c, from, to) ==
    /\ session[c] \in from
    /\ Goes(c, to)
    /\ UNCHANGED <<create, awaiting, upstream, in_flight, Outside>>

\* The waits for the watch.  first, relay and next poll it before anything else.
ShutdownNoticed(c) ==
    \/ wait_for_drain /\ Moves(c, {"upgrade", "first"}, "ended")
    \/ wait_for_drain /\ Moves(c, {"next"}, "close_downstream")
    \/ wait_for_session_shutdown(c) /\ Moves(c, {"relay"}, "close")
    \/ wait_for_force /\ Moves(c, {"forward_create", "forward", "deliver", "deliver_last"},
                               "close_upstream")
    \/ wait_for_force /\ Moves(c, {"connect", "open", "request", "stream", "emit", "emit_last", "warmup"},
                               "ended")

\* The idle timeouts, and that of connecting.
IdleTimeout(c) ==
    \/ ~ wait_for_drain /\ Moves(c, {"first", "next"}, "close_downstream")
    \/ ~ wait_for_session_shutdown(c) /\ Moves(c, {"relay"}, "abandon")
    \/ Moves(c, {"forward_create", "forward", "deliver", "deliver_last"}, "abandon")
    \/ Moves(c, {"connect", "open", "request", "stream", "emit", "emit_last", "warmup"},
             "close_downstream")

\* close_both, reject_downstream and the other closing sends, which have no timeout.
Closing(c) ==
    \/ ClientTakes(c) /\ Moves(c, {"close"}, "close_upstream")
    \/ ClientTakes(c) /\ Moves(c, {"close_downstream"}, "ended")
    \/ UpstreamTakes(c) /\ Moves(c, {"close_upstream"}, "ended")
    \/ UpstreamTakes(c) /\ Moves(c, {"abandon"}, "close_downstream")

(***************************************************************************)
(* The WebSocket session: receive_first_message, and relay to a WebSocket  *)
(***************************************************************************)

UpgradeAnswered(c) ==
    \/ wire[c] = "websocket" /\ Moves(c, {"upgrade"}, "first")
    \/ wire[c] = "closed" /\ Moves(c, {"upgrade"}, "ended")

\* The first request freezes the route: a WebSocket, an HTTP upstream, a warmup, or none.
FirstMessage(c) ==
    /\ session[c] = "first" /\ ~ wait_for_drain
    /\ \/ Reads(c) /\ \E to \in {"connect", "request", "warmup", "close_downstream"} : Goes(c, to)
       \/ ClientClosed(c) /\ Goes(c, "ended") /\ UNCHANGED create
    /\ UNCHANGED <<awaiting, upstream, in_flight, Outside>>

ConnectUpstream(c) ==
    \/ "upstream" \in Faults /\ Moves(c, {"connect"}, "close_downstream")
    \/ /\ session[c] = "connect"
       /\ Goes(c, "open")
       /\ upstream' = [upstream EXCEPT ![c] = "reading"]
       /\ UNCHANGED <<create, awaiting, in_flight, Outside>>

\* send_upstream, of the first request, of a later one, and of any other message.
SentUpstream(c) ==
    /\ session[c] \in {"open", "forward_create", "forward"}
    /\ \/ /\ UpstreamTakes(c)
          /\ Goes(c, "relay")
          /\ in_flight' = [in_flight EXCEPT ![c] = @ \/ session[c] # "forward"]
       \/ /\ "upstream" \in Faults
          /\ Goes(c, IF session[c] = "open" THEN "close_downstream" ELSE "abandon")
          /\ UNCHANGED in_flight
    /\ UNCHANGED <<create, awaiting, upstream, Outside>>

\* A message of the client: a request in turn, on another route or out of turn; anything else;
\* its end.
FromClient(c) ==
    /\ session[c] = "relay" /\ ~ wait_for_session_shutdown(c)
    /\ \/ /\ Reads(c)
          /\ IF in_flight[c] THEN Goes(c, "abandon")
             ELSE \E to \in {"forward_create", "abandon"} : Goes(c, to)
       \/ /\ client[c] = "here" /\ create[c] = 0
          /\ Goes(c, "forward") /\ UNCHANGED create
       \/ ClientClosed(c) /\ Goes(c, "close_upstream") /\ UNCHANGED create
    /\ UNCHANGED <<awaiting, upstream, in_flight, Outside>>

\* A message of the upstream: an event, the last of a response, its close, a failure.
FromUpstream(c) ==
    /\ session[c] = "relay" /\ ~ wait_for_session_shutdown(c)
    /\ \/ Goes(c, "deliver")
       \/ in_flight[c] /\ Goes(c, "deliver_last")
       \/ Goes(c, "close_downstream")
       \/ "upstream" \in Faults /\ Goes(c, "abandon")
    /\ UNCHANGED <<create, awaiting, upstream, in_flight, Outside>>

\* send_downstream: the client has the message before the session goes on.
SentDownstream(c) ==
    \/ client[c] = "here" /\ Moves(c, {"deliver"}, "relay")
    \/ client[c] = "here" /\ Moves(c, {"emit"}, "stream")
    \/ client[c] = "gone" /\ Moves(c, {"deliver", "deliver_last"}, "abandon")
    \/ client[c] = "gone" /\ Moves(c, {"emit", "emit_last", "warmup"}, "close_downstream")
    \/ /\ client[c] = "here" /\ session[c] \in {"deliver_last", "emit_last", "warmup"}
       /\ awaiting' = [awaiting EXCEPT ![c] = FALSE]
       /\ Goes(c, CASE session[c] = "deliver_last" -> "settle"
                    [] session[c] = "emit_last"    -> "finish"
                    [] OTHER                       -> "next")
       /\ UNCHANGED <<create, upstream, in_flight, Outside>>

\* Mutated form of Settled: the request stays in flight after its last event.
SettledInFlight(c) == in_flight[c]

\* request_in_flight after the last event of a response.
Settled(c) == FALSE

\* What follows the last event: the next request, or the close of a drain.
Settle(c) ==
    /\ session[c] = "settle"
    /\ in_flight' = [in_flight EXCEPT ![c] = Settled(c)]
    /\ Goes(c, IF ws # "Running" THEN "close" ELSE "relay")
    /\ UNCHANGED <<create, awaiting, upstream, Outside>>

(***************************************************************************)
(* The WebSocket session: ws_http_runner, bridged to an HTTP upstream      *)
(***************************************************************************)

\* The response headers arrive, or the request fails or cannot be prepared.
RequestHttp(c) ==
    \/ Moves(c, {"request"}, "stream")
    \/ "upstream" \in Faults /\ Moves(c, {"request"}, "close_downstream")

\* collect_sse: a frame with or without the last event, its end without one, or the client.
CollectSse(c) ==
    \/ Moves(c, {"stream"}, "emit")
    \/ Moves(c, {"stream"}, "emit_last")
    \/ "upstream" \in Faults /\ Moves(c, {"stream"}, "close_downstream")
    \/ ClientClosed(c) /\ Moves(c, {"stream"}, "ended")
    \/ /\ session[c] = "stream"
       /\ Reads(c) /\ Goes(c, "close_downstream")
       /\ UNCHANGED <<awaiting, upstream, in_flight, Outside>>

\* The response is committed, or cannot be; a drain closes the session.
Finish(c) ==
    /\ session[c] = "finish"
    /\ \/ Goes(c, IF ws # "Running" THEN "close_downstream" ELSE "next")
       \/ "upstream" \in Faults /\ Goes(c, "close_downstream")
    /\ UNCHANGED <<create, awaiting, upstream, in_flight, Outside>>

receive_next_create(c) ==
    /\ session[c] = "next" /\ ~ wait_for_drain
    /\ \/ Reads(c) /\ \E to \in {"request", "warmup", "close_downstream"} : Goes(c, to)
       \/ ClientClosed(c) /\ Goes(c, "ended") /\ UNCHANGED create
    /\ UNCHANGED <<awaiting, upstream, in_flight, Outside>>

(***************************************************************************)
(* The environment                                                         *)
(***************************************************************************)

Listener == <<server, ws, permits, held, conn, wire, session, in_flight>>

Connect(c) ==
    /\ client[c] = "away"
    /\ client' = [client EXCEPT ![c] = "connecting"]
    /\ UNCHANGED <<shutdown, create, awaiting, upstream, Listener>>

\* A client sends its next request when it has the last event of the one before.
SendCreate(c) ==
    /\ client[c] = "here" /\ wire[c] = "websocket" /\ create[c] = 0
    /\ ~ awaiting[c] \/ "pipelines" \in Faults
    /\ create' = [create EXCEPT ![c] = 1]
    /\ awaiting' = [awaiting EXCEPT ![c] = TRUE]
    /\ UNCHANGED <<shutdown, client, upstream, Listener>>

\* A peer stops reading its socket, with the buffers full, or reads again.
Stalls(c) ==
    \/ /\ "client_stalls" \in Faults
       /\ client[c] \in {"here", "stalled"}
       /\ client' = [client EXCEPT ![c] = IF @ = "here" THEN "stalled" ELSE "here"]
       /\ UNCHANGED <<shutdown, create, awaiting, upstream, Listener>>
    \/ /\ "upstream_stalls" \in Faults /\ SessionAlive(c)
       /\ upstream' = [upstream EXCEPT ![c] = IF @ = "reading" THEN "stalled" ELSE "reading"]
       /\ UNCHANGED <<shutdown, client, create, awaiting, Listener>>

Leave(c) ==
    /\ client[c] \in {"connecting", "here", "stalled"}
    /\ client' = [client EXCEPT ![c] = IF @ = "connecting" THEN "away" ELSE "gone"]
    /\ UNCHANGED <<shutdown, create, awaiting, upstream, Listener>>

\* The next connection of the client, when nothing is left of the one before.
Forget(c) ==
    /\ client[c] = "gone" /\ ~ ConnAlive(c) /\ ~ SessionAlive(c)
    /\ client' = [client EXCEPT ![c] = "away"]
    /\ create' = [create EXCEPT ![c] = 0]
    /\ awaiting' = [awaiting EXCEPT ![c] = FALSE]
    /\ upstream' = [upstream EXCEPT ![c] = "reading"]
    /\ conn' = [conn EXCEPT ![c] = "none"]
    /\ session' = [session EXCEPT ![c] = "none"]
    /\ in_flight' = [in_flight EXCEPT ![c] = FALSE]
    /\ UNCHANGED <<server, shutdown, ws, permits, held, wire>>

\* shutdown_egress sends the signal.
Shutdown ==
    /\ ~ shutdown
    /\ shutdown' = TRUE
    /\ UNCHANGED <<client, create, awaiting, upstream, Listener>>

Server ==
    \/ Acquire \/ StopAccepting \/ AcceptFails \/ Drain \/ GraceElapsed \/ Abort
    \/ \E c \in Connections : Accept(c)

Connection(c) ==
    \/ StartHttp(c) \/ EndHttp(c) \/ GracefulShutdown(c)
    \/ websocket_upgrade(c) \/ Upgraded(c) \/ ClientLeft(c) \/ Aborted(c)

Session(c) ==
    \/ ShutdownNoticed(c) \/ IdleTimeout(c) \/ Closing(c) \/ UpgradeAnswered(c) \/ FirstMessage(c)
    \/ ConnectUpstream(c) \/ SentUpstream(c) \/ FromClient(c) \/ FromUpstream(c)
    \/ SentDownstream(c) \/ Settle(c)
    \/ RequestHttp(c) \/ CollectSse(c) \/ Finish(c) \/ receive_next_create(c)

Environment(c) == Connect(c) \/ SendCreate(c) \/ Stalls(c) \/ Leave(c) \/ Forget(c)

Next ==
    \/ Server
    \/ \E c \in Connections : Connection(c) \/ Session(c) \/ Environment(c)
    \/ Shutdown

Spec == Init /\ [][Next]_vars

\* A stop needs no idle timer, which a peer that keeps talking would restart: its grace and its
\* close window elapse, tasks go on when nothing holds them, and a select that keeps finding the
\* watch ready takes it at last.
StopFairness ==
    /\ WF_vars(StopAccepting) /\ WF_vars(Drain) /\ WF_vars(GraceElapsed) /\ WF_vars(Abort)
    /\ \A c \in Connections :
          /\ WF_vars(GracefulShutdown(c)) /\ WF_vars(ClientLeft(c)) /\ WF_vars(Aborted(c))
          /\ WF_vars(Settle(c) \/ Finish(c)) /\ WF_vars(Closing(c)) /\ SF_vars(ShutdownNoticed(c))

StopSpec == Spec /\ StopFairness

\* With the idle timers; the clients, the upstreams and the user owe nothing.
FairSpec == StopSpec /\ \A c \in Connections : WF_vars(Session(c))

(***************************************************************************)
(* Properties                                                              *)
(***************************************************************************)

\* Every variable has the type its declaration gives.
TypeOK ==
    /\ server \in ServerPcs
    /\ shutdown \in BOOLEAN
    /\ ws \in {"Running", "Draining", "Force"}
    /\ permits \in 0 .. MaxConnections
    /\ held \in [Connections -> SUBSET Tasks]
    /\ client \in [Connections -> Clients]
    /\ create \in [Connections -> 0 .. 1]
    /\ awaiting \in [Connections -> BOOLEAN]
    /\ upstream \in [Connections -> {"reading", "stalled"}]
    /\ conn \in [Connections -> ConnPcs]
    /\ wire \in [Connections -> {"closed", "http", "websocket"}]
    /\ session \in [Connections -> SessionPcs]
    /\ in_flight \in [Connections -> BOOLEAN]

\* A permit is free, held by the loop, or held by a connection: none is lost or doubled on any
\* way out of the loop, a connection or a session.
PermitsAreConserved ==
    permits + Cardinality({c \in Connections : held[c] # {}})
            + (IF server = "accept" THEN 1 ELSE 0) = MaxConnections

\* When run has returned from a drain no connection is served, and when it did so without force
\* no session is left either: one spawned while the drain was under way was waited for.
RunLeavesNothing ==
    server = "returned" /\ ws # "Running" =>
        /\ \A c \in Connections : ~ ConnAlive(c)
        /\ ws = "Draining" => \A c \in Connections : ~ SessionAlive(c)

\* A client that sends its next request on receipt of the last event of a response is never
\* refused as concurrent, though the session may not have noted the end of the response yet.
NextRequestInTurn ==
    \A c \in Connections :
        create[c] = 1 => session[c] # "stream" /\ ~ (session[c] = "relay" /\ in_flight[c])

\* The places of a session that has read a request and not sent its last event.
Responding == {"connect", "open", "relay", "forward_create", "forward", "deliver", "deliver_last",
               "request", "stream", "emit", "emit_last", "warmup"}

\* A drain does not cut off a response: before force, a session that has read a request closes
\* or ends only with its client.
RespondsThroughDrain ==
    [][\A c \in Connections :
          /\ awaiting[c] /\ create[c] = 0 /\ session[c] \in Responding
          /\ session'[c] \in {"close", "ended"}
          => wait_for_force \/ client[c] = "gone"]_vars

Promised == INSTANCE Admission
    WITH served <- {c \in Connections : ConnAlive(c) \/ SessionAlive(c)},
         open   <- server \in {"permit", "accept"}

\* Connections and the sessions they became are admitted within the limit, and none after a stop.
ImplementsAdmission == Promised!Spec

\* A stop ends the accept loop and its connections, whatever the peers do.
ShutdownReturns == shutdown ~> server = "returned" /\ \A c \in Connections : ~ ConnAlive(c)

\* A stop also ends every session, unless one of its peers stops reading again and again or for
\* good; the accept loop may have died before the stop.
SessionsEnd ==
    \A c \in Connections :
        shutdown /\ SessionAlive(c)
            ~> ~ SessionAlive(c) \/ client[c] = "stalled" \/ upstream[c] = "stalled"

\* README.md:219: idle periods are bounded, so a session whose client has stopped reading ends.
StalledSessionEnds ==
    \A c \in Connections :
        SessionAlive(c) /\ client[c] = "stalled" ~> ~ SessionAlive(c) \/ client[c] # "stalled"
=============================================================================
