--------------------------- MODULE BridgedSession ---------------------------
(***************************************************************************)
(* One WebSocket session whose requests are answered over HTTP: the loop   *)
(* of ws_http_runner.rs with one of its three adapters. The adapter keeps  *)
(* the conversation for an upstream that keeps none: it remembers defaults *)
(* a warmup states, replays the history of the last completed response in  *)
(* front of what the client sends, and drops the part the client repeats.  *)
(*                                                                         *)
(* How an answer streams is the subject of ResponseStream; here it is one  *)
(* step. Texts, instructions and models are numbers, 0 is an absent field. *)
(*                                                                         *)
(* The client is Codex as the tests of the bridges show it: it continues   *)
(* from its last completed response, may repeat the end of the             *)
(* conversation, may send tool output without naming a response, may send  *)
(* everything again, and may start over. What it means by a request is     *)
(* `wanted.meant`.                                                         *)
(***************************************************************************)
EXTENDS Naturals, Sequences, FiniteSets, Folds, Functions, SequencesExt

CONSTANTS
  Protocols,     \* the adapters: a subset of {"responses", "chat", "anthropic"}
  Limit,         \* MAX_HISTORY_ITEMS
  MaxTurns,      \* bound: requests and warmups of one session
  Texts,         \* what a user may type
  Instructions,  \* the values of the `instructions` field, without 0
  Models,        \* the Provider's models, by catalog name
  Strays,        \* other names a request may carry: "gone", "elsewhere"
  Answers,       \* per adapter, what a model may answer: sequences of sorts of items
  Habits         \* per adapter, what the client does: see Requests

ASSUME SessionAssumption ==
  /\ Protocols \subseteq {"responses", "chat", "anthropic"}
  /\ {Limit, MaxTurns} \subseteq Nat \ {0}
  /\ Texts \cup Instructions \subseteq 1..9
  /\ Models \subseteq Nat \ {0}
  /\ Strays \subseteq {"gone", "elsewhere"}

VARIABLES
  protocol,            \* which adapter the session runs
  upstream_model,      \* the model of the session, set by its first request
  history,             \* the adapter's memory: items, or messages of the upstream's protocol
  defaults,            \* the defaults it keeps, here of `instructions`
  warmup_response_id,  \* the id of the last warmup, 0 when none is remembered
  phase,               \* "waiting" for a request, "asking" the upstream, or "ended"
  end,                 \* why the session ended
  sent,                \* the request upstream: model, system texts, messages, previous id
  shutdown,            \* the server's WebSocketShutdown
  turn,                \* requests received so far
  conversation,        \* client: what was said up to its last completed response
  last,                \* client: the id of that response
  inForce,             \* client: the instructions it stated last
  wanted               \* client: what the open request means

adapter == <<protocol, upstream_model, history, defaults, warmup_response_id>>
client == <<conversation, last, inForce>>
vars == <<adapter, phase, end, sent, shutdown, turn, client, wanted>>

Nothing == [model |-> 0, system |-> <<>>, messages |-> <<>>, previous |-> 0]
NoWish == [model |-> 0, instructions |-> 0, meant |-> <<>>]

-----------------------------------------------------------------------------
(* Items of the Responses protocol. An item the model made carries an id,  *)
(* a call also the call id its output answers to.                          *)

Item(sort, key, id, call) == [sort |-> sort, key |-> key, id |-> id, call_id |-> call]
User(k) == Item("user", k, 0, 0)
Developer == Item("developer", 9, 0, 0)
Output(call) == Item("output", call.key, 0, call.call_id)
Made(sort, k) == Item(sort, k, k, IF sort = "call" THEN 100 + k ELSE 0)

TypeOf(i) == IF i.sort \in {"user", "developer", "said"} THEN "message" ELSE i.sort

item_identity(i) == IF i.id # 0 THEN i.id ELSE i.call_id

same_item(l, r) ==
  IF item_identity(l) # 0 /\ item_identity(r) # 0
  THEN TypeOf(l) = TypeOf(r) /\ item_identity(l) = item_identity(r)
  ELSE l = r

contains_tool_output(items) == \E i \in DOMAIN items : items[i].sort = "output"

(* What a model reads: parts in order, whatever message carries them.      *)
Part(sort, key) == [sort |-> sort, key |-> key]
PartOf(i) == Part(i.sort, i.key)
Flat(f(_), s) == FoldLeft(LAMBDA done, x : done \o f(x), <<>>, s)

-----------------------------------------------------------------------------
(* Messages of Chat Completions and of Anthropic Messages. `blocks` tells  *)
(* content that is a list of blocks from content that is a string.         *)

Message(role, text, calls, thought, blocks) ==
  [role |-> role, text |-> text, calls |-> calls, thought |-> thought, blocks |-> blocks]

PartsOfMessage(m) ==
  (IF m.text = 0 THEN <<>>
   ELSE <<Part(CASE m.role = "assistant" -> "said" [] OTHER -> m.role, m.text)>>)
  \o [n \in DOMAIN m.calls |->
        Part(IF m.role = "assistant" THEN "call" ELSE "output", m.calls[n])]

(* A developer message becomes a system message, consecutive calls become  *)
(* one assistant message, reasoning is dropped.                            *)
flush_calls(st) ==
  IF st.calls = <<>> THEN st.messages
  ELSE Append(st.messages, Message("assistant", 0, st.calls, 0, FALSE))

input_to_messages(items) ==
  LET Next1(st, i) ==
        CASE i.sort = "call" -> [st EXCEPT !.calls = Append(@, i.key)]
          [] i.sort = "thought" -> st
          [] OTHER ->
               [messages |-> Append(flush_calls(st),
                   CASE i.sort = "output" -> Message("tool", 0, <<i.key>>, 0, FALSE)
                     [] i.sort = "said" -> Message("assistant", i.key, <<>>, 0, FALSE)
                     [] i.sort = "developer" -> Message("system", i.key, <<>>, 0, FALSE)
                     [] OTHER -> Message("user", i.key, <<>>, 0, FALSE)),
                calls |-> <<>>]
  IN flush_calls(FoldLeft(Next1, [messages |-> <<>>, calls |-> <<>>], items))

contains_tool_message(messages) == \E i \in DOMAIN messages : messages[i].role = "tool"

(* input.rs: developer messages are taken out into the system text, every  *)
(* call and every output is a message of its own, with a list of blocks.   *)
input_messages(items) ==
  LET One(i) ==
        CASE i.sort = "user" -> <<Message("user", i.key, <<>>, 0, FALSE)>>
          [] i.sort = "said" -> <<Message("assistant", i.key, <<>>, 0, FALSE)>>
          [] i.sort = "call" -> <<Message("assistant", 0, <<i.key>>, 0, TRUE)>>
          [] i.sort = "output" -> <<Message("user", 0, <<i.key>>, 0, TRUE)>>
          [] OTHER -> <<>>
  IN Flat(One, items)

input_system(items) ==
  LET Dev(i) == i.sort = "developer"
      Picked == SelectSeq(items, Dev)
  IN [n \in DOMAIN Picked |-> Picked[n].key]

(* The assistant message a completed answer leaves in the history.         *)
CommitMessage(p, items) ==
  LET KeysOf(sort) == LET Is(i) == i.sort = sort
                          Picked == SelectSeq(items, Is)
                      IN [n \in DOMAIN Picked |-> Picked[n].key]
      First(keys) == IF keys = <<>> THEN 0 ELSE keys[1]
  IN Message("assistant", First(KeysOf("said")), KeysOf("call"), First(KeysOf("thought")),
             p = "anthropic")

-----------------------------------------------------------------------------
(* The replay: the history, then what the client sent without the part     *)
(* that repeats the end of the history.                                    *)

(* An item repeats another by its identity, a message by being equal.      *)
Same(l, r) == IF protocol = "responses" THEN same_item(l, r) ELSE l = r

Repeats(old, new, n) ==
  \A i \in 1..n : Same(old[Len(old) - n + i], new[i])

(* Mutant: the counts are tried from the smallest up.                      *)
ShortestOverlap(old, new) == 0

LongestOverlap(old, new) ==
  LET most == IF Len(old) < Len(new) THEN Len(old) ELSE Len(new)
  IN CHOOSE n \in 0..most :
       /\ Repeats(old, new, n)
       /\ \A m \in (n + 1)..most : ~Repeats(old, new, m)

bounded_merge(old, new) ==
  old \o SubSeq(new, LongestOverlap(old, new) + 1, Len(new))

(* Defaults: a field the request states replaces the one that is kept; in  *)
(* the Responses adapter a warmup also forgets what it does not state.     *)
Captured(p, req) ==
  IF req.instructions # 0 \/ (p = "responses" /\ ~req.generate)
  THEN req.instructions ELSE defaults

(* The first request gives the session its model, for good.                *)
SessionModel(req) == IF upstream_model = 0 THEN req.model ELSE upstream_model

(* Each adapter's prepare: the request it makes, and whether its limits    *)
(* hold. The pending history is the messages of that request.              *)
PrepareResponses(req, instructions) ==
  LET replay == history # <<>> /\ (req.previous # 0 \/ contains_tool_output(req.input))
      references_warmup == req.previous # 0 /\ req.previous = warmup_response_id
      input == IF replay THEN bounded_merge(history, req.input) ELSE req.input
  IN [fits |-> replay => Len(input) <= Limit,
      sent |-> [model |-> SessionModel(req),
                system |-> IF instructions = 0 THEN <<>> ELSE <<instructions>>,
                messages |-> input,
                previous |-> IF references_warmup \/ replay THEN 0 ELSE req.previous]]

WithSystem(instructions, messages) ==
  LET system == Message("system", instructions, <<>>, 0, FALSE) IN
  IF \/ instructions = 0
     \/ messages # <<>> /\ messages[1] = system
  THEN messages ELSE <<system>> \o messages

PrepareChat(req, instructions) ==
  LET current == input_to_messages(req.input)
      replay == history # <<>> /\ (req.previous # 0 \/ contains_tool_message(current))
      messages == WithSystem(instructions,
                    IF replay THEN bounded_merge(history, current) ELSE current)
  IN [fits |-> Len(messages) \in 1..Limit,
      sent |-> [model |-> SessionModel(req), system |-> <<>>, messages |-> messages,
                previous |-> 0]]

PrepareAnthropic(req, instructions) ==
  LET current == input_messages(req.input)
      replay == history # <<>> /\ (req.previous # 0 \/ contains_tool_output(req.input))
      messages == IF replay THEN bounded_merge(history, current) ELSE current
  IN [fits |-> Len(current) > 0 /\ Len(messages) <= Limit,
      sent |-> [model |-> SessionModel(req),
                system |-> (IF instructions = 0 THEN <<>> ELSE <<instructions>>)
                             \o input_system(req.input),
                messages |-> messages, previous |-> 0]]

prepare_action(req, instructions) ==
  CASE protocol = "responses" -> PrepareResponses(req, instructions)
    [] protocol = "chat" -> PrepareChat(req, instructions)
    [] protocol = "anthropic" -> PrepareAnthropic(req, instructions)

-----------------------------------------------------------------------------
(* The client.                                                             *)

Request(generate, model, instructions, previous, input, meant) ==
  [generate |-> generate, model |-> model, instructions |-> instructions,
   previous |-> previous, input |-> input, meant |-> meant]

(* The outputs of the calls that wait for one, in the order of the calls.  *)
Nth(positions, k) == CHOOSE n \in positions : Cardinality({m \in positions : m <= n}) = k
Owed ==
  LET open == {n \in DOMAIN conversation :
                 /\ conversation[n].sort = "call"
                 /\ \A m \in DOMAIN conversation : conversation[m] # Output(conversation[n])}
  IN [k \in 1..Cardinality(open) |-> Output(conversation[Nth(open, k)])]

Openings == {<<User(t)>> : t \in Texts}
              \cup IF "developer" \in Habits[protocol]
                   THEN {<<Developer, User(t)>> : t \in Texts} ELSE {}

News == IF Owed = <<>> THEN Openings ELSE {Owed} \cup {Owed \o o : o \in {<<User(t)>> : t \in Texts}}

EndOf(n) == SubSeq(conversation, Len(conversation) - n + 1, Len(conversation))

(* How much of the conversation a continuation repeats: anything, or only  *)
(* the call it answers when that was the whole answer.                     *)
Repeated ==
  LET most == Len(conversation) IN
  {0} \cup (IF "repeat" \in Habits[protocol] THEN 1..most ELSE {})
      \cup {n \in {1} : /\ "repeat_call" \in Habits[protocol]
                        /\ Owed # <<>>
                        /\ most > 1 => conversation[most - 1].sort \in {"user", "output"}}

Wish(previous, input, meant) == [previous |-> previous, input |-> input, meant |-> meant]

Fresh == {Wish(IF conversation = <<>> THEN last ELSE 0, o, o) : o \in Openings}
Continued == {Wish(last, EndOf(n) \o new, conversation \o new) : n \in Repeated, new \in News}
Orphaned == {Wish(0, Owed, conversation \o Owed)}
Resent == {w \in {Wish(0, conversation \o new, conversation \o new) : new \in News} :
             "resend" \in Habits[protocol] \/ ~contains_tool_output(w.input)}

Wishes == Fresh \cup IF conversation = <<>> THEN {}
                     ELSE Continued \cup Resent \cup (IF Owed = <<>> THEN {} ELSE Orphaned)

(* Instructions are stated when a conversation starts and repeated or left *)
(* out after that; "reinstruct" is a client that changes them on the way.  *)
Stated ==
  IF conversation = <<>> \/ inForce = 0 \/ "reinstruct" \in Habits[protocol]
  THEN {0} \cup Instructions ELSE {0, inForce}

Requests ==
  UNION {{Request(TRUE, m, i, w.previous, w.input, w.meant) :
            m \in Models, i \in Stated} : w \in Wishes}

(* A warmup states its defaults.                                           *)
Warmups == {Request(FALSE, m, i, 0, <<>>, <<>>) :
              m \in Models, i \in Stated \ {0}}

Remember(req) == IF req.instructions = 0 THEN inForce ELSE req.instructions

-----------------------------------------------------------------------------
(* The session.                                                            *)

Init ==
  /\ protocol \in Protocols
  /\ upstream_model = 0
  /\ history = <<>>
  /\ defaults = 0
  /\ warmup_response_id = 0
  /\ phase = "waiting"
  /\ end = "none"
  /\ sent = Nothing
  /\ shutdown = "Running"
  /\ turn = 0
  /\ conversation = <<>>
  /\ last = 0
  /\ inForce = 0
  /\ wanted = NoWish

(* The first message came with the session; the wait for the next one      *)
(* notices a drain before it reads.                                        *)
Receives ==
  /\ phase = "waiting"
  /\ turn = 0 \/ shutdown = "Running"
  /\ turn < MaxTurns
  /\ turn' = turn + 1

Ends(why) == phase' = "ended" /\ end' = why

(* Every request of a session is resolved with the snapshot of the first.  *)
ReceiveStray ==
  /\ Receives
  /\ turn > 0
  /\ \E name \in Strays :
       Ends(IF name = "gone" THEN "ModelNotAvailable" ELSE "RouteChanged")
  /\ UNCHANGED <<adapter, sent, shutdown, client, wanted>>

(* generate = false is answered here, with an id of the session's own.     *)
ReceiveWarmup ==
  /\ Receives
  /\ \E req \in Warmups :
       /\ defaults' = Captured(protocol, req)
       /\ upstream_model' = SessionModel(req)
       /\ inForce' = Remember(req)
  /\ warmup_response_id' = IF protocol = "anthropic" THEN 100 ELSE 100 + turn
  /\ last' = IF conversation = <<>> THEN warmup_response_id' ELSE last
  /\ UNCHANGED <<protocol, history, phase, end, sent, shutdown, conversation, wanted>>

(* The limit in bytes is a choice: any request may be too long for it.     *)
ReceiveRequest ==
  /\ Receives
  /\ \E req \in Requests, light \in BOOLEAN :
       LET instructions == Captured(protocol, req)
           prepared == prepare_action(req, instructions)
       IN /\ defaults' = instructions
          /\ upstream_model' = SessionModel(req)
          /\ inForce' = Remember(req)
          /\ IF light /\ prepared.fits
             THEN /\ phase' = "asking"
                  /\ sent' = prepared.sent
                  /\ wanted' = [model |-> req.model, instructions |-> inForce',
                                meant |-> req.meant]
                  /\ UNCHANGED end
             ELSE /\ Ends("SessionHistoryLimit")
                  /\ UNCHANGED <<sent, wanted>>
  /\ warmup_response_id' = 0
  /\ UNCHANGED <<protocol, history, shutdown, conversation, last>>

(* Leaving request_http: a session that drains is closed now.              *)
Continue ==
  /\ IF shutdown = "Running" THEN phase' = "waiting" /\ UNCHANGED end
     ELSE Ends("ServiceRestart")
  /\ sent' = Nothing
  /\ wanted' = NoWish

HistoryAfter(made) ==
  IF protocol = "responses" THEN sent.messages \o made
  ELSE Append(sent.messages, CommitMessage(protocol, made))

CommitFits(made) == Len(HistoryAfter(made)) <= Limit

(* A completed response is delivered, then committed; a history over the   *)
(* limits ends the session.                                                *)
Complete ==
  /\ phase = "asking"
  /\ \E sorts \in Answers[protocol], light \in BOOLEAN :
       LET made == [n \in DOMAIN sorts |-> Made(sorts[n], 10 * turn + n)]
       IN /\ conversation' = wanted.meant \o made
          /\ last' = turn
          /\ IF light /\ CommitFits(made)
             THEN history' = HistoryAfter(made) /\ Continue
             ELSE Ends("SessionHistoryLimit") /\ UNCHANGED <<history, sent, wanted>>
  /\ UNCHANGED <<protocol, upstream_model, defaults, warmup_response_id, shutdown, turn, inForce>>

(* Mutant: every terminal response is committed.                           *)
CommitTerminal ==
  /\ phase = "asking"
  /\ last' = IF conversation = <<>> THEN 0 ELSE last
  /\ history' = HistoryAfter(<<>>)
  /\ Continue
  /\ UNCHANGED <<protocol, upstream_model, defaults, warmup_response_id, shutdown, turn,
                 conversation, inForce>>

(* A failed or incomplete response is terminal and not committed.          *)
NotCompleted ==
  /\ phase = "asking"
  /\ last' = IF conversation = <<>> /\ "retry_warmup" \notin Habits[protocol] THEN 0 ELSE last
  /\ Continue
  /\ UNCHANGED <<adapter, shutdown, turn, conversation, inForce>>

(* No response, one with an error status, or a stream that breaks.         *)
Break ==
  /\ phase = "asking"
  /\ \E why \in {"UpstreamConnect", "UpstreamStatus", "InvalidUpstreamStream", "ClientClosed"} \cup
               (IF shutdown = "Force" THEN {"Shutdown"} ELSE {}) : Ends(why)
  /\ UNCHANGED <<adapter, sent, shutdown, turn, client, wanted>>

(* The wait for the next message ends by drain, timeout or close.          *)
Leave ==
  /\ phase = "waiting"
  /\ turn > 0
  /\ IF shutdown = "Running" THEN \E why \in {"IdleTimeout", "ClientClosed"} : Ends(why)
     ELSE Ends("ServiceRestart")
  /\ UNCHANGED <<adapter, sent, shutdown, turn, client, wanted>>

Stop ==
  /\ phase # "ended"
  /\ shutdown # "Force"
  /\ shutdown' = IF shutdown = "Running" THEN "Drain" ELSE "Force"
  /\ UNCHANGED <<adapter, phase, end, sent, turn, client, wanted>>

Next ==
  \/ ReceiveStray \/ ReceiveWarmup \/ ReceiveRequest
  \/ Complete \/ NotCompleted \/ Break \/ Leave \/ Stop

Spec == Init /\ [][Next]_vars

-----------------------------------------------------------------------------
(* Properties.                                                             *)

System(parts) == LET Is(p) == p.sort = "system" IN SelectSeq(parts, Is)
Others(parts) == LET Is(p) == p.sort # "system" IN SelectSeq(parts, Is)

PartsOfItems(items) ==
  LET Kept(i) == protocol = "responses" \/ i.sort # "thought"
      kept == SelectSeq(items, Kept)
  IN [n \in DOMAIN kept |->
        Part(IF kept[n].sort = "developer" THEN "system" ELSE kept[n].sort, kept[n].key)]

PartsOf(messages) ==
  IF protocol = "responses" THEN PartsOfItems(messages) ELSE Flat(PartsOfMessage, messages)

(* What the upstream reads, and what it ought to read.                     *)
Read == [n \in DOMAIN sent.system |-> Part("system", sent.system[n])] \o PartsOf(sent.messages)
Due ==
  LET meant == PartsOfItems(wanted.meant) IN
  (IF wanted.instructions = 0 THEN <<>> ELSE <<Part("system", wanted.instructions)>>)
  \o IF protocol = "anthropic" THEN System(meant) \o Others(meant) ELSE meant

(* Whatever the client repeats or leaves out, through warmups, failed      *)
(* answers and new starts, the upstream is asked exactly what the client   *)
(* means: the whole conversation once and in order, under the instructions *)
(* stated last, and without an id the upstream cannot know.                *)
AsksWhatWasMeant ==
  phase = "asking" => Read = Due /\ sent.previous = 0

(* Between requests the history is the conversation up to the last         *)
(* response that completed, which is the one the client continues from,    *)
(* and it keeps to its limit, whatever is replayed and answered.           *)
HistoryIsTheConversation ==
  /\ Len(history) <= Limit
  /\ phase = "waiting" =>
       Others(PartsOf(history)) = Others(PartsOfItems(conversation))

(* README.md says the top-level model ID of a request selects its route:   *)
(* a request that names a model is answered by that model.                 *)
AnswersTheModelAsked == phase = "asking" => sent.model = wanted.model

(* A test of the egress says a warmup stays local: the id ProviderX makes  *)
(* up for it never reaches the upstream.                                   *)
WarmupStaysLocal == phase = "asking" => sent.previous < 100
=============================================================================
