----------------------------- MODULE ResponseStream -----------------------------
(***************************************************************************)
(* One response of a bridged session: the body an upstream sends, cut into *)
(* frames anywhere, or the lines a Claude Code process prints; the         *)
(* decoder of the protocol; and the events the client is sent              *)
(* (collect_sse of crates/provider-x-egress/src/ws_http_runner.rs).        *)
(*                                                                         *)
(* The upstream is free to send what it likes.  Lawful says when a stream  *)
(* is one of its protocol.  An element of Streams names the protocol, the  *)
(* source, the ends of its lines and the lines of its data; it bounds the  *)
(* blocks of the stream (blocks) and how many of them may be other than    *)
(* the protocol has it (mishaps).  The data of a block arrives in two      *)
(* parts, so that a frame may end within it; a cut inside the prefix       *)
(* "data:" hides the line and is as a cut before it.                       *)
(***************************************************************************)
EXTENDS ChatDecoder, AnthropicDecoder, ResponsesDecoder

CONSTANTS
    Streams,     \* what may be asked
    MaxFrame,    \* bound: the tokens of a frame
    MaxWire,     \* bound: the tokens the upstream is ahead of the session
    MaxBuffer,   \* the limit of the decoder's buffer, in tokens
    ChannelSize  \* frames of Claude Code that wait for the session, and bound: lines for pump

ASSUME StreamAssumption ==
    /\ Streams \subseteq [protocol : {"chat", "anthropic", "responses"}, source : {"http", "claude"},
                          eol : {"lf", "crlf"}, lines : {1, 2}, blocks : Nat, mishaps : Nat]
    /\ \A s \in Streams : s.source = "claude" => s.protocol = "anthropic" /\ s.eol = "lf" /\ s.lines = 1
    /\ {MaxFrame, MaxWire, MaxBuffer, ChannelSize, MaxBytes, MaxIdBytes,
        MAX_STREAM_TOOL_CALLS} \subseteq Nat

VARIABLES
    stream,    \* the element of Streams
    sent,      \* the blocks the upstream sent, or the lines the process printed
    mishaps,   \* how many of them are not lawful
    pumped,    \* how many of them are on the wire
    ended,     \* how the body ends: "no", "eof" or "broken"
    wire,      \* what the session has not read
    buffer,    \* the decoder's buffer
    decoder,
    delivered, \* the events the client got
    phase,     \* "streaming", "finishing", "done", "stopped" or the error
    commit,    \* what the session commits
    child,     \* the process: "none", "running" or "gone"
    quiet      \* who has waited since its idle timer was last restarted: "session", "pump"

vars ==
    <<stream, sent, mishaps, pumped, ended, wire, buffer, decoder, delivered, phase, commit, child, quiet>>

upstream == <<sent, mishaps, pumped, ended, child>>

-----------------------------------------------------------------------------
(* What an upstream may send as block k; its pieces are numbered k. *)

Malformed == [type |-> "malformed"]

ChatBlocks(k) ==
    LET choices == {[NoChoice EXCEPT !.reasoning = <<k>>], [NoChoice EXCEPT !.content = <<k>>]}
                   \cup {[NoChoice EXCEPT !.finish = f] : f \in {"stop", "length", "content_filter"}}
        calls   == [index : 0..MAX_STREAM_TOOL_CALLS, id : {<<k>>}, name : {<<k>>}, arguments : {<<>>}]
                   \cup [index : {0, 1}, id : {Absent}, name : {Absent}, arguments : {<<k>>}]
                   \cup [index : {0}, id : {<<k>>}, name : {Absent}, arguments : {Absent}]
    IN {ChatChunk(c, FALSE) : c \in choices} \cup {ChatChunk(NoChoice, TRUE), ChatDone}
       \cup {ChatChunk([NoChoice EXCEPT !.calls = <<c>>], FALSE) : c \in calls}

\* bound: events that change nothing are in the streams that may go wrong only.
Fillers == IF stream.mishaps = 0 THEN {} ELSE {AnthropicEvent("ping", 0, "none", <<>>)}

AnthropicBlocks(k) ==
    {AnthropicEvent("message_start", 0, "none", <<>>), AnthropicEvent("message_stop", 0, "none", <<>>),
     AnthropicEvent("error", 0, "none", <<>>)}
    \cup Fillers
    \cup {AnthropicEvent("message_delta", 0, r, <<>>) : r \in {"none", "end_turn", "max_tokens", "refusal"}}
    \cup {AnthropicEvent("content_block_start", i, b, IF b = "tool_use" THEN <<k>> ELSE <<>>) :
             i \in {0, 1}, b \in {"text", "thinking", "redacted_thinking", "tool_use"}}
    \cup {AnthropicEvent("content_block_delta", i, d, <<k>>) :
             i \in {0, 1}, d \in {"text_delta", "thinking_delta", "signature_delta", "input_json_delta"}}
    \cup {AnthropicEvent("content_block_stop", i, "none", <<>>) : i \in {0, 1}}
    \cup {AnthropicEvent("content_block_start", MAX_CONTENT_BLOCKS, "text", <<>>)}

ResponsesBlocks(k) ==
    {ResponsesEvent("reasoning", i, "native", <<Piece("summary", k)>>) : i \in {"r1", "r2"}}
    \cup {ResponsesEvent("reasoning", i, "raw", <<Piece("raw", k)>>) : i \in {"r1", "r2"}}
    \cup {ResponsesEvent("response.output_item.done", i, "none", <<Piece("raw", k)>>) : i \in {"r1", "r2"}}
    \cup {ResponsesEvent("response.completed", "", "none", <<Piece(f, k), Piece("text", k)>>) :
             f \in {"raw", "summary"}}
    \cup {ResponsesEvent(t, "", "none", <<Piece("raw", k)>>) :
             t \in {"response.failed", "response.incomplete"}}
    \cup {ResponsesEvent(t, "", "none", <<Piece("text", k)>>) :
             t \in {"response.output_text.delta", "untyped", "[DONE]"}}

Blocks(k) ==
    {Malformed} \cup CASE stream.protocol = "chat" -> ChatBlocks(k)
                       [] stream.protocol = "anthropic" -> AnthropicBlocks(k)
                       [] stream.protocol = "responses" -> ResponsesBlocks(k)

-----------------------------------------------------------------------------
(* Lawful streams. *)

Finishes(b) == b.type = "chunk" /\ b.choice.finish # "none"

CallsOf(b) == IF b.type = "chunk" THEN ToSet(b.choice.calls) ELSE {}

Begins(call) == call.id # Absent /\ call.name # Absent

\* Calls begin in the order of their indices and continue; a reason to stop comes
\* after all of them, [DONE] after it, and only the usage may come in between.
ChatLawful(s) ==
    /\ \A i \in DOMAIN s : s[i].type \in {"chunk", "[DONE]"}
    /\ \A j \in DOMAIN s : s[j].type = "[DONE]" => \E i \in 1..(j - 1) : Finishes(s[i])
    /\ \A j \in DOMAIN s : \A i \in 1..(j - 1) :
          /\ s[i].type # "[DONE]"
          /\ Finishes(s[i]) => s[j] \in {ChatChunk(NoChoice, TRUE), ChatDone}
    /\ \A j \in DOMAIN s : \A c \in CallsOf(s[j]) :
          LET begun == {i \in 1..(j - 1) : \E d \in CallsOf(s[i]) : Begins(d)}
          IN IF Begins(c) THEN c.index = Cardinality(begun)
             ELSE c.id = Absent /\ c.index < Cardinality(begun)

DeltasOf(block) ==
    CASE block = "text" -> {"text_delta"}
      [] block = "thinking" -> {"thinking_delta", "signature_delta"}
      [] block = "tool_use" -> {"input_json_delta"}
      [] OTHER -> {}

Before(s, j, type, index) == {i \in 1..(j - 1) : s[i].type = type /\ s[i].index = index}

\* One content block after the other, each started, filled and stopped, between
\* the start of the message and the reason to stop it.
AnthropicLawful(s) ==
    /\ \A i \in DOMAIN s :
          /\ s[i].type \notin {"malformed", "result", "error"}
          /\ (s[i].type = "message_start") <=> (i = 1)
    /\ \A j \in DOMAIN s :
          LET starts  == {i \in 1..(j - 1) : s[i].type = "content_block_start"}
              stops   == {i \in 1..(j - 1) : s[i].type = "content_block_stop"}
              reasons == {i \in 1..(j - 1) : s[i].type = "message_delta" /\ s[i].block # "none"}
              open    == Cardinality(starts) > Cardinality(stops)
          IN /\ s[j].type = "content_block_start" => ~ open /\ s[j].index = Cardinality(starts)
             /\ s[j].type = "content_block_delta" =>
                   /\ open /\ s[j].index = Cardinality(stops)
                   /\ \E i \in starts : s[i].index = s[j].index /\ s[j].block \in DeltasOf(s[i].block)
             /\ s[j].type = "content_block_stop" => open /\ s[j].index = Cardinality(stops)
             /\ s[j].type = "message_delta" => ~ open
             /\ s[j].type = "message_stop" => reasons # {}
             /\ reasons # {} => s[j].type \in {"message_stop", "ping"}
             /\ \A i \in 1..(j - 1) : s[i].type # "message_stop"

\* One terminal event, the last; an item that is done is not heard of again.
ResponsesLawful(s) ==
    /\ \A i \in DOMAIN s : s[i].type \notin {"malformed", "untyped", "[DONE]"}
    /\ \A j \in DOMAIN s : \A i \in 1..(j - 1) :
          /\ s[i].type \notin TerminalTypes
          /\ s[i].type = "response.output_item.done" => s[j].item # s[i].item

LawfulStream(s) ==
    CASE stream.protocol = "chat" -> ChatLawful(s)
      [] stream.protocol = "anthropic" -> AnthropicLawful(s)
      [] stream.protocol = "responses" -> ResponsesLawful(s)

Lawful == mishaps = 0

\* Reasoning, then text, then calls.
Rank(b) ==
    CASE b.type = "chunk" -> IF b.choice.reasoning # Absent THEN 1
                             ELSE IF b.choice.content # Absent THEN 2
                             ELSE IF b.choice.calls # <<>> THEN 3 ELSE 0
      [] b.type = "content_block_delta" -> IF b.block = "thinking_delta" THEN 1
                                           ELSE IF b.block = "text_delta" THEN 2 ELSE 0
      [] b.type = "content_block_start" -> IF b.block = "tool_use" THEN 3 ELSE 0
      [] OTHER -> 0

Ordered ==
    \A j \in DOMAIN sent : \A i \in 1..(j - 1) : Rank(sent[j]) # 0 => Rank(sent[i]) <= Rank(sent[j])

-----------------------------------------------------------------------------
(* The wire: lines, their ends, and blocks. *)

Token(kind, block, part) == [kind |-> kind, block |-> block, part |-> part]

CR == Token("cr", 0, 0)

LF == Token("lf", 0, 0)

Eol == IF stream.eol = "lf" THEN <<LF>> ELSE <<CR, LF>>

Tokens(k) ==
    LET break == IF stream.lines = 2 THEN Eol ELSE <<>>
    IN <<Token("data", k, 1)>> \o break \o <<Token("data", k, 2)>> \o Eol \o Eol

\* normalize_newlines: CR LF and CR become LF.
Newline(acc, token) ==
    IF token = LF /\ acc.cr THEN [acc EXCEPT !.cr = FALSE]
    ELSE [lines |-> Append(acc.lines, IF token = CR THEN LF ELSE token), cr |-> token = CR]

normalize_newlines(tokens) == FoldLeft(Newline, [lines |-> <<>>, cr |-> FALSE], tokens).lines

\* A plausible bug: what follows the last whole block is dropped with it.
SplitOnce(tokens) ==
    LET ends == {i \in 2..Len(tokens) : tokens[i] = LF /\ tokens[i - 1] = LF}
    IN IF ends = {} THEN [blocks |-> <<>>, rest |-> tokens]
       ELSE [blocks |-> <<SubSeq(tokens, 1, CHOOSE i \in ends : \A j \in ends : i <= j)>>, rest |-> <<>>]

\* The blocks that end in an empty line, and the rest.
TakeToken(acc, token) ==
    LET block == Append(acc.rest, token)
    IN IF Len(block) >= 2 /\ block[Len(block)] = LF /\ block[Len(block) - 1] = LF
       THEN [blocks |-> Append(acc.blocks, block), rest |-> <<>>]
       ELSE [acc EXCEPT !.rest = block]

SplitBlocks(tokens) == FoldLeft(TakeToken, [blocks |-> <<>>, rest |-> <<>>], tokens)

-----------------------------------------------------------------------------
(* The decoder of the protocol. *)

NewDecoder ==
    CASE stream.protocol = "chat" -> NewEmitter
      [] stream.protocol = "anthropic" -> NewAnthropic
      [] stream.protocol = "responses" -> NewResponses

Inner(d) == IF stream.protocol = "anthropic" THEN d.inner ELSE d

Error(d) == Inner(d).error

Pending(d) == Inner(d).pending

Drained(d) ==
    IF stream.protocol = "anthropic" THEN [d EXCEPT !.inner.pending = <<>>] ELSE [d EXCEPT !.pending = <<>>]

Invalid(d) ==
    IF stream.protocol = "anthropic" THEN AnthropicFail(d, "InvalidStream")
    ELSE [d EXCEPT !.error = "InvalidStream"]

Parse(d, b) ==
    IF Error(d) # "none" THEN d
    ELSE IF b = Malformed THEN Invalid(d)
    ELSE CASE stream.protocol = "chat" -> ChatParse(d, b)
           [] stream.protocol = "anthropic" -> AnthropicParse(d, b)
           [] stream.protocol = "responses" -> ResponsesParse(d, b)

\* A block of the buffer: without data it says nothing, with half its data it is
\* no JSON.
parse_block(d, tokens) ==
    LET data  == {t \in ToSet(tokens) : t.kind = "data"}
        whole == {k \in DOMAIN sent : data = {Token("data", k, 1), Token("data", k, 2)}}
    IN IF data = {} \/ Error(d) # "none" THEN d
       ELSE IF whole = {} THEN Invalid(d)
       ELSE Parse(d, sent[CHOOSE k \in whole : TRUE])

Flushed(d) ==
    CASE stream.protocol = "chat" -> finish(d)
      [] stream.protocol = "anthropic" -> AnthropicFinish(d)
      [] stream.protocol = "responses" -> d

NoCommit == [protocol |-> "none"]

Outcome(d) ==
    IF ~ Inner(d).completed THEN NoCommit
    ELSE CASE stream.protocol = "chat" -> [protocol |-> "chat", message |-> outcome(d)]
           [] stream.protocol = "anthropic" -> [protocol |-> "anthropic", content |-> AnthropicContent(d)]
           [] stream.protocol = "responses" -> [protocol |-> "responses", output |-> d.output]

-----------------------------------------------------------------------------
Init ==
    /\ stream \in Streams
    /\ sent = <<>> /\ mishaps = 0 /\ pumped = 0 /\ ended = "no"
    /\ wire = <<>> /\ buffer = <<>>
    /\ decoder = NewDecoder
    /\ delivered = <<>>
    /\ phase = "streaming"
    /\ commit = NoCommit
    /\ child = IF stream.source = "claude" THEN "running" ELSE "none"
    /\ quiet = {}

Restart(timer) == quiet' = quiet \ {timer}

\* The upstream, or the process, produces its next block.
Produce(b) ==
    /\ phase = "streaming" /\ ended = "no"
    /\ Len(sent) < stream.blocks
    /\ sent' = Append(sent, b)
    /\ mishaps' = IF LawfulStream(sent') THEN mishaps ELSE mishaps + 1
    /\ mishaps' <= stream.mishaps
    /\ UNCHANGED <<stream, ended, buffer, decoder, delivered, phase, commit, child, quiet>>

Send ==
    /\ stream.source = "http" /\ Len(wire) <= MaxWire
    /\ \E b \in Blocks(Len(sent) + 1) : Produce(b)
    /\ pumped' = Len(sent')
    /\ wire' = wire \o Tokens(Len(sent'))

\* The body ends, perhaps without the empty line after its last block, or its
\* transport fails.
End ==
    /\ stream.source = "http" /\ phase = "streaming" /\ ended = "no" /\ Len(wire) <= MaxWire
    /\ \/ /\ ended' = "eof"
          /\ \E n \in 0..Len(wire) : n + 2 * Len(Eol) >= Len(wire) /\ wire' = SubSeq(wire, 1, n)
       \/ ended' = "broken" /\ UNCHANGED wire
    /\ UNCHANGED <<stream, sent, mishaps, pumped, buffer, decoder, delivered, phase, commit, child, quiet>>

-----------------------------------------------------------------------------
(* Claude Code. *)

Result == [type |-> "result"]

PrintLine ==
    /\ stream.source = "claude" /\ child = "running" /\ Len(sent) <= pumped + ChannelSize
    /\ \E b \in Blocks(Len(sent) + 1) \cup {Result} : Produce(b)
    /\ UNCHANGED <<pumped, wire>>

\* pump: the message starts once and first, and nothing is read after its stop.
Pump ==
    /\ child = "running" /\ ended = "no" /\ pumped < Len(sent)
    /\ LET b == sent[pumped + 1]
       IN IF b.type \in {"malformed", "result"} \/ ((b.type = "message_start") # (pumped = 0))
          THEN /\ ended' = "broken"
               /\ UNCHANGED <<pumped, wire>>
          ELSE /\ Len(wire) < ChannelSize * Len(Tokens(1))
               /\ pumped' = pumped + 1
               /\ wire' = wire \o Tokens(pumped + 1)
               /\ ended' = IF b.type = "message_stop" THEN "eof" ELSE "no"
    /\ Restart("pump")
    /\ UNCHANGED <<stream, sent, mishaps, buffer, decoder, delivered, phase, commit, child>>

\* A line that is no event of the stream is read and passed over.
Chatter ==
    /\ child = "running" /\ ended = "no" /\ pumped = Len(sent)
    /\ Restart("pump")
    /\ UNCHANGED <<stream, sent, mishaps, pumped, ended, wire, buffer, decoder, delivered, phase, commit, child>>

\* The process closes its output.
PumpFails ==
    /\ child = "running" /\ ended = "no" /\ pumped = Len(sent)
    /\ ended' = "broken"
    /\ Restart("pump")
    /\ UNCHANGED <<stream, sent, mishaps, pumped, wire, buffer, decoder, delivered, phase, commit, child>>

\* Time passes while pump waits for a line.
PumpWaits ==
    /\ child = "running" /\ ended = "no" /\ pumped = Len(sent)
    /\ quiet' = quiet \cup {"pump"}
    /\ UNCHANGED <<stream, sent, mishaps, pumped, ended, wire, buffer, decoder, delivered, phase, commit, child>>

PumpTimeout == "pump" \in quiet /\ PumpFails

\* The task that pumps kills the process when it is done with it.
Kill ==
    /\ child = "running" /\ ended # "no"
    /\ child' = "gone"
    /\ Restart("pump")
    /\ UNCHANGED <<stream, sent, mishaps, pumped, ended, wire, buffer, decoder, delivered, phase, commit>>

\* A plausible bug: the task is left to end by itself.
DropDetached ==
    /\ child = "running" /\ phase \notin {"streaming", "finishing"} /\ ended # "no"
    /\ child' = "gone"
    /\ Restart("pump")
    /\ UNCHANGED <<stream, sent, mishaps, pumped, ended, wire, buffer, decoder, delivered, phase, commit>>

\* ClaudeCodeBody::drop aborts that task, and the process is killed with it.
DropBody ==
    /\ child = "running" /\ phase \notin {"streaming", "finishing"}
    /\ child' = "gone"
    /\ Restart("pump")
    /\ UNCHANGED <<stream, sent, mishaps, pumped, ended, wire, buffer, decoder, delivered, phase, commit>>

-----------------------------------------------------------------------------
(* The session. *)

\* A frame is any part of what has arrived; Claude Code's are whole blocks.
Frames ==
    IF stream.source = "claude" THEN {Len(Tokens(1))}
    ELSE 1..(IF Len(wire) < MaxFrame THEN Len(wire) ELSE MaxFrame)

\* The session is through with the response: the body and the decoder are dropped.
Over(result) ==
    /\ phase' = result
    /\ wire' = <<>> /\ buffer' = <<>> /\ decoder' = NewDecoder

\* push, of the first n tokens: an error drops the events of the blocks before it.
Push(n) ==
    LET data  == SubSeq(wire, 1, n)
        split == SplitBlocks(normalize_newlines(buffer \o data))
        d     == FoldLeft(parse_block, decoder, split.blocks)
    IN IF Len(buffer) + Len(data) > MaxBuffer
       THEN Over("StreamBufferLimit") /\ UNCHANGED delivered
       ELSE IF Error(d) # "none"
       THEN Over(Error(d)) /\ UNCHANGED delivered
       ELSE /\ phase' = IF Inner(d).terminal THEN "finishing" ELSE phase
            /\ wire' = SubSeq(wire, n + 1, Len(wire))
            /\ buffer' = split.rest
            /\ decoder' = Drained(d)
            /\ delivered' = delivered \o Pending(d)

ReadFrame ==
    /\ phase = "streaming"
    /\ \E n \in Frames : n <= Len(wire) /\ Push(n)
    /\ Restart("session")
    /\ UNCHANGED <<stream, sent, mishaps, pumped, ended, commit, child>>

ReadEnd ==
    /\ phase = "streaming" /\ wire = <<>> /\ ended # "no"
    /\ IF ended = "broken" THEN Over("Transport")
       ELSE phase' = "finishing" /\ UNCHANGED <<wire, buffer, decoder>>
    /\ Restart("session")
    /\ UNCHANGED <<stream, sent, mishaps, pumped, ended, delivered, commit, child>>

\* finish, and what run_with_adapter makes of the outcome.
FinishBody ==
    /\ phase = "finishing"
    /\ LET d == Flushed(parse_block(decoder, buffer))
       IN IF Error(d) # "none"
          THEN Over(Error(d)) /\ UNCHANGED <<delivered, commit>>
          ELSE /\ Over(IF Inner(d).terminal THEN "done" ELSE "InvalidStream")
               /\ delivered' = delivered \o Pending(d)
               /\ commit' = IF Inner(d).terminal THEN Outcome(d) ELSE NoCommit
    /\ Restart("session")
    /\ UNCHANGED <<stream, sent, mishaps, pumped, ended, child>>

\* The session waits for the upstream and for the client at once, with one timer.
Waiting == phase = "streaming" /\ wire = <<>> /\ ended = "no"

\* The client sends a Ping or a Pong, which restarts the timer.
Ping ==
    /\ phase = "streaming"
    /\ Restart("session")
    /\ UNCHANGED <<stream, sent, mishaps, pumped, ended, wire, buffer, decoder, delivered, phase, commit, child>>

\* So does a frame that tells nothing: an empty one, or a comment between blocks.
Drip ==
    /\ Waiting /\ stream.source = "http"
    /\ Restart("session")
    /\ UNCHANGED <<stream, sent, mishaps, pumped, ended, wire, buffer, decoder, delivered, phase, commit, child>>

\* Time passes.
SessionWaits ==
    /\ Waiting
    /\ quiet' = quiet \cup {"session"}
    /\ UNCHANGED <<stream, sent, mishaps, pumped, ended, wire, buffer, decoder, delivered, phase, commit, child>>

\* Nothing arrives from either for stream_idle_timeout_ms.
IdleTimeout ==
    /\ Waiting /\ "session" \in quiet
    /\ Over("stopped")
    /\ Restart("session")
    /\ UNCHANGED <<stream, sent, mishaps, pumped, ended, delivered, commit, child>>

\* The client closes, speaks out of turn or does not read, or the server stops.
Interrupt ==
    /\ phase \in {"streaming", "finishing"}
    /\ Over("stopped")
    /\ Restart("session")
    /\ UNCHANGED <<stream, sent, mishaps, pumped, ended, delivered, commit, child>>

Next ==
    \/ Send \/ End
    \/ PrintLine \/ Pump \/ Chatter \/ PumpFails \/ PumpWaits \/ PumpTimeout \/ Kill \/ DropBody
    \/ ReadFrame \/ ReadEnd \/ FinishBody
    \/ Ping \/ Drip \/ SessionWaits \/ IdleTimeout \/ Interrupt

Results == {"done", "stopped", "Transport", "InvalidStream", "StreamStateLimit", "StreamBufferLimit"}

\* Of the steps of Next only those of the session take a frame from the wire, or
\* finish; said of one variable, so that their enabling needs no decoding.
Reads ==
    /\ phase = "streaming" /\ wire # <<>>
    /\ wire' \in {SubSeq(wire, n + 1, Len(wire)) : n \in Frames} \cup {<<>>}

Ending == phase = "finishing" /\ phase' \in Results

\* The session reads what is there; time passes, and a timer that nothing restarts
\* goes off; tokio runs the task of a process and the drop of its body.
Fairness ==
    /\ WF_wire(Reads) /\ WF_phase(Ending) /\ WF_vars(ReadEnd)
    /\ WF_vars(SessionWaits) /\ WF_vars(IdleTimeout) /\ WF_vars(PumpWaits) /\ WF_vars(PumpTimeout)
    /\ WF_vars(Pump) /\ WF_vars(Kill) /\ WF_vars(DropBody)

Spec == Init /\ [][Next]_vars

FairSpec == Spec /\ Fairness

-----------------------------------------------------------------------------
(* Properties. *)

\* What the decoder makes of the blocks when each arrives whole and alone.
Uncut == Flushed(FoldLeft(Parse, NewDecoder, sent))

\* Where the frames end is invisible: the client is sent the events of the blocks
\* in their order, of a lawful stream that ends well it is sent all of them, and
\* such a stream fails only when its blocks make it fail ("Adds arbitrary HTTP
\* body bytes", push of the three decoders).
CutsAreInvisible ==
    /\ IsPrefix(delivered, Pending(Uncut))
    /\ phase = "done" /\ Lawful => Error(Uncut) = "none" /\ delivered = Pending(Uncut)
    /\ phase \in {"InvalidStream", "StreamStateLimit"} /\ Lawful =>
          Error(Uncut) # "none" \/ ~ Inner(Uncut).terminal

Translated == stream.protocol \in {"chat", "anthropic"}

Ends == {"completed", "incomplete", "failed"}

Items == {delivered[i].item : i \in DOMAIN delivered}

EventsOf(item) == SelectSeq(delivered, LAMBDA ev : ev.item = item)

DeltasSent(item) ==
    FlattenSeq([i \in DOMAIN SelectSeq(EventsOf(item), LAMBDA ev : ev.type = "delta") |->
                  SelectSeq(EventsOf(item), LAMBDA ev : ev.type = "delta")[i].body])

\* Every item of a lawful stream is added before it is told of and never told of
\* after it is done, and the response ends last, with all of its items done.
ItemsOpenAndClose ==
    Translated /\ Lawful /\ delivered # <<>> =>
        /\ delivered[1].type = "created"
        /\ \A i \in DOMAIN delivered :
              delivered[i].type \in Ends => i = Len(delivered)
        /\ \A item \in {x \in Items : x.kind # "response"} :
              LET events == EventsOf(item)
              IN /\ \A i \in DOMAIN events :
                       /\ (events[i].type = "item.added") <=> (i = 1)
                       /\ events[i].type = "item.done" => i = Len(events)
                 /\ Last(delivered).type \in Ends =>
                       Last(events).type = "item.done" /\ Last(events).body = DeltasSent(item)

\* When an upstream sends reasoning, then text, then calls, an item has the same
\* output index in all of its events and in the output of the response.
ItemsKeepTheirIndex ==
    Translated /\ Lawful /\ Ordered =>
        /\ \A i, j \in DOMAIN delivered :
              /\ delivered[i].item = delivered[j].item => delivered[i].index = delivered[j].index
              /\ delivered[i].type \in Ends =>
                    \A k \in DOMAIN delivered[i].output :
                        delivered[i].output[k].item = delivered[j].item => delivered[j].index = k - 1
        /\ delivered # <<>> /\ Last(delivered).type \in Ends =>
              {Last(delivered).output[k].item : k \in DOMAIN Last(delivered).output}
                = {x \in Items : x.kind # "response"}

BodiesOf(content, type) ==
    FlattenSeq([i \in DOMAIN content |-> IF content[i].type = type THEN content[i].body ELSE <<>>])

\* The client was told all that the upstream sent, its raw reasoning as a summary.
ClientHeard(output, told) ==
    /\ \E k \in DOMAIN sent : sent[k].type = "response.completed" /\ sent[k].body = output
    /\ DOMAIN told = DOMAIN output
    /\ \A i \in DOMAIN output :
          /\ told[i].text = output[i].text
          /\ told[i].form = IF output[i].form = "text" THEN "text" ELSE "summary"

\* What a session remembers of a lawful response is what its client was sent; the
\* output of a Responses stream it remembers as the upstream sent it (the test
\* raw_reasoning_is_normalized_but_outcome_keeps_original_output).
CommitIsWhatWasStreamed ==
    Lawful =>
        /\ (commit # NoCommit) <=>
              phase = "done" /\ Last(delivered).type \in {"completed", "response.completed"}
        /\ commit.protocol = "chat" =>
              /\ commit.message.text = DeltasSent(Message)
              /\ commit.message.reasoning = DeltasSent(Reasoning)
              /\ \A i \in DOMAIN commit.message.tool_calls :
                    LET tool == commit.message.tool_calls[i] IN tool.arguments = DeltasSent(Call(tool.id))
        /\ commit.protocol = "anthropic" =>
              /\ BodiesOf(commit.content, "text") = DeltasSent(Message)
              /\ BodiesOf(commit.content, "thinking") = DeltasSent(Reasoning)
              /\ \A i \in DOMAIN commit.content :
                    LET block == commit.content[i]
                    IN block.type = "tool_use" => block.input = DeltasSent(Call(block.body))
        /\ commit.protocol = "responses" => ClientHeard(commit.output, Last(delivered).body)

Reasonings(events, item) == SelectSeq(events, LAMBDA ev : ev.type = "reasoning" /\ ev.item = item)

\* A provider that tells the reasoning of an item twice, as a summary and raw, is
\* heard once: the client is sent all that the first of the two tells of it, and
\* as a summary.
ReasoningToldOnce ==
    stream.protocol = "responses" /\ Lawful =>
        \A item \in {"r1", "r2"} :
            LET told  == Reasonings(sent, item)
                first == SelectSeq(told, LAMBDA ev : ev.source = told[1].source)
                heard == [i \in DOMAIN first |->
                             ResponsesEvent("reasoning", item, "native",
                                            <<Piece("summary", first[i].body[1].text)>>)]
            IN /\ IsPrefix(Reasonings(delivered, item), heard)
               /\ phase = "done" => Reasonings(delivered, item) = heard

\* What is counted against the limits of the decoders is what they hold, and it keeps to
\* them (push, reserve_aggregate_bytes, record_source and remove_source).
LimitsCountWhatIsHeld ==
    /\ Len(buffer) <= MaxBuffer
    /\ ~ Translated => decoder.item_id_bytes = Cardinality(DOMAIN decoder.sources)
    /\ Translated =>
          LET e == Inner(decoder)
          IN /\ e.aggregate_bytes <= MaxBytes
             /\ Len(e.text) + Len(e.reasoning) <= e.aggregate_bytes
             /\ Cardinality(DOMAIN e.tools) <= MAX_STREAM_TOOL_CALLS

\* The Responses events a client is sent tell a consistent story, the one that the
\* session commits (output.rs, and normalize of the Responses decoder), within the limits.
TranslationIsSound ==
    /\ ItemsOpenAndClose /\ ItemsKeepTheirIndex /\ CommitIsWhatWasStreamed /\ ReasoningToldOnce
    /\ LimitsCountWhatIsHeld

\* The timer of the session restarts forever, by the Pings of the client or by frames
\* that tell nothing, and with Claude Code the timer of pump does so too.
KeptWaiting ==
    /\ []<><<Ping \/ Drip>>_vars
    /\ stream.source = "claude" => []<><<Chatter>>_vars

\* A response ends, and so does the process of Claude Code (README.md: idle periods
\* are bounded).
AlwaysEnds == <>(phase \notin {"streaming", "finishing"} /\ child # "running")

\* Everything ends unless every timer that watches it keeps being restarted: the Pings
\* of a client do not keep a Claude Code that hangs, nor the chatter of a Claude Code a
\* session whose client is silent (the timeouts of collect_sse and pump, Drop of
\* ClaudeCodeBody).
EverythingEnds == KeptWaiting \/ AlwaysEnds

\* A Responses stream with a [DONE] after its last event ends well for the client
\* that has that event: parse_block skips [DONE].
DoneIsSkipped ==
    stream.protocol = "responses" /\ delivered # <<>> /\ Last(delivered).type = "response.completed"
    /\ (\A i \in DOMAIN sent : sent[i].type \in {"response.completed", "[DONE]"})
        => phase # "InvalidStream"
=============================================================================
