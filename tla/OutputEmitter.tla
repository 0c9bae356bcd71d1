----------------------------- MODULE OutputEmitter -----------------------------
(***************************************************************************)
(* The emitter that turns the semantic events of another protocol into     *)
(* Responses events (crates/provider-x-protocol/src/output.rs).            *)
(*                                                                         *)
(* A text is the sequence of the pieces it was received in, and a piece is *)
(* one byte long.  An operation returns the next state of the emitter; an  *)
(* error stays in the state, and the caller drops the stream then.         *)
(***************************************************************************)
EXTENDS Naturals, Sequences, FiniteSets, SequencesExt

CONSTANTS
    MaxBytes,             \* the limit of a buffer and of an aggregation
    MAX_STREAM_TOOL_CALLS

\* A field that a JSON object does not have; pieces are positive.
Absent == <<0>>

Given(field) == IF field = Absent THEN <<>> ELSE field

Item(kind, id) == [kind |-> kind, id |-> id]

Reasoning == Item("reasoning", <<>>)

Message == Item("message", <<>>)

Call(id) == Item("function_call", id)

\* One Responses event; a terminal one carries the output.
Event(type, item, index, body, output) ==
    [type |-> type, item |-> item, index |-> index, body |-> body, output |-> output]

ItemEvent(type, item, index, body) == Event(type, item, index, body, <<>>)

EmptyTool == [id |-> <<>>, name |-> <<>>, arguments |-> <<>>, added |-> FALSE]

\* OutputEmitter::with_tool_names
NewEmitter ==
    [pending |-> <<>>, aggregate_bytes |-> 0, response_id |-> <<>>,
     reasoning |-> <<>>, text |-> <<>>, tools |-> <<>>,
     reasoning_started |-> FALSE, text_started |-> FALSE,
     finish_reason |-> "none", usage_bytes |-> 0,
     terminal |-> FALSE, completed |-> FALSE, error |-> "none"]

\* The first error is the one that is returned.
Fail(s, error) == [s EXCEPT !.error = IF @ = "none" THEN error ELSE @]

emit(s, events) == [s EXCEPT !.pending = @ \o events]

reserve_aggregate_bytes(s, additional) ==
    IF s.aggregate_bytes + additional > MaxBytes THEN Fail(s, "StreamStateLimit")
    ELSE [s EXCEPT !.aggregate_bytes = @ + additional]

resize_aggregate_bytes(s, previous, next) ==
    reserve_aggregate_bytes([s EXCEPT !.aggregate_bytes = @ - previous], next)

message_output_index(s) == IF s.reasoning_started THEN 1 ELSE 0

\* A plausible bug: the message is not counted.
IndexAfterReasoning(s, index) == message_output_index(s) + index

tool_output_index(s, index) == message_output_index(s) + (IF s.text_started THEN 1 ELSE 0) + index

\* The indices of the calls in their order, as the BTreeMap keeps them.
ToolIndices(s) ==
    LET indices == DOMAIN s.tools
    IN [n \in 1..Cardinality(indices) |->
           CHOOSE i \in indices : Cardinality({j \in indices : j < i}) = n - 1]

start_reasoning(s) ==
    IF s.reasoning_started THEN s
    ELSE emit([s EXCEPT !.reasoning_started = TRUE],
              <<ItemEvent("item.added", Reasoning, 0, <<>>),
                ItemEvent("part.added", Reasoning, 0, <<>>)>>)

start_text(s) ==
    IF s.text_started THEN s
    ELSE emit([s EXCEPT !.text_started = TRUE],
              <<ItemEvent("item.added", Message, message_output_index(s), <<>>),
                ItemEvent("part.added", Message, message_output_index(s), <<>>)>>)

Start(s, id) ==
    IF s.response_id # <<>> THEN s
    ELSE LET r == reserve_aggregate_bytes(s, Len(id))
         IN emit([r EXCEPT !.response_id = id], <<ItemEvent("created", Item("response", id), 0, <<>>)>>)

Usage(s) == [resize_aggregate_bytes(s, s.usage_bytes, 1) EXCEPT !.usage_bytes = 1]

TextDelta(s, text) ==
    IF text = <<>> THEN s
    ELSE LET r == reserve_aggregate_bytes(start_text(s), Len(text))
         IN emit([r EXCEPT !.text = @ \o text],
                 <<ItemEvent("delta", Message, message_output_index(r), text)>>)

ReasoningDelta(s, text) ==
    IF text = <<>> THEN s
    ELSE LET r == reserve_aggregate_bytes(start_reasoning(s), Len(text))
         IN emit([r EXCEPT !.reasoning = @ \o text], <<ItemEvent("delta", Reasoning, 0, text)>>)

\* An id replaces the one before, a name and arguments are appended.
apply_tool_delta(s, index, id, name, arguments) ==
    LET old   == IF index \in DOMAIN s.tools THEN s.tools[index] ELSE EmptyTool
        named == [old EXCEPT !.id = IF id = Absent THEN @ ELSE id,
                             !.name = @ \o Given(name),
                             !.arguments = @ \o Given(arguments)]
        tool  == [named EXCEPT !.added = @ \/ (named.id # <<>> /\ named.name # <<>>)]
        bytes == s.aggregate_bytes - Len(old.id) + Len(tool.id) + Len(Given(name)) + Len(Given(arguments))
        added == IF tool.added /\ ~ old.added
                 THEN <<ItemEvent("item.added", Call(tool.id), tool_output_index(s, index), tool.name)>>
                 ELSE <<>>
        delta == IF arguments # Absent
                 THEN <<ItemEvent("delta", Call(tool.id), tool_output_index(s, index), arguments)>>
                 ELSE <<>>
    IN IF \/ bytes > MaxBytes
          \/ index \notin DOMAIN s.tools /\ Cardinality(DOMAIN s.tools) >= MAX_STREAM_TOOL_CALLS
       THEN Fail(s, "StreamStateLimit")
       ELSE emit([s EXCEPT !.aggregate_bytes = bytes,
                           !.tools = [i \in DOMAIN @ \cup {index} |-> IF i = index THEN tool ELSE @[i]]],
                 added \o delta)

Closed(item, index, body) ==
    <<ItemEvent("text.done", item, index, body), ItemEvent("part.done", item, index, body),
      ItemEvent("item.done", item, index, body)>>

ClosedCall(s, index) ==
    LET tool == s.tools[index]
    IN <<ItemEvent("arguments.done", Call(tool.id), tool_output_index(s, index), tool.arguments),
         ItemEvent("item.done", Call(tool.id), tool_output_index(s, index), tool.arguments)>>

finish_items(s) ==
    LET reasoning == IF s.reasoning_started THEN Closed(Reasoning, 0, s.reasoning) ELSE <<>>
        message   == IF s.text_started THEN Closed(Message, message_output_index(s), s.text) ELSE <<>>
        calls     == [i \in DOMAIN ToolIndices(s) |-> ClosedCall(s, ToolIndices(s)[i])]
    IN emit(s, reasoning \o message \o FlattenSeq(calls))

Stop(s, reason) ==
    IF s.finish_reason # "none" THEN Fail(s, "InvalidStream")
    ELSE finish_items([reserve_aggregate_bytes(s, 1) EXCEPT !.finish_reason = reason])

response_output(s) ==
    (IF s.reasoning_started THEN <<[item |-> Reasoning, body |-> s.reasoning]>> ELSE <<>>)
    \o (IF s.text_started THEN <<[item |-> Message, body |-> s.text]>> ELSE <<>>)
    \o [i \in DOMAIN ToolIndices(s) |->
           LET tool == s.tools[ToolIndices(s)[i]] IN [item |-> Call(tool.id), body |-> tool.arguments]]

\* The terminal event by the reason the upstream gave for stopping.
TerminalType(reason) ==
    CASE reason \in {"stop", "tool_calls"} -> "completed"
      [] reason = "length" -> "incomplete"
      [] OTHER -> "failed"

finalize(s) ==
    LET type == TerminalType(s.finish_reason)
    IN emit([s EXCEPT !.terminal = TRUE, !.completed = type = "completed"],
            <<Event(type, Item("response", s.response_id), 0, <<>>, response_output(s))>>)

Done(s) == IF s.finish_reason = "none" THEN Fail(s, "InvalidStream") ELSE finalize(s)

\* OutputEmitter::apply; operated is s after the operation of the event.
apply(s, operated) ==
    IF s.error # "none" THEN s
    ELSE IF s.terminal THEN Fail(s, "InvalidStream")
    ELSE operated

\* OutputEmitter::finish without its drain.
finish(s) == IF ~ s.terminal /\ s.finish_reason # "none" THEN finalize(s) ELSE s

outcome(s) ==
    [terminal |-> s.terminal, completed |-> s.completed, text |-> s.text, reasoning |-> s.reasoning,
     tool_calls |-> [i \in DOMAIN ToolIndices(s) |-> s.tools[ToolIndices(s)[i]]]]
=============================================================================
