---------------------------- MODULE AnthropicDecoder ----------------------------
(***************************************************************************)
(* One event of an Anthropic Messages stream applied to the emitter and to *)
(* the content blocks kept for the history                                 *)
(* (crates/provider-x-protocol/src/anthropic_messages/bridge.rs).          *)
(*                                                                         *)
(* A content block is its type and the pieces of its text, its thinking or *)
(* its signed thinking; of a tool call also the input it was closed with.  *)
(* JSON in pieces is complete when there is at least one piece.            *)
(***************************************************************************)
EXTENDS OutputEmitter

CONSTANT MAX_CONTENT_BLOCKS

NewAnthropic ==
    [inner |-> NewEmitter, content |-> <<>>, tool_json |-> <<>>, tool_indices |-> <<>>,
     aggregate_bytes |-> 0]

\* An event of the stream; "block" is the type of a content block, of a delta
\* or the stop reason.
AnthropicEvent(type, index, block, body) ==
    [type |-> type, index |-> index, block |-> block, body |-> body]

Put(f, key, value) == [k \in DOMAIN f \cup {key} |-> IF k = key THEN value ELSE f[k]]

AnthropicFail(s, error) == [s EXCEPT !.inner = Fail(@, error)]

feed(s, operated) == [s EXCEPT !.inner = apply(@, operated)]

AnthropicReserve(s, additional) ==
    IF s.aggregate_bytes + additional > MaxBytes THEN AnthropicFail(s, "StreamStateLimit")
    ELSE [s EXCEPT !.aggregate_bytes = @ + additional]

MessageStart(s) ==
    LET started == feed(s, Start(s.inner, <<1>>))
    IN feed(started, Usage(started.inner))

\* tool_indices numbers the tool calls in the order they began.
ToolStart(s, ev) ==
    LET index == IF ev.index \in DOMAIN s.tool_indices THEN s.tool_indices[ev.index]
                 ELSE Cardinality(DOMAIN s.tool_indices)
    IN feed([s EXCEPT !.tool_indices = Put(@, ev.index, index)],
            apply_tool_delta(s.inner, index, ev.body, ev.body, <<>>))

\* A new content block; the body of a tool call is its id and its name.
ContentBlock(ev) == [type |-> ev.block, body |-> ev.body, signature |-> <<>>, input |-> <<>>]

ContentBlockStart(s, ev) ==
    LET t == [AnthropicReserve(s, 1) EXCEPT !.content = Put(@, ev.index, ContentBlock(ev))]
    IN IF /\ ev.index \notin DOMAIN s.content
          /\ Cardinality(DOMAIN s.content) >= MAX_CONTENT_BLOCKS
       THEN AnthropicFail(s, "StreamStateLimit")
       ELSE CASE ev.block = "text" -> feed(t, TextDelta(t.inner, ev.body))
              [] ev.block = "thinking" -> feed(t, ReasoningDelta(t.inner, ev.body))
              [] ev.block = "tool_use" -> ToolStart(t, ev)
              [] ev.block = "redacted_thinking" -> t
              [] OTHER -> AnthropicFail(t, "InvalidStream")

\* append_block_text: a block that has this field.
append_block_text(s, index, block, body) ==
    IF index \in DOMAIN s.content /\ s.content[index].type = block
    THEN [s EXCEPT !.content[index].body = @ \o body]
    ELSE AnthropicFail(s, "InvalidStream")

TextBlockDelta(s, ev) ==
    LET t == append_block_text(AnthropicReserve(s, Len(ev.body)), ev.index, "text", ev.body)
    IN feed(t, TextDelta(t.inner, ev.body))

ThinkingBlockDelta(s, ev) ==
    LET t == append_block_text(AnthropicReserve(s, Len(ev.body)), ev.index, "thinking", ev.body)
    IN feed(t, ReasoningDelta(t.inner, ev.body))

SignatureDelta(s, ev) ==
    IF ev.index \in DOMAIN s.content
    THEN [AnthropicReserve(s, Len(ev.body)) EXCEPT !.content[ev.index].signature = @ \o ev.body]
    ELSE AnthropicFail(s, "InvalidStream")

InputJsonDelta(s, ev) ==
    IF ev.index \notin DOMAIN s.tool_indices THEN AnthropicFail(s, "InvalidStream")
    ELSE LET r   == AnthropicReserve(s, Len(ev.body))
             old == IF ev.index \in DOMAIN s.tool_json THEN s.tool_json[ev.index] ELSE <<>>
         IN feed([r EXCEPT !.tool_json = Put(@, ev.index, old \o ev.body)],
                 apply_tool_delta(r.inner, s.tool_indices[ev.index], Absent, Absent, ev.body))

ContentBlockDelta(s, ev) ==
    CASE ev.block = "text_delta" -> TextBlockDelta(s, ev)
      [] ev.block = "thinking_delta" -> ThinkingBlockDelta(s, ev)
      [] ev.block = "signature_delta" -> SignatureDelta(s, ev)
      [] ev.block = "input_json_delta" -> InputJsonDelta(s, ev)
      [] OTHER -> s

\* The JSON that was collected, if any, becomes the input of the block.
ContentBlockStop(s, ev) ==
    IF ev.index \notin DOMAIN s.tool_json THEN s
    ELSE IF s.tool_json[ev.index] = <<>> THEN AnthropicFail(s, "InvalidStream")
    ELSE [s EXCEPT !.tool_json = [k \in DOMAIN @ \ {ev.index} |-> @[k]],
                   !.content[ev.index].input = s.tool_json[ev.index]]

StopReason(reason) ==
    CASE reason \in {"end_turn", "stop_sequence"} -> "stop"
      [] reason = "tool_use" -> "tool_calls"
      [] reason = "max_tokens" -> "length"
      [] OTHER -> "error"

\* A message_delta carries the usage, with or without a reason to stop.
MessageDelta(s, ev) ==
    LET stopped == IF ev.block = "none" THEN s
                   ELSE feed(s, Stop(s.inner, StopReason(ev.block)))
    IN feed(stopped, Usage(stopped.inner))

AnthropicParse(s, ev) ==
    IF s.inner.error # "none" THEN s
    ELSE CASE ev.type = "message_start" -> MessageStart(s)
           [] ev.type = "content_block_start" -> ContentBlockStart(s, ev)
           [] ev.type = "content_block_delta" -> ContentBlockDelta(s, ev)
           [] ev.type = "content_block_stop" -> ContentBlockStop(s, ev)
           [] ev.type = "message_delta" -> MessageDelta(s, ev)
           [] ev.type = "message_stop" -> feed(s, Done(s.inner))
           [] ev.type = "error" -> AnthropicFail(s, "InvalidStream")
           [] OTHER -> s

\* finish after its last block: an Anthropic stream must have ended.
AnthropicFinish(s) == IF s.inner.terminal THEN s ELSE AnthropicFail(s, "InvalidStream")

\* The content blocks in their order, as the history keeps them.
AnthropicContent(s) ==
    LET order == SetToSortSeq(DOMAIN s.content, <)
    IN [i \in DOMAIN order |-> s.content[order[i]]]
=============================================================================
