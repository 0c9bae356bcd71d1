------------------------------ MODULE ChatDecoder ------------------------------
(***************************************************************************)
(* One block of a Chat Completions stream applied to the emitter           *)
(* (crates/provider-x-protocol/src/chat_completions/bridge.rs).            *)
(*                                                                         *)
(* A block is [DONE] or a chunk: the fields of its choice 0, or none when  *)
(* it has no such choice, and whether it carries the usage.                *)
(***************************************************************************)
EXTENDS OutputEmitter

NoChoice == [reasoning |-> Absent, content |-> Absent, calls |-> <<>>, finish |-> "none"]

ChatChunk(choice, usage) == [type |-> "chunk", choice |-> choice, usage |-> usage]

ChatDone == [type |-> "[DONE]"]

ChatCall(index, id, name, arguments) ==
    [index |-> index, id |-> id, name |-> name, arguments |-> arguments]

ChatApplyCall(s, call) ==
    apply(s, apply_tool_delta(s, call.index, call.id, call.name, call.arguments))

ChatParse(s, block) ==
    IF block.type = "[DONE]" THEN apply(s, Done(s))
    ELSE LET choice   == block.choice
             started  == apply(s, Start(s, <<1>>))
             counted  == IF block.usage THEN apply(started, Usage(started)) ELSE started
             reasoned == apply(counted, ReasoningDelta(counted, Given(choice.reasoning)))
             written  == apply(reasoned, TextDelta(reasoned, Given(choice.content)))
             called   == FoldLeft(ChatApplyCall, written, choice.calls)
         IN IF choice.finish = "none" THEN called
            ELSE apply(called, Stop(called, choice.finish))
=============================================================================
