---------------------------- MODULE ResponsesDecoder ----------------------------
(***************************************************************************)
(* One event of a Responses stream, passed on to the client with raw       *)
(* reasoning turned into summaries                                         *)
(* (crates/provider-x-protocol/src/responses/bridge.rs).                   *)
(*                                                                         *)
(* An event is its type, the item it names ("" for none), the source a     *)
(* reasoning event tells of, and its body, a sequence of pieces: reasoning *)
(* told raw or as a summary, and text for all the rest.                    *)
(***************************************************************************)
EXTENDS Naturals, Sequences, FiniteSets

CONSTANTS
    MaxIdBytes,          \* the limit on the ids that are remembered; an id is one byte
    MAX_REASONING_ITEMS

NewResponses ==
    [terminal |-> FALSE, completed |-> FALSE, output |-> <<>>, sources |-> <<>>, item_id_bytes |-> 0,
     pending |-> <<>>, error |-> "none"]

ResponsesEvent(type, item, source, body) ==
    [type |-> type, item |-> item, source |-> source, body |-> body]

Piece(form, text) == [form |-> form, text |-> text]

TerminalTypes == {"response.completed", "response.failed", "response.incomplete"}

Sent(s, ev) == [s EXCEPT !.pending = Append(@, ev)]

\* record_source: the first source of an item is the one that counts.
record_source(s, item, source) ==
    IF item \in DOMAIN s.sources THEN s
    ELSE IF \/ Cardinality(DOMAIN s.sources) >= MAX_REASONING_ITEMS
            \/ s.item_id_bytes + 1 > MaxIdBytes
    THEN [s EXCEPT !.error = "StreamStateLimit"]
    ELSE [s EXCEPT !.sources = [i \in DOMAIN @ \cup {item} |-> IF i = item THEN source ELSE @[i]],
                   !.item_id_bytes = @ + 1]

remove_source(s, item) ==
    IF item \notin DOMAIN s.sources THEN s
    ELSE [s EXCEPT !.sources = [i \in DOMAIN @ \ {item} |-> @[i]], !.item_id_bytes = @ - 1]

\* Reasoning that came without a summary is told as one.
normalize_reasoning_item(x) == IF x.form = "raw" THEN Piece("summary", x.text) ELSE x

Summarized(ev) == [ev EXCEPT !.body = [i \in DOMAIN @ |-> normalize_reasoning_item(@[i])]]

normalize_raw_reasoning_event(ev) == [Summarized(ev) EXCEPT !.source = "native"]

\* A reasoning event of the other source is dropped; a raw one is renamed.
normalize_reasoning(s, ev) ==
    LET told == IF ev.source = "raw" THEN normalize_raw_reasoning_event(ev) ELSE ev
    IN IF ev.item = "" THEN Sent(s, told)
       ELSE LET r == record_source(s, ev.item, ev.source)
            IN IF r.error # "none" THEN r
               ELSE IF r.sources[ev.item] = ev.source THEN Sent(r, told) ELSE r

normalize(s, ev) ==
    CASE ev.type = "untyped" -> s
      [] ev.type = "reasoning" -> normalize_reasoning(s, ev)
      [] ev.type = "response.output_item.done" -> Sent(remove_source(s, ev.item), Summarized(ev))
      [] ev.type = "response.completed" -> Sent(s, Summarized(ev))
      [] OTHER -> Sent(s, ev)

\* A plausible bug: the output is taken when its reasoning is a summary already.
OutputAfterNormalize(s, ev) ==
    IF s.error # "none" \/ ev.type = "[DONE]" THEN s
    ELSE LET ended == [s EXCEPT !.terminal = @ \/ ev.type \in TerminalTypes]
             kept  == IF ev.type = "response.completed"
                      THEN [ended EXCEPT !.completed = TRUE, !.output = Summarized(ev).body]
                      ELSE ended
         IN normalize(kept, ev)

\* The output that the session commits is the one of the upstream, as it came.
ResponsesParse(s, ev) ==
    IF s.error # "none" \/ ev.type = "[DONE]" THEN s
    ELSE LET ended == [s EXCEPT !.terminal = @ \/ ev.type \in TerminalTypes]
             kept  == IF ev.type = "response.completed"
                      THEN [ended EXCEPT !.completed = TRUE, !.output = ev.body]
                      ELSE ended
         IN normalize(kept, ev)
=============================================================================
