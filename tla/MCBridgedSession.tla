-------------------------- MODULE MCBridgedSession --------------------------
(* Instances of BridgedSession for TLC.                                    *)
EXTENDS BridgedSession

(* The Responses client may repeat or send again any part; the two other   *)
(* adapters recognise a call that was the whole answer.                    *)
PlainHabits ==
  [p \in Protocols |->
     CASE p = "responses" -> {"repeat", "resend", "reinstruct", "developer"}
       [] p = "chat" -> {"repeat_call", "developer"}
       [] OTHER -> {"repeat_call", "reinstruct"}]

RichAnswers ==
  [p \in Protocols |->
     {<<"said">>, <<"call">>, <<"thought", "call">>, <<"said", "call", "call">>}]

PlainAnswers == [p \in Protocols |-> {<<"said">>, <<"call">>}]
EmptyAnswers == [p \in Protocols |-> {<<>>, <<"said">>}]

(* Clients outside the passing run, one habit each.                        *)
ChangedInstructions == [p \in Protocols |-> {"reinstruct"}]
DeveloperItems == [p \in Protocols |-> {"developer"}]
WholeResend == [p \in Protocols |-> {"resend"}]
RetriedWarmup == [p \in Protocols |-> {"retry_warmup"}]
NoHabits == [p \in Protocols |-> {}]
=============================================================================
