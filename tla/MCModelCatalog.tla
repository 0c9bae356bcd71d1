--------------------------- MODULE MCModelCatalog ---------------------------
(* Instances of ModelCatalog for TLC.                                      *)
EXTENDS ModelCatalog

TwoIds == <<"openai", "openai-2">>
Gpt == <<"gpt">>
OneOfficial == {Gpt}
(* The second list claims a name of a Provider's model.                    *)
TwoLists == {{Gpt}, {Gpt, <<"openai", "m">>}}
Reports == {None, "a"}
Entries == {None, "b"}

Budget(refreshes, edits, opens, saves, switches, removals, lists, requests, restarts) ==
  [refreshes |-> refreshes, edits |-> edits, opens |-> opens, saves |-> saves,
   switches |-> switches, removals |-> removals, lists |-> lists,
   requests |-> requests, restarts |-> restarts]

(* Filling and refreshing forms, or serving Codex while Providers change.  *)
Filling == {Budget(2, 2, 2, 1, 0, 0, 0, 0, 0)}
Serving == {Budget(0, 2, 2, 2, 0, 1, 1, 2, 1), Budget(0, 2, 1, 2, 1, 0, 0, 2, 0)}
Some == Filling \cup Serving

(* Runs outside the passing one.                                           *)
RefreshThrice == {Budget(3, 0, 1, 1, 0, 0, 0, 0, 0)}
GiveAgain == {Budget(0, 2, 2, 2, 0, 1, 1, 1, 0)}
=============================================================================
