---------------------------- MODULE ManagedKeys ----------------------------
(***************************************************************************)
(* What the Codex integration promises about the managed keys, without      *)
(* files, hashes or receipts: a provider-x URL displaces the user's value   *)
(* only when that very value is backed up, the backup is given back only    *)
(* over a provider-x URL or over itself, and it is forgotten only when no   *)
(* provider-x URL is left.                                                  *)
(***************************************************************************)
CONSTANTS
  Urls,        \* the values provider-x writes
  UserValues,  \* the values everybody else writes
  None         \* no backup

VARIABLES
  keys,    \* the managed keys in the configuration
  backup   \* the value restore would give back

Init == keys \in UserValues /\ backup = None

TakeBackup == backup = None /\ backup' \in UserValues /\ UNCHANGED keys

Install ==
  /\ backup # None
  /\ keys \in Urls \cup {backup}
  /\ keys' \in Urls
  /\ UNCHANGED backup

GiveBack ==
  /\ backup # None
  /\ keys \in Urls \cup {backup}
  /\ keys' = backup
  /\ UNCHANGED backup

Forget == keys \in UserValues /\ backup' = None /\ UNCHANGED keys

UserEdit == keys' \in UserValues /\ UNCHANGED backup

Next == TakeBackup \/ Install \/ GiveBack \/ Forget \/ UserEdit

Spec == Init /\ [][Next]_<<keys, backup>>
=============================================================================
