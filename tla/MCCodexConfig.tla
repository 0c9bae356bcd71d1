--------------------------- MODULE MCCodexConfig ---------------------------
(* Values of the constants of CodexConfig for TLC. *)
EXTENDS CodexConfig, TLC

\* One place runs every kind of operation: operations never overlap.
SequentialMenu == [t \in Ops |-> Kinds \ {"listener"}]

\* No disable: the integration is only applied and reconciled.
ApplyMenu == [t \in Ops |-> {"enable", "reconcile"}]

\* Two places that do overlap: the settings window and the menu bar item.
CONSTANTS Settings, Tray
OverlapMenu == [t \in Ops |->
  IF t = Tray THEN {"trayDisable"} ELSE {"enable", "reconcile"}]

Interchangeable == Permutations(Urls)
=============================================================================
