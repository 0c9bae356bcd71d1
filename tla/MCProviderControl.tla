-------------------------- MODULE MCProviderControl --------------------------
(* Values of the constants of ProviderControl for TLC. *)
EXTENDS ProviderControl, TLC

NoFaults == {}

AllFaults == FaultKinds

Refused == FaultKinds \ {"sync"}

Interchangeable == Permutations(Accounts)
=============================================================================
