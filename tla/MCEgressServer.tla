---------------------------- MODULE MCEgressServer -----------------------------
(* Values of the constants of EgressServer for TLC. *)
EXTENDS EgressServer, TLC

AllFaults == FaultKinds

\* A stall only keeps steps from being taken: it adds nothing to a run that checks safety.
Serving == FaultKinds \ {"pipelines", "client_stalls", "upstream_stalls"}

ClientStalls == {"client_stalls"}

Interchangeable == Permutations(Connections)
=============================================================================
