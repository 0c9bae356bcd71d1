--------------------------- MODULE MCProviderUpgrade ---------------------------
(* The instance of ProviderUpgrade that TLC checks: its cfg gives every constant a value. *)
EXTENDS ProviderUpgrade, TLC
=============================================================================
