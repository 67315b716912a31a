------------------------ MODULE MCProviderGovernor ------------------------
(* ProviderGovernor for TLC. *)
EXTENDS ProviderGovernor

=============================================================================
