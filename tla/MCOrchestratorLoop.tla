------------------------- MODULE MCOrchestratorLoop -------------------------
(* OrchestratorLoop on small limits for TLC. *)
EXTENDS OrchestratorLoop

=============================================================================
