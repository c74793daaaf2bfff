--------------------------- MODULE MCOrchestrator ---------------------------
(* Bounded instances of Orchestrator. *)
EXTENDS Orchestrator
NoAgents == {}

=============================================================================
