----------------------------- MODULE MCAgentJobs -----------------------------
(* An instance of AgentJobs for TLC.  No symmetry: a liveness property is checked. *)
EXTENDS AgentJobs

=============================================================================
