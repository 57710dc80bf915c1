---------------------------- MODULE MCSandboxAgent ----------------------------
(* Instances of SandboxAgent for TLC.  Threads and edits are interchangeable. *)
EXTENDS SandboxAgent, TLC

Symmetry == Permutations(Threads) \cup Permutations(Edits)

=============================================================================
