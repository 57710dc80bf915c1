--------------------------- MODULE MCStateSnapshot ---------------------------
(* An instance of StateSnapshot for TLC.  No symmetry: liveness is checked.  *)
EXTENDS StateSnapshot

=============================================================================
