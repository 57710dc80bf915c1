----------------------------- MODULE MCLabRuntime -----------------------------
(* An instance of LabRuntime for TLC.                                        *)
EXTENDS LabRuntime, TLC

Interchangeable == Permutations(Jobs) \cup Permutations(Handlers)
=============================================================================
