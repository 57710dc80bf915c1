------------------------------- MODULE MCGateway -------------------------------
(* Instances of Gateway for TLC.                                             *)
EXTENDS Gateway

CONSTANT v1

OneVm == [l \in Labs |-> v1]
================================================================================
