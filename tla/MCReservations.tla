---------------------------- MODULE MCReservations ----------------------------
(* Instances of Reservations for TLC.  Users, labs and ids are interchangeable *)
(* model values, so the safety runs use their permutations as symmetry.        *)
EXTENDS OverlapSweep, TLC

Symmetry == Permutations(Users) \cup Permutations(Labs) \cup Permutations(Ids)

=============================================================================
