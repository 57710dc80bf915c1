----------------------------- MODULE MCLabSession -----------------------------
(* Instances of LabSession for TLC.  The users who are not admins and the ids *)
(* are interchangeable in the safety runs that give no one a group.           *)
EXTENDS LabSession, TLC

Symmetry == Permutations(Users \ Admins) \cup Permutations(Ids)

=============================================================================
