------------------------------ MODULE MCAccounts ------------------------------
(* Instances of Accounts for TLC.  All names but the bootstrap admin's are   *)
(* interchangeable, and so are the groups.                                   *)
EXTENDS Accounts, TLC

\* Bound: of groups, requests held up and users out of step with Linux,
\* beside the bootstrap admin, at most two at a time.
Drifting == ((logins \ Known) \cup {d[1] : d \in reported}) \ {Bootstrap}
Few == Cardinality(groups) + Cardinality(late) + Cardinality(Drifting) <= 2

Symmetry == Permutations(Names \ {Bootstrap}) \cup Permutations(Groups)

===============================================================================
