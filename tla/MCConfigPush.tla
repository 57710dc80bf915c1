---------------------------- MODULE MCConfigPush ----------------------------
(* An instance of ConfigPush for TLC.  "x" shares an interface unit with the *)
(* base line "b"; "n" is nested under one.                                   *)
EXTENDS ConfigPush

Unit == {<<"x", "b">>, <<"b", "x">>}

\* unseen never changes: one line of either kind at a time.
OneUnseen == unseen \in {{"b"}, {"x"}}
=============================================================================
