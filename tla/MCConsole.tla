----------------------------- MODULE MCConsole -----------------------------
(***************************************************************************)
(* A screen of two columns and three rows with space left over on the      *)
(* right, at the bottom and behind every line.                             *)
(***************************************************************************)
EXTENDS Console

MCCodePoint == [a |-> 0, b |-> 1, e |-> 5]
MCOutputs == {<<"a">>, <<"b", "a", "newline">>}

=============================================================================
