--------------------------- MODULE MCResultsFeed ---------------------------
(* One lottery with the result of its own, or a pair of them. *)
EXTENDS ResultsFeed

MCBindings == {{"ALL"}, {"PICK3", "PICK4"}}
MCNumbers == [ALL |-> {1, 2}, PICK3 |-> {1, 2}, PICK4 |-> {1}]
MCTrouble == <<2, 0>>
=============================================================================
