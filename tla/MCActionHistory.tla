-------------------------- MODULE MCActionHistory --------------------------
(* Three actions in libraries with all of them, with the third a helper,   *)
(* and without the third; the fallback has an action of its own, 4.       *)
EXTENDS ActionHistory

All     == [ids |-> {1, 2, 3}, helpers |-> {}]
Helper  == [ids |-> {1, 2, 3}, helpers |-> {3}]
Smaller == [ids |-> {1, 2}, helpers |-> {}]

Configured == {All, Helper, Smaller}
Missing    == [ids |-> {4}, helpers |-> {}]
=============================================================================
