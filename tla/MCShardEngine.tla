--------------------------- MODULE MCShardEngine ---------------------------
(* Two layouts of three layers, and a second window for one of them. *)
EXTENDS ShardEngine

TwoLayouts == {[lps |-> 1, win |-> 2], [lps |-> 2, win |-> 2], [lps |-> 1, win |-> 1]}
=============================================================================
