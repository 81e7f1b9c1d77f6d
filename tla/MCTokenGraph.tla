---------------------------- MODULE MCTokenGraph ----------------------------
(* A sliding, a global and a sliding layer; two chunks of two, two tokens. *)
EXTENDS TokenGraph

ThreeLayers == <<"sliding", "full", "sliding">>
UnsplitSets == {{}, {"lm"}, {"k", "u", "lm"}}
=============================================================================
