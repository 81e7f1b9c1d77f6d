--------------------------- MODULE MCPrefixCache ---------------------------
(* PrefixCache on prompts of a two-token alphabet. *)
EXTENDS PrefixCache

CONSTANTS a, b

MCTokens == {a, b}

\* Fit the context: one chunk and less, a prefix of another, the same prefix
\* with another ending, four chunks (more than the snapshot holds, and the three
\* it holds more than the ring), and one that shares nothing.
ShortPrompts ==
    { <<a>>, <<a, a, b>>, <<a, a, b, b, a>>, <<a, a, b, a, b>>,
      <<a, a, b, b, a, a, b, b, a>>, <<b, b, b>> }

\* As long as the context: generate cuts it to its last MAXT - 1 tokens.  Its
\* first three chunks are also those of the nine-token prompt.
LongPrompt == <<a, a, b, b, a, a, b, a, a, b, b>>
LongPrompts == ShortPrompts \cup {LongPrompt}
NoPrompts == {}

Mixed ==
    { <<>>, <<b>>, <<a, a, b, b, a>>, <<a, a, b, a, b>>,
      <<a, a, b, b, a, a, b, b, a>>, LongPrompt }
MixedNaN == {<<a, a, b, a, b>>}
=============================================================================
