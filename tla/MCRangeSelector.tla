--------------------------- MODULE MCRangeSelector ---------------------------
(* Model-checking instance of RangeSelector.                              *)
EXTENDS RangeSelector

CONSTANTS c1, c2, c3

\* Listings of up to three contacts with distinct identifiers.
MCItemLists == {<<>>, <<c1>>, <<c1, c2>>, <<c1, c2, c3>>}

\* Parts of a token: indices 0..3 (3 is out of range for every listing)
\* and non-integer text.
MCParts == 0..3 \cup {NaN}

\* Tokens without "-", "x-y" tokens, and tokens with two "-".
MCTokens ==
  {<<p>> : p \in MCParts}
  \cup {<<p, q>> : p, q \in MCParts}
  \cup {<<p, q, r>> : p, q, r \in {0, NaN}}

\* split(",") yields at least one token; inputs of up to two tokens.
MCInputs == SeqOf(MCTokens, 2) \ {<<>>}
=============================================================================
