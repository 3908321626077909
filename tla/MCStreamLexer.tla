--------------------------- MODULE MCStreamLexer ---------------------------
(***************************************************************************)
(* Every source of up to four characters for StreamLexer, and longer ones  *)
(* with literals and comments.                                             *)
(***************************************************************************)
EXTENDS StreamLexer

Chars == {"w", "t", "n", "#", "q", "?"}
MCInputs == UNION {[1 .. n -> Chars] : n \in 0 .. 4}
              \cup [1 .. 6 -> {"w", "q", "n"}] \cup [1 .. 5 -> {"w", "q", "#", "n"}]
Few == UNION {[1 .. n -> {"w", "t", "n"}] : n \in 0 .. 3}
=============================================================================
