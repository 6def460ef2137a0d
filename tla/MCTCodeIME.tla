----------------------------- MODULE MCTCodeIME -----------------------------
(* Instances of TCodeIME for TLC. *)
EXTENDS TCodeIME

CONSTANTS a, b, c1, c2  \* candidates and documents

(* A selection that fits one list may miss, or hit something else in, another. *)
Mixed == {<<>>, <<a>>, <<b, a>>}
Pair == {<<>>, <<a, b>>}
BlankFirst == {<<>>, <<Blank, a>>}
=============================================================================
