------------------------- MODULE MCCandidateWindow -------------------------
(* CandidateWindow with a list of one full page and one of two, the last not full. *)
EXTENDS CandidateWindow

CONSTANTS a, b, c

(* The first of them has a candidate without text. *)
MCCandidateLists == {<<>>, <<a, Blank, b>>, <<a, b, c>>}
=============================================================================
