----------------------------- MODULE ListCalls -----------------------------
(***************************************************************************)
(* The candidate list between the two who know it: the calls that TCodeIME *)
(* makes on it and that CandidateWindow answers with a window.  Both       *)
(* implement this specification.  What CandidateWindow assumes of its      *)
(* caller is then what the caller does: the candidates are the visible     *)
(* ones of an answer and there is one at least, the selection is no        *)
(* negative number, and a list is hidden as a whole.                       *)
(***************************************************************************)
EXTENDS CandidateList

VARIABLE list

Init == list = NoList

(* SetCandidates and the Begin- or UpdateUIElement behind it.                *)
Update ==
  /\ list'.cands \in {Visible(l) : l \in CandidateLists} \ {<<>>}
  /\ list'.sel \in Nat
  /\ list' \in UpdateCandidateList(list, list'.cands, list'.sel)

(* EndUIElement.                                                             *)
Hide == list.elem /\ list' = HideCandidateList(list)

(* ITfUIElement::Show, which only a registered element gets.                 *)
AppShows == list.elem /\ \E bShow \in BOOLEAN : list' = [list EXCEPT !.shown = bShow]

Next == Update \/ Hide \/ AppShows

Spec == Init /\ [][Next]_list
=============================================================================
