--------------------------- MODULE CandidateList ---------------------------
(***************************************************************************)
(* The candidate window: CTCodeCandidateListUI and the methods of          *)
(* CTCodeIME that drive it through the Text Services Framework             *)
(* (SyncCandidateList, UpdateCandidateList, HideCandidateList).            *)
(*                                                                         *)
(* Sizes, positions and painting are left out.                             *)
(***************************************************************************)
EXTENDS EngineClient

CONSTANTS
  Blank,    \* a candidate whose UTF-8 text is empty
  PageSize  \* CANDIDATES_PER_PAGE

ASSUME PageAssumption == PageSize \in Nat \ {0}

(***************************************************************************)
(* elem:  a UI element is registered (_dwCandidateListUIElementId)         *)
(* shown: the window is to be visible (IsShown)                            *)
(* cands, sel, page: what SetCandidates stored last                        *)
(***************************************************************************)
NoList == [elem |-> FALSE, shown |-> FALSE, cands |-> <<>>, sel |-> -1, page |-> 0]

NotBlank(text) == text # Blank

(* The candidates of a response that get into the window. *)
Visible(l) == SelectSeq(l, NotBlank)

(* SelectSeq is recursive, so the provers need to be told this much of it. *)
ASSUME VisibleAssumption ==
  /\ Visible(<<>>) = <<>>
  /\ \A l \in CandidateLists : Visible(l) \in Seq({l[n] : n \in DOMAIN l})

ListState ==
  [elem: BOOLEAN, shown: BOOLEAN, cands: {Visible(l) : l \in CandidateLists} \cup {<<>>},
   sel: Nat \cup {-1}, page: Nat]

-----------------------------------------------------------------------------
SetCandidates(u, candidates, i) ==
  [u EXCEPT !.cands = candidates, !.sel = i, !.page = IF i >= 0 THEN i \div PageSize ELSE @]

HideCandidateList(u) == [u EXCEPT !.elem = FALSE, !.shown = FALSE]

(* Mutant: a registered element keeps the strings it was begun with. *)
UpdateSelection(u, candidates, i) ==
  IF u.elem THEN {SetCandidates(u, u.cands, i)}
  ELSE {[SetCandidates(u, candidates, i) EXCEPT !.elem = TRUE]}

(* BeginUIElement may fail, or succeed with bShow either way. *)
UpdateCandidateList(u, candidates, i) ==
  LET v == SetCandidates(u, candidates, i)
  IN  IF u.elem THEN {v}
      ELSE {v} \cup {[v EXCEPT !.elem = TRUE, !.shown = bShow] : bShow \in BOOLEAN}

(* The window follows the cached response r and the selection i. *)
SyncCandidateList(u, r, i) ==
  IF Visible(r.candidates) = <<>>
    THEN {HideCandidateList(u)}
    ELSE UpdateCandidateList(u, Visible(r.candidates), i)
=============================================================================
