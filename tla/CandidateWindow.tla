-------------------------- MODULE CandidateWindow --------------------------
(***************************************************************************)
(* What a user, or an application that draws the candidates itself, gets   *)
(* to see of the candidate list: the window, its rows, where it is, and    *)
(* the update flags of the UI element.                                     *)
(*                                                                         *)
(* The list itself changes as CandidateList says.  The window is made at   *)
(* the first Show(TRUE), belongs to the window of the application and is   *)
(* destroyed with it.  It moves when an edit session or a layout           *)
(* notification finds the caret; an application that cannot tell yet where *)
(* it is (TS_E_NOLAYOUT) owes a notification.                              *)
(***************************************************************************)
EXTENDS CandidateList

CONSTANTS
  Places,   \* where the caret may be on the screen
  Corner,   \* where a new window is
  MaxIndex  \* bound: m_selectedIndex

ASSUME PlacesAssumption == Corner \notin Places /\ MaxIndex \in Nat

VARIABLES
  list,   \* the candidates, see CandidateList
  pages,  \* _pageIndex: the first candidate of each page
  flags,  \* _updatedFlags
  copy,   \* what an application has read, field by field
  wnd,    \* _hCandidateWnd
  doc     \* the focused document: a composition, its caret

vars == <<list, pages, flags, copy, wnd, doc>>

Fields == {"string", "selection", "pageindex", "currentpage"}

(* Mutant: a last page that is not full is forgotten. *)
FullPages(candidates) == [n \in 1 .. Len(candidates) \div PageSize |-> (n - 1) * PageSize]

(* _pageIndex as SetCandidates rebuilds it.                                  *)
PageStarts(candidates) ==
  [n \in 1 .. (Len(candidates) + PageSize - 1) \div PageSize |-> (n - 1) * PageSize]

(* GetString, GetSelection, GetPageIndex and GetCurrentPage.                 *)
Content(l, p) ==
  [string |-> l.cands, selection |-> IF l.sel >= 0 THEN l.sel ELSE 0,
   pageindex |-> p, currentpage |-> l.page]

(* The rows of the current page and the one drawn as selected (0: none).     *)
Picture(l) ==
  LET start == l.page * PageSize
      end == IF start + PageSize > Len(l.cands) THEN Len(l.cands) ELSE start + PageSize
  IN  [rows |-> SubSeq(l.cands, start + 1, end),
       highlighted |-> IF l.sel + 1 \in start + 1 .. end THEN l.sel + 1 - start ELSE 0]

(***************************************************************************)
(* live:    the handle names our window                                    *)
(* dirty:   it is invalid, WM_PAINT will come                              *)
(* reused:  history: it was shown again and has not been placed since      *)
(***************************************************************************)
NoWindow ==
  [live |-> FALSE, visible |-> FALSE, dirty |-> FALSE, picture |-> Picture(NoList),
   at |-> Corner, reused |-> FALSE]

(* owed: the application is going to tell of a new layout. *)
Document == [composing: BOOLEAN, caret: Places, owed: BOOLEAN]

Init ==
  /\ list = NoList
  /\ pages = <<>>
  /\ flags = {}
  /\ copy = Content(NoList, <<>>)
  /\ wnd = NoWindow
  /\ doc \in [composing: {FALSE}, caret: Places, owed: {FALSE}]

-----------------------------------------------------------------------------
(* WM_PAINT, when the message comes or at once by UpdateWindow. *)
Painted(w, l) ==
  IF w.visible THEN [w EXCEPT !.picture = Picture(l), !.dirty = FALSE] ELSE w

(* SetWindowPos without a size; a shown window is drawn again later.         *)
MoveTo(w, place, shown) ==
  IF w.live THEN [w EXCEPT !.at = place, !.reused = FALSE, !.dirty = @ \/ shown] ELSE w

(* TriggerPositionUpdate with CTrackLayoutEditSession: needs a composition.  *)
TrackLayout(w, d, shown) ==
  IF ~d.composing THEN {[wnd |-> w, doc |-> d]}
  ELSE {[wnd |-> MoveTo(w, d.caret, shown), doc |-> d],
        [wnd |-> w, doc |-> [d EXCEPT !.owed = TRUE]]}

(* Mutant: the flag is cleared and the window stays. *)
NotHidden(w) == [w EXCEPT !.dirty = FALSE]

Hidden(w) == [w EXCEPT !.visible = FALSE, !.dirty = FALSE]

(* Show(TRUE): a window is made, placed and shown, or an old one shown.      *)
ShowWindow(w, d, l) ==
  IF w.live
    THEN {[wnd |-> Painted([w EXCEPT !.visible = TRUE, !.reused = @ \/ ~w.visible], l), doc |-> d]}
    ELSE {[wnd |-> NoWindow, doc |-> d]}
           \cup {[wnd |-> Painted([t.wnd EXCEPT !.visible = TRUE], l), doc |-> t.doc] :
                   t \in TrackLayout([NoWindow EXCEPT !.live = TRUE], d, TRUE)}

Show(w, d, l) == IF l.shown THEN ShowWindow(w, d, l) ELSE {[wnd |-> Hidden(w), doc |-> d]}

(* The end of CManageCompositionEditSession places the window of an element. *)
EditSession(w, d) ==
  {[wnd |-> w, doc |-> d]}
    \cup {[wnd |-> w, doc |-> e] : e \in {f \in Document : f.composing /\ list.elem => f.owed}}
    \cup {[wnd |-> MoveTo(w, e.caret, list.shown), doc |-> e] :
            e \in {f \in Document : f.composing /\ list.elem}}

-----------------------------------------------------------------------------
(* Mutant: the window of a registered element is left to WM_PAINT. *)
WindowFollowsLazily(w, d, l) ==
  IF list.elem THEN {[wnd |-> w, doc |-> d]}
  ELSE IF l.elem THEN Show(w, d, l) ELSE {[wnd |-> w, doc |-> d]}

(* UpdateCandidateList, behind SetCandidates: an element that is registered  *)
(* is drawn, one that just was is shown or not.                              *)
WindowFollows(w, d, l) ==
  IF list.elem THEN {[wnd |-> Painted(w, l), doc |-> d]}
  ELSE IF l.elem THEN Show(w, d, l) ELSE {[wnd |-> w, doc |-> d]}

(* ... which first tries to place it without a lock.                         *)
Unlocked(w, d) == {w} \cup (IF d.composing THEN {MoveTo(w, d.caret, FALSE)} ELSE {})

(* Mutant: the flags of an update that nobody has read yet are overwritten. *)
FlagSelection == flags' = {"selection"}

SetFlags == flags' = Fields

(* SyncCandidateList after an edit session that left w and d.                *)
Sync(w, d, candidates, i) ==
  IF Visible(candidates) = <<>>
    THEN /\ list' = HideCandidateList(list)
         /\ wnd' = Hidden(w)
         /\ doc' = d
         /\ UNCHANGED <<pages, flags, copy>>
    ELSE /\ list' \in UpdateCandidateList(list, Visible(candidates), i)
         /\ pages' = PageStarts(list'.cands)
         /\ SetFlags
         /\ \E u \in Unlocked(w, d) : \E s \in WindowFollows(u, d, list') :
              wnd' = s.wnd /\ doc' = s.doc
         /\ UNCHANGED copy

(* A key that edits, or only moves the selection. *)
OnKeyDown ==
  \E candidates \in CandidateLists, i \in 0 .. MaxIndex :
    \E e \in EditSession(wnd, doc) : Sync(e.wnd, e.doc, candidates, i)

(* Left and Right edit and leave the list alone. *)
MoveInflection ==
  \E e \in EditSession(wnd, doc) :
    /\ wnd' = e.wnd /\ doc' = e.doc
    /\ UNCHANGED <<list, pages, flags, copy>>

(* Mutant: EndUIElement without Show(FALSE). *)
EndOnly ==
  /\ list.elem
  /\ list' = [list EXCEPT !.elem = FALSE]
  /\ UNCHANGED <<pages, flags, copy, wnd, doc>>

(* Ctrl+/ and Deactivate. *)
Hide ==
  /\ list.elem
  /\ list' = HideCandidateList(list)
  /\ wnd' = Hidden(wnd)
  /\ UNCHANGED <<pages, flags, copy, doc>>

-----------------------------------------------------------------------------
(* Mutant: the notification is taken for a list that is not shown only. *)
OnLayoutChangeHidden ==
  /\ doc.owed
  /\ IF list.elem /\ ~list.shown
       THEN \E t \in TrackLayout(wnd, [doc EXCEPT !.owed = FALSE], FALSE) :
              wnd' = t.wnd /\ doc' = t.doc
       ELSE doc' = [doc EXCEPT !.owed = FALSE] /\ UNCHANGED wnd
  /\ UNCHANGED <<list, pages, flags, copy>>

(* The notification the application owes; only a shown list follows it.      *)
OnLayoutChange ==
  /\ doc.owed
  /\ IF list.elem /\ list.shown
       THEN \E t \in TrackLayout(wnd, [doc EXCEPT !.owed = FALSE], TRUE) :
              wnd' = t.wnd /\ doc' = t.doc
       ELSE doc' = [doc EXCEPT !.owed = FALSE] /\ UNCHANGED wnd
  /\ UNCHANGED <<list, pages, flags, copy>>

(* The user scrolls or moves the document's window, or goes to another one.  *)
CaretMoves ==
  /\ doc' \in [composing: {doc.composing}, caret: Places \ {doc.caret}, owed: {TRUE}]
  /\ UNCHANGED <<list, pages, flags, copy, wnd>>

OnCompositionTerminated ==
  /\ doc.composing
  /\ doc' = [doc EXCEPT !.composing = FALSE]
  /\ UNCHANGED <<list, pages, flags, copy, wnd>>

(* ITfUIElement::Show from the application. *)
AppShows ==
  /\ list.elem
  /\ list' \in {[list EXCEPT !.shown = b] : b \in BOOLEAN}
  /\ \E s \in Show(wnd, doc, list') : wnd' = s.wnd /\ doc' = s.doc
  /\ UNCHANGED <<pages, flags, copy>>

(* An application reads the flags, which clears them, and what they name.    *)
AppReads ==
  /\ flags # {}
  /\ copy' = [f \in Fields |-> IF f \in flags THEN Content(list, pages)[f] ELSE copy[f]]
  /\ flags' = {}
  /\ UNCHANGED <<list, pages, wnd, doc>>

(* SetPageIndex: the application wants all candidates on one page.           *)
AppSetsPages ==
  /\ list.elem
  /\ pages' = <<0>>
  /\ copy' = [copy EXCEPT !.pageindex = <<0>>]
  /\ UNCHANGED <<list, flags, wnd, doc>>

(* With its owner the window goes, and nobody tells the list. *)
OwnerDestroyed ==
  /\ wnd.live
  /\ wnd' = NoWindow
  /\ UNCHANGED <<list, pages, flags, copy, doc>>

OnPaint ==
  /\ wnd.visible /\ wnd.dirty
  /\ wnd' = Painted(wnd, list)
  /\ UNCHANGED <<list, pages, flags, copy, doc>>

Next ==
  \/ OnKeyDown \/ MoveInflection \/ Hide
  \/ OnLayoutChange \/ CaretMoves \/ OnCompositionTerminated
  \/ AppShows \/ AppReads \/ AppSetsPages \/ OwnerDestroyed \/ OnPaint

Spec == Init /\ [][Next]_vars

-----------------------------------------------------------------------------
(* Every variable has its type; a list is shown only while its element is    *)
(* registered (IsShown, _dwCandidateListUIElementId), and only a window that *)
(* exists is visible.                                                        *)
TypeOK ==
  /\ list \in ListState /\ (list.shown => list.elem)
  /\ \A n \in DOMAIN pages : pages[n] \in Nat
  /\ flags \subseteq Fields /\ DOMAIN copy = Fields
  /\ wnd.at \in Places \cup {Corner} /\ (wnd.visible => wnd.live)
  /\ doc \in Document

(* The window is on the screen exactly while the list says so and the window *)
(* exists: no path through Sync, Hide, Deactivate, Show from the application *)
(* or the loss of the owner leaves an orphan on the screen, or a list that   *)
(* is shown without its window although there is one.                        *)
VisibleIsShown == wnd.visible <=> list.shown /\ wnd.live

(* What is drawn is what is stored, unless a WM_PAINT is on its way: the     *)
(* rows are the current page of the present candidates and the highlighted   *)
(* row is the candidate Enter will commit, after every update, re-show and   *)
(* re-created window (UpdateCandidateList, Show, CandidateWndProc).          *)
PaintedIsCurrent ==
  wnd.visible /\ ~wnd.dirty =>
    /\ wnd.picture = Picture(list)
    /\ list.sel \in 0 .. Len(list.cands) - 1 =>
         /\ wnd.picture.highlighted # 0
         /\ wnd.picture.rows[wnd.picture.highlighted] = list.cands[list.sel + 1]

(* A visible window is beside the composition, unless the application still  *)
(* owes a layout notification, or the window was hidden and is shown again:  *)
(* Show places only a window it makes.  It takes OnLayoutChange, both edit   *)
(* sessions and Show together (TriggerPositionUpdate).                       *)
FollowsCaret ==
  wnd.visible /\ doc.composing /\ ~doc.owed => wnd.at = doc.caret \/ wnd.reused

(* An application that draws the list itself, reads the flags and then what  *)
(* they name, has the whole list once the flags are clear: however many      *)
(* updates come between two readings, the flags name all that changed        *)
(* (GetUpdatedFlags clears them).  It reads in one go, and it is the only    *)
(* reader; a second one would lose what the first has cleared.               *)
ListenerMirrors == flags = {} => copy = Content(list, pages)

(* The calls on the list, as TCodeIME makes them *)
Calls == INSTANCE ListCalls

(* ... are all that happens to it here, whatever the window, the layout and  *)
(* the reader do in between.                                                 *)
FollowsCalls == Calls!Spec

(* Once it has read what the flags name, an application that keeps to the    *)
(* pages it is given draws the rows our window draws and highlights the same *)
(* one: the starts of the pages, the current page and the selection, which   *)
(* SetCandidates stores apart and WM_PAINT works out anew, agree on every    *)
(* page, the last and a full one included.                                   *)
SameRows ==
  /\ flags = {}
  /\ copy.pageindex = PageStarts(copy.string)
  /\ list.sel \in 0 .. Len(list.cands) - 1
  => LET n == copy.currentpage + 1
         start == copy.pageindex[n]
         end == IF n + 1 \in DOMAIN copy.pageindex THEN copy.pageindex[n + 1] ELSE Len(copy.string)
     IN  /\ n \in DOMAIN copy.pageindex
         /\ SubSeq(copy.string, start + 1, end) = Picture(list).rows
         /\ copy.selection + 1 - start = Picture(list).highlighted
=============================================================================
