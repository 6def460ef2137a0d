----------------------- MODULE CandidateWindowProofs -----------------------
(***************************************************************************)
(* CandidateWindow for all lists, page sizes and places.                   *)
(*                                                                         *)
(* A window fits a document and a list when it is on the screen as the     *)
(* list says, shows the present page unless a WM_PAINT is on its way, and  *)
(* is beside the composition unless a notification is owed.  Every         *)
(* operation on windows leaves one that fits what it was given; an action  *)
(* composes them.                                                          *)
(***************************************************************************)
EXTENDS CandidateWindow, SequenceTheorems, TLAPS

Window ==
  [live: BOOLEAN, visible: BOOLEAN, dirty: BOOLEAN, picture: {Picture(l) : l \in ListState},
   at: Places \cup {Corner}, reused: BOOLEAN]

ShownAs(w, l) == w.visible <=> l.shown /\ w.live

Current(w, l) == w.visible /\ ~w.dirty => w.picture = Picture(l)

Beside(w, d) == w.visible /\ d.composing /\ ~d.owed => w.at = d.caret \/ w.reused

Fits(w, d, l) ==
  w \in Window /\ d \in Document /\ ShownAs(w, l) /\ Current(w, l) /\ Beside(w, d)

(* The list is on the page of its selection.                                 *)
OnItsPage(l) ==
  l \in ListState /\ (l.shown => l.elem) /\ (l.sel >= 0 => l.page = l.sel \div PageSize)

(* SetFlags sets all the flags, AppReads clears all.                          *)
FlagsInv == flags \in {{}, Fields} /\ ListenerMirrors /\ DOMAIN copy = Fields

PagesInv == \A n \in DOMAIN pages : pages[n] \in Nat

IInv == Fits(wnd, doc, list) /\ OnItsPage(list) /\ FlagsInv /\ PagesInv

-----------------------------------------------------------------------------
LEMMA PaintedFits ==
  ASSUME NEW w \in Window, NEW l \in ListState
  PROVE  /\ Painted(w, l) \in Window
         /\ Painted(w, l).visible = w.visible /\ Painted(w, l).live = w.live
         /\ Painted(w, l).at = w.at /\ Painted(w, l).reused = w.reused
         /\ Current(Painted(w, l), l)
  BY DEF Painted, Window, Current

LEMMA MoveToFits ==
  ASSUME NEW w \in Window, NEW p \in Places, NEW b \in BOOLEAN
  PROVE  /\ MoveTo(w, p, b) \in Window
         /\ MoveTo(w, p, b).visible = w.visible /\ MoveTo(w, p, b).live = w.live
         /\ MoveTo(w, p, b).picture = w.picture
         /\ w.dirty => MoveTo(w, p, b).dirty
         /\ w.live => MoveTo(w, p, b).at = p
  BY DEF MoveTo, Window

LEMMA TrackLayoutFits ==
  ASSUME NEW w \in Window, NEW d \in Document, NEW b \in BOOLEAN,
         NEW t \in TrackLayout(w, d, b)
  PROVE  /\ t.wnd \in Window /\ t.doc \in Document
         /\ t.wnd.visible = w.visible /\ t.wnd.live = w.live /\ t.wnd.picture = w.picture
         /\ w.dirty => t.wnd.dirty
         /\ w.live /\ t.doc.composing /\ ~t.doc.owed => t.wnd.at = t.doc.caret
<1>1. CASE ~d.composing
  BY <1>1 DEF TrackLayout, Document
<1>2. CASE d.composing
  <2>1. d.caret \in Places
    BY DEF Document
  <2>2. CASE t = [wnd |-> MoveTo(w, d.caret, b), doc |-> d]
    BY <2>1, <2>2, MoveToFits
  <2>3. CASE t = [wnd |-> w, doc |-> [d EXCEPT !.owed = TRUE]]
    BY <2>3 DEF Document
  <2> QED
    BY <1>2, <2>2, <2>3 DEF TrackLayout
<1> QED
  BY <1>1, <1>2 DEF Document

LEMMA HiddenFits ==
  ASSUME NEW w, NEW d, NEW l, Fits(w, d, l), NEW k, ~k.shown
  PROVE  Fits(Hidden(w), d, k)
  BY DEF Fits, Hidden, Window, ShownAs, Current, Beside

LEMMA NoWindowType ==
  /\ NoWindow \in Window /\ ~NoWindow.live /\ ~NoWindow.visible
  /\ [NoWindow EXCEPT !.live = TRUE] \in Window
  /\ [NoWindow EXCEPT !.live = TRUE].live
<1>1. NoList \in ListState
  <2>1. NoList.cands \in {Visible(l) : l \in CandidateLists} \cup {<<>>}
    BY DEF NoList
  <2> QED
    BY <2>1 DEF NoList, ListState
<1> QED
  BY <1>1 DEF NoWindow, Window

(* Show leaves a window that fits the list, from one that fitted some list.  *)
LEMMA ShowFits ==
  ASSUME NEW w, NEW d, NEW k, Fits(w, d, k), NEW l \in ListState,
         NEW s \in Show(w, d, l)
  PROVE  Fits(s.wnd, s.doc, l)
<1>1. CASE ~l.shown
  BY <1>1, HiddenFits DEF Show
<1>2. CASE l.shown /\ w.live
  <2> DEFINE v == [w EXCEPT !.visible = TRUE, !.reused = @ \/ ~w.visible]
  <2>1. v \in Window /\ v.visible /\ v.live /\ v.at = w.at /\ v.reused = (w.reused \/ ~w.visible)
    BY <1>2 DEF Fits, Window
  <2>2. s \in {[wnd |-> Painted(v, l), doc |-> d], [wnd |-> NoWindow, doc |-> d]}
    BY <1>2 DEF Show, ShowWindow
  <2> HIDE DEF v
  <2>3. s = [wnd |-> Painted(v, l), doc |-> d]
    BY <1>2, <2>2 DEF Show, ShowWindow, v
  <2> QED
    BY <1>2, <2>1, <2>3, PaintedFits DEF Fits, ShownAs, Beside
<1>3. CASE l.shown /\ ~w.live
  <2>1. CASE s = [wnd |-> NoWindow, doc |-> d]
    BY <2>1, NoWindowType DEF Fits, ShownAs, Current, Beside
  <2>2. ASSUME NEW t \in TrackLayout([NoWindow EXCEPT !.live = TRUE], d, TRUE),
               s = [wnd |-> Painted([t.wnd EXCEPT !.visible = TRUE], l), doc |-> t.doc]
        PROVE  Fits(s.wnd, s.doc, l)
    <3> DEFINE v == [t.wnd EXCEPT !.visible = TRUE]
    <3>1. /\ t.wnd \in Window /\ t.doc \in Document /\ t.wnd.live
          /\ t.doc.composing /\ ~t.doc.owed => t.wnd.at = t.doc.caret
      BY <2>2, NoWindowType, TrackLayoutFits DEF Fits
    <3>2. v \in Window /\ v.visible /\ v.live /\ v.at = t.wnd.at
      BY <3>1 DEF Window
    <3> HIDE DEF v
    <3>3. s.wnd = Painted(v, l) /\ s.doc = t.doc
      BY <2>2 DEF v
    <3> QED
      BY <1>3, <3>1, <3>2, <3>3, PaintedFits DEF Fits, ShownAs, Beside
  <2> QED
    BY <1>3, <2>1, <2>2 DEF Show, ShowWindow
<1> QED
  BY <1>1, <1>2, <1>3 DEF Fits, Window

(* The tail of an edit session keeps what is on the screen.                  *)
LEMMA EditSessionFits ==
  ASSUME NEW w, NEW d, Fits(w, d, list), list \in ListState, list.shown => list.elem,
         NEW e \in EditSession(w, d)
  PROVE  Fits(e.wnd, e.doc, list)
<1>1. CASE e = [wnd |-> w, doc |-> d]
  BY <1>1
<1>2. ASSUME NEW f \in Document, f.composing /\ list.elem => f.owed, e = [wnd |-> w, doc |-> f]
      PROVE  Fits(e.wnd, e.doc, list)
  BY <1>2 DEF Fits, ShownAs, Beside
<1>3. ASSUME NEW f \in Document, e = [wnd |-> MoveTo(w, f.caret, list.shown), doc |-> f]
      PROVE  Fits(e.wnd, e.doc, list)
  <2>1. f.caret \in Places /\ list.shown \in BOOLEAN
    BY DEF Document, ListState
  <2> QED
    BY <1>3, <2>1, MoveToFits DEF Fits, ShownAs, Current, Beside, Window
<1> QED
  BY <1>1, <1>2, <1>3 DEF EditSession

LEMMA UpdateKeepsPage ==
  ASSUME OnItsPage(list), NEW c \in CandidateLists, NEW i \in Nat,
         NEW l \in UpdateCandidateList(list, Visible(c), i)
  PROVE  /\ OnItsPage(l)
         /\ list.elem => l.shown = list.shown
         /\ ~list.elem /\ ~l.elem => ~l.shown
<1> DEFINE v == SetCandidates(list, Visible(c), i)
<1>1. i \div PageSize \in Nat
  BY PageAssumption
<1>2. /\ v.cands = Visible(c) /\ v.sel = i /\ v.page = i \div PageSize
      /\ v.elem = list.elem /\ v.shown = list.shown
  BY DEF SetCandidates, OnItsPage, ListState
<1>3. v \in ListState
  <2>1. Visible(c) \in {Visible(x) : x \in CandidateLists} \cup {<<>>}
    OBVIOUS
  <2>2. v = [elem |-> list.elem, shown |-> list.shown, cands |-> Visible(c), sel |-> i,
             page |-> i \div PageSize]
    <3>1. list = [elem |-> list.elem, shown |-> list.shown, cands |-> list.cands,
                  sel |-> list.sel, page |-> list.page]
      BY DEF OnItsPage, ListState
    <3>2. v = [list EXCEPT !.cands = Visible(c), !.sel = i, !.page = i \div PageSize]
      BY DEF SetCandidates
    <3> HIDE DEF v
    <3> QED
      BY <3>1, <3>2
  <2> QED
    BY <1>1, <2>1, <2>2 DEF OnItsPage, ListState
<1>7. OnItsPage(v)
  BY <1>2, <1>3 DEF OnItsPage
<1> HIDE DEF v
<1>4. CASE l = v
  BY <1>2, <1>7, <1>4 DEF OnItsPage
<1>5. ASSUME NEW b \in BOOLEAN, ~list.elem, l = [v EXCEPT !.elem = TRUE, !.shown = b]
      PROVE  OnItsPage(l) /\ l.elem
  BY <1>7, <1>5 DEF OnItsPage, ListState
<1> QED
  BY <1>4, <1>5 DEF UpdateCandidateList, v

LEMMA WindowFollowsFits ==
  ASSUME NEW w, NEW d, OnItsPage(list), Fits(w, d, list), NEW l, OnItsPage(l),
         list.elem => l.shown = list.shown, ~list.elem /\ ~l.elem => ~l.shown,
         NEW s \in WindowFollows(w, d, l)
  PROVE  Fits(s.wnd, s.doc, l)
<1>1. CASE list.elem
  BY <1>1, PaintedFits DEF WindowFollows, Fits, ShownAs, Beside, OnItsPage
<1>2. CASE ~list.elem /\ l.elem
  BY <1>2, ShowFits DEF WindowFollows, OnItsPage
<1>3. CASE ~list.elem /\ ~l.elem
  <2>1. ~w.visible /\ s = [wnd |-> w, doc |-> d] /\ ~l.shown
    BY <1>3 DEF WindowFollows, Fits, ShownAs, OnItsPage, ListState
  <2> QED
    BY <2>1 DEF Fits, ShownAs, Current, Beside
<1> QED
  BY <1>1, <1>2, <1>3

LEMMA UnlockedFits ==
  ASSUME NEW w, NEW d, NEW l, Fits(w, d, l), NEW u \in Unlocked(w, d)
  PROVE  Fits(u, d, l)
<1>1. CASE u = w
  BY <1>1
<1>2. CASE d.composing /\ u = MoveTo(w, d.caret, FALSE)
  <2>1. d.caret \in Places
    BY DEF Fits, Document
  <2>2. /\ u \in Window /\ u.visible = w.visible /\ u.live = w.live /\ u.picture = w.picture
        /\ w.dirty => u.dirty
        /\ w.live => u.at = d.caret
    BY <1>2, <2>1, MoveToFits DEF Fits
  <2> QED
    BY <2>2 DEF Fits, ShownAs, Current, Beside, Window
<1> QED
  BY <1>1, <1>2 DEF Unlocked

(* HideCandidateList, from Sync, Ctrl+/ and Deactivate.                       *)
LEMMA HideKeepsIInv ==
  ASSUME IInv, NEW w, NEW d, Fits(w, d, list),
         list' = HideCandidateList(list), wnd' = Hidden(w), doc' = d,
         UNCHANGED <<pages, flags, copy>>
  PROVE  IInv'
<1>1. OnItsPage(list)' /\ ~list'.shown
  BY DEF IInv, OnItsPage, ListState, HideCandidateList
<1>2. Fits(wnd, doc, list)'
  BY <1>1, HiddenFits
<1>3. FlagsInv' /\ PagesInv'
  BY DEF IInv, FlagsInv, PagesInv, ListenerMirrors, Content, HideCandidateList, OnItsPage, ListState
<1> QED
  BY <1>1, <1>2, <1>3 DEF IInv

LEMMA PagesAreNumbers ==
  ASSUME NEW c
  PROVE  \A n \in DOMAIN PageStarts(c) : PageStarts(c)[n] \in Nat
<1>1. \A n \in 1 .. (Len(c) + PageSize - 1) \div PageSize : (n - 1) * PageSize \in Nat
  <2> TAKE n \in 1 .. (Len(c) + PageSize - 1) \div PageSize
  <2>1. n - 1 \in Nat
    OBVIOUS
  <2> QED
    BY <2>1, PageAssumption
<1> QED
  BY <1>1 DEF PageStarts

LEMMA SyncKeepsIInv ==
  ASSUME IInv, NEW w, NEW d, Fits(w, d, list), NEW c \in CandidateLists, NEW i \in Nat,
         Sync(w, d, c, i)
  PROVE  IInv'
<1>1. CASE Visible(c) = <<>>
  BY <1>1, HideKeepsIInv DEF Sync
<1>2. CASE Visible(c) # <<>>
  <2>1. /\ list' \in UpdateCandidateList(list, Visible(c), i)
        /\ pages' = PageStarts(list'.cands) /\ flags' = Fields /\ copy' = copy
    BY <1>2 DEF Sync, SetFlags
  <2>2. PICK u \in Unlocked(w, d) :
          \E s \in WindowFollows(u, d, list') : wnd' = s.wnd /\ doc' = s.doc
    BY <1>2 DEF Sync
  <2>8. PICK s \in WindowFollows(u, d, list') : wnd' = s.wnd /\ doc' = s.doc
    BY <2>2
  <2>3. /\ OnItsPage(list')
        /\ list.elem => list'.shown = list.shown
        /\ ~list.elem /\ ~list'.elem => ~list'.shown
    BY <2>1, UpdateKeepsPage DEF IInv
  <2>4. Fits(u, d, list)
    BY UnlockedFits
  <2>5. Fits(s.wnd, s.doc, list')
    BY <2>3, <2>4, <2>8, WindowFollowsFits DEF IInv
  <2>9. Fits(wnd', doc', list')
    BY <2>5, <2>8
  <2>6. FlagsInv'
    BY <2>1 DEF IInv, FlagsInv, ListenerMirrors, Fields
  <2>7. PagesInv'
    BY <2>1, PagesAreNumbers DEF PagesInv
  <2> QED
    BY <2>3, <2>6, <2>7, <2>9 DEF IInv
<1> QED
  BY <1>1, <1>2

(* The steps that change the window and the document alone.                  *)
LEMMA WindowStepKeepsIInv ==
  ASSUME IInv, Fits(wnd', doc', list), UNCHANGED <<list, pages, flags, copy>>
  PROVE  IInv'
  BY DEF IInv, FlagsInv, PagesInv, ListenerMirrors

LEMMA OnLayoutChangeKeepsIInv == IInv /\ OnLayoutChange => IInv'
<1> SUFFICES ASSUME IInv, OnLayoutChange
             PROVE  Fits(wnd', doc', list)
  BY WindowStepKeepsIInv DEF OnLayoutChange
<1> DEFINE d == [doc EXCEPT !.owed = FALSE]
<1>1. d \in Document /\ d.composing = doc.composing /\ d.caret = doc.caret
  BY DEF IInv, Fits, Document
<1>2. CASE list.elem /\ list.shown
  <2>1. PICK t \in TrackLayout(wnd, d, TRUE) : wnd' = t.wnd /\ doc' = t.doc
    BY <1>2 DEF OnLayoutChange
  <2> HIDE DEF d
  <2>2. /\ t.wnd \in Window /\ t.doc \in Document
        /\ t.wnd.visible = wnd.visible /\ t.wnd.live = wnd.live /\ t.wnd.picture = wnd.picture
        /\ wnd.dirty => t.wnd.dirty
        /\ wnd.live /\ t.doc.composing /\ ~t.doc.owed => t.wnd.at = t.doc.caret
    BY <1>1, TrackLayoutFits DEF IInv, Fits
  <2> QED
    BY <2>1, <2>2 DEF IInv, Fits, ShownAs, Current, Beside, Window
<1>3. CASE ~(list.elem /\ list.shown)
  <2>1. ~wnd.visible /\ wnd' = wnd /\ doc' = d
    BY <1>3 DEF OnLayoutChange, IInv, Fits, ShownAs, OnItsPage
  <2> QED
    BY <1>1, <2>1 DEF IInv, Fits, ShownAs, Current, Beside
<1> QED
  BY <1>2, <1>3

LEMMA AppShowsKeepsIInv == IInv /\ AppShows => IInv'
<1> SUFFICES ASSUME IInv, AppShows
             PROVE  IInv'
  OBVIOUS
<1>1. PICK b \in BOOLEAN : list' = [list EXCEPT !.shown = b]
  BY DEF AppShows
<1>2. PICK s \in Show(wnd, doc, list') : wnd' = s.wnd /\ doc' = s.doc
  BY DEF AppShows
<1>3. OnItsPage(list') /\ list' \in ListState
  BY <1>1 DEF AppShows, IInv, OnItsPage, ListState
<1>4. Fits(wnd', doc', list')
  BY <1>2, <1>3, ShowFits DEF IInv
<1>5. FlagsInv' /\ PagesInv'
  BY <1>1 DEF AppShows, IInv, FlagsInv, PagesInv, ListenerMirrors, Content, OnItsPage, ListState
<1> QED
  BY <1>3, <1>4, <1>5 DEF IInv

LEMMA AppReadsKeepsIInv == IInv /\ AppReads => IInv'
<1> SUFFICES ASSUME IInv, AppReads
             PROVE  IInv'
  OBVIOUS
<1>1. flags = Fields
  BY DEF AppReads, IInv, FlagsInv
<1>2. copy' = [f \in Fields |-> Content(list, pages)[f]] /\ DOMAIN copy' = Fields
  BY <1>1 DEF AppReads
<1>3. copy' = Content(list, pages)
  BY <1>2 DEF Content, Fields
<1> QED
  BY <1>2, <1>3 DEF AppReads, IInv, FlagsInv, PagesInv, ListenerMirrors

LEMMA AppSetsPagesKeepsIInv == IInv /\ AppSetsPages => IInv'
<1> SUFFICES ASSUME IInv, AppSetsPages
             PROVE  IInv'
  OBVIOUS
<1>1. flags = {} => copy' = Content(list, <<0>>)
  BY DEF AppSetsPages, IInv, FlagsInv, ListenerMirrors, Content
<1>2. DOMAIN copy' = Fields /\ PagesInv'
  BY DEF AppSetsPages, IInv, FlagsInv, PagesInv
<1> QED
  BY <1>1, <1>2 DEF AppSetsPages, IInv, FlagsInv, ListenerMirrors

LEMMA InitIInv == Init => IInv
<1> SUFFICES ASSUME Init
             PROVE  IInv
  OBVIOUS
<1>1. Fits(wnd, doc, list)
  BY NoWindowType DEF Init, Fits, Document, ShownAs, Current, Beside
<1>2. OnItsPage(list)
  <2>1. NoList.cands \in {Visible(l) : l \in CandidateLists} \cup {<<>>}
    BY DEF NoList
  <2> QED
    BY <2>1 DEF Init, OnItsPage, ListState, NoList
<1>3. FlagsInv /\ PagesInv
  BY DEF Init, FlagsInv, PagesInv, ListenerMirrors, Content, Fields
<1> QED
  BY <1>1, <1>2, <1>3 DEF IInv

LEMMA NextKeepsIInv == IInv /\ [Next]_vars => IInv'
<1> SUFFICES ASSUME IInv, [Next]_vars
             PROVE  IInv'
  OBVIOUS
<1>1. list \in ListState /\ (list.shown => list.elem) /\ Fits(wnd, doc, list)
  BY DEF IInv, OnItsPage
<1>2. CASE OnKeyDown
  <2>1. PICK c \in CandidateLists, i \in 0 .. MaxIndex, e \in EditSession(wnd, doc) :
          Sync(e.wnd, e.doc, c, i)
    BY <1>2 DEF OnKeyDown
  <2>2. i \in Nat
    BY PlacesAssumption
  <2> QED
    BY <1>1, <2>1, <2>2, EditSessionFits, SyncKeepsIInv
<1>3. CASE MoveInflection
  BY <1>1, <1>3, EditSessionFits, WindowStepKeepsIInv DEF MoveInflection
<1>4. CASE Hide
  BY <1>1, <1>4, HideKeepsIInv DEF Hide
<1>5. CASE OnLayoutChange
  BY <1>5, OnLayoutChangeKeepsIInv
<1>6. CASE CaretMoves
  <2>1. Fits(wnd', doc', list)
    BY <1>1, <1>6 DEF CaretMoves, Fits, Document, Beside
  <2> QED
    BY <1>6, <2>1, WindowStepKeepsIInv DEF CaretMoves
<1>7. CASE OnCompositionTerminated
  <2>1. Fits(wnd', doc', list)
    BY <1>1, <1>7 DEF OnCompositionTerminated, Fits, Document, Beside
  <2> QED
    BY <1>7, <2>1, WindowStepKeepsIInv DEF OnCompositionTerminated
<1>8. CASE AppShows
  BY <1>8, AppShowsKeepsIInv
<1>9. CASE AppReads
  BY <1>9, AppReadsKeepsIInv
<1>10. CASE AppSetsPages
  BY <1>10, AppSetsPagesKeepsIInv
<1>11. CASE OwnerDestroyed
  <2>1. Fits(wnd', doc', list)
    BY <1>1, <1>11, NoWindowType DEF OwnerDestroyed, Fits, ShownAs, Current, Beside
  <2> QED
    BY <1>11, <2>1, WindowStepKeepsIInv DEF OwnerDestroyed
<1>12. CASE OnPaint
  <2>1. Fits(wnd', doc', list)
    BY <1>1, <1>12, PaintedFits DEF OnPaint, Fits, ShownAs, Beside
  <2> QED
    BY <1>12, <2>1, WindowStepKeepsIInv DEF OnPaint
<1>13. CASE UNCHANGED vars
  BY <1>13 DEF vars, IInv, PagesInv, FlagsInv, ListenerMirrors
<1> QED
  BY <1>2, <1>3, <1>4, <1>5, <1>6, <1>7, <1>8, <1>9, <1>10, <1>11, <1>12, <1>13 DEF Next

LEMMA Invariance == Spec => []IInv
  BY InitIInv, NextKeepsIInv, PTL DEF Spec

LEMMA Division ==
  ASSUME NEW i \in Nat, NEW n \in Nat \ {0}
  PROVE  /\ (i \div n) * n \in Nat /\ (i \div n) * n <= i
         /\ i < (i \div n) * n + n
  OBVIOUS

(* On its own page a selection in range is a row, and that row is it.        *)
LEMMA SelectedIsHighlighted ==
  ASSUME NEW l, OnItsPage(l), NEW S, l.cands \in Seq(S),
         l.sel \in 0 .. Len(l.cands) - 1
  PROVE  /\ Picture(l).highlighted # 0
         /\ Picture(l).rows[Picture(l).highlighted] = l.cands[l.sel + 1]
<1> DEFINE n == Len(l.cands)
           start == l.page * PageSize
           end == IF start + PageSize > n THEN n ELSE start + PageSize
<1>1. l.sel \in Nat /\ l.page = l.sel \div PageSize /\ n \in Nat /\ l.sel < n
  BY DEF OnItsPage, ListState
<1>2. start \in Nat /\ start <= l.sel /\ l.sel < start + PageSize
  BY <1>1, Division, PageAssumption
<1> HIDE DEF start
<1>3. l.sel + 1 \in start + 1 .. end /\ end \in Nat /\ end <= n
  BY <1>1, <1>2, PageAssumption
<1>4. /\ Picture(l).rows = SubSeq(l.cands, start + 1, end)
      /\ Picture(l).highlighted = l.sel + 1 - start
  BY <1>3 DEF Picture, start
<1>5. SubSeq(l.cands, start + 1, end)[l.sel + 1 - start] = l.cands[l.sel + 1]
  <2> DEFINE m == start + 1
             k == l.sel + 1 - start
  <2>1. m \in Int /\ k \in 1 .. end - m + 1 /\ m + k - 1 = l.sel + 1
    BY ONLY <1>1, <1>2, <1>3
  <2>2. \A i \in m .. end : l.cands[i] \in S
    <3>1. \A i \in m .. end : i \in 1 .. n
      BY ONLY <1>1, <1>2, <1>3
    <3> QED
      BY ONLY <3>1, l.cands \in Seq(S)
  <2> HIDE DEF m, k, end
  <2>3. SubSeq(l.cands, m, end)[k] = l.cands[m + k - 1]
    BY ONLY <1>3, <2>1, <2>2, SubSeqProperties
  <2> QED
    BY <2>1, <2>3 DEF m, k
<1>6. l.sel + 1 - start # 0
  BY ONLY <1>1, <1>2
<1> HIDE DEF end
<1> QED
  BY ONLY <1>4, <1>5, <1>6

(* The pages tile the list: the index i is on the page after i \div PageSize *)
(* others, and that page ends where the next one starts or with the list.    *)
LEMMA Product ==
  ASSUME NEW m \in Nat, NEW k \in Nat, m <= k, NEW s \in Nat
  PROVE  m * s <= k * s
  OBVIOUS

LEMMA PagesTile ==
  ASSUME NEW n \in Nat, NEW i \in 0 .. n - 1
  PROVE  LET last == (n + PageSize - 1) \div PageSize
             page == i \div PageSize
         IN  /\ last \in Nat /\ page \in Nat
             /\ page + 1 <= last
             /\ page + 2 <= last => page * PageSize + PageSize <= n
             /\ last < page + 2 => n <= page * PageSize + PageSize
<1> DEFINE last == (n + PageSize - 1) \div PageSize
           page == i \div PageSize
<1>1. PageSize \in Nat \ {0} /\ n \in Nat /\ i \in Nat /\ i < n
  BY PageAssumption
<1>2. last \in Nat /\ last * PageSize <= n + PageSize - 1 /\ n + PageSize - 1 < last * PageSize + PageSize
  <2>1. n + PageSize - 1 \in Nat
    BY <1>1
  <2> QED
    BY <1>1, <2>1, Division
<1>3. page \in Nat /\ page * PageSize <= i /\ i < page * PageSize + PageSize
  BY <1>1, Division
<1> HIDE DEF last, page
<1> DEFINE P(m) == m * PageSize
<1>4. \A m \in Nat : P(m) \in Nat /\ P(m + 1) = P(m) + PageSize
  BY ONLY <1>1
<1>5. \A m, k \in Nat : m <= k => P(m) <= P(k)
  BY ONLY <1>1, Product
<1>6. /\ P(last) <= n + PageSize - 1 /\ n + PageSize - 1 < P(last) + PageSize
      /\ P(page) <= i /\ i < P(page) + PageSize
  BY <1>2, <1>3
<1> HIDE DEF P
<1>7. P(page + 1) = P(page) + PageSize /\ P(page + 2) = P(page) + PageSize + PageSize
  <2>1. page + 1 \in Nat /\ (page + 1) + 1 = page + 2
    BY <1>3
  <2>2. P(page + 1) = P(page) + PageSize /\ P((page + 1) + 1) = P(page + 1) + PageSize
    BY <1>3, <1>4, <2>1
  <2> QED
    BY ONLY <1>1, <1>3, <1>4, <2>1, <2>2
<1>8. page + 1 <= last
  <2> SUFFICES ASSUME last <= page PROVE FALSE
    BY <1>2, <1>3
  <2>1. P(last) <= P(page)
    BY <1>2, <1>3, <1>5
  <2> QED
    BY <1>1, <1>2, <1>3, <1>4, <1>6, <2>1
<1>9. ASSUME page + 2 <= last PROVE P(page) + PageSize <= n
  <2>1. P(page + 2) <= P(last)
    BY <1>2, <1>3, <1>5, <1>9
  <2> QED
    BY <1>1, <1>2, <1>3, <1>4, <1>6, <1>7, <2>1
<1>10. ASSUME last < page + 2 PROVE n <= P(page) + PageSize
  <2>1. P(last) <= P(page + 1)
    BY <1>2, <1>3, <1>5, <1>10
  <2> QED
    BY <1>1, <1>2, <1>3, <1>4, <1>6, <1>7, <2>1
<1> QED
  BY <1>2, <1>3, <1>8, <1>9, <1>10 DEF last, page, P

-----------------------------------------------------------------------------
(* Every variable has its type, and a list is shown only while its element   *)
(* is registered. *)
THEOREM TypeCorrect == Spec => []TypeOK
<1>1. IInv => TypeOK
  <2> SUFFICES ASSUME IInv
               PROVE  TypeOK
    OBVIOUS
  <2>1. wnd.visible => wnd.live
    BY DEF IInv, Fits, ShownAs
  <2>2. wnd.at \in Places \cup {Corner} /\ doc \in Document
    BY DEF IInv, Fits, Window
  <2>3. list \in ListState /\ (list.shown => list.elem)
    BY DEF IInv, OnItsPage
  <2>4. flags \subseteq Fields /\ DOMAIN copy = Fields /\ PagesInv
    BY DEF IInv, FlagsInv
  <2> QED
    BY <2>1, <2>2, <2>3, <2>4 DEF TypeOK, PagesInv
<1> QED
  BY <1>1, Invariance, PTL

(* The window is on the screen exactly while its list is shown (Show,        *)
(* HideCandidateList, UpdateCandidateList), for every list and page size.    *)
THEOREM ListDecidesVisibility == Spec => []VisibleIsShown
<1>1. IInv => VisibleIsShown
  BY DEF IInv, Fits, ShownAs, VisibleIsShown
<1> QED
  BY <1>1, Invariance, PTL

(* What is painted is the present page with the present selection. *)
THEOREM PaintKeepsUp == Spec => []PaintedIsCurrent
<1>1. IInv => PaintedIsCurrent
  <2> SUFFICES ASSUME IInv, wnd.visible, ~wnd.dirty
               PROVE  /\ wnd.picture = Picture(list)
                      /\ list.sel \in 0 .. Len(list.cands) - 1 =>
                           /\ Picture(list).highlighted # 0
                           /\ Picture(list).rows[Picture(list).highlighted] = list.cands[list.sel + 1]
    BY DEF PaintedIsCurrent
  <2>1. wnd.picture = Picture(list)
    BY DEF IInv, Fits, Current
  <2>2. PICK S : list.cands \in Seq(S)
    <3>1. list.cands \in {Visible(l) : l \in CandidateLists} \cup {<<>>}
      BY DEF IInv, OnItsPage, ListState
    <3>2. CASE list.cands = <<>>
      BY <3>2
    <3>3. CASE list.cands \in {Visible(l) : l \in CandidateLists}
      BY <3>3, VisibleAssumption
    <3> QED
      BY <3>1, <3>2, <3>3
  <2> QED
    BY <2>1, <2>2, SelectedIsHighlighted DEF IInv
<1> QED
  BY <1>1, Invariance, PTL

(* The window stays beside the composition (OnLayoutChange, the edit         *)
(* sessions and Show together). *)
THEOREM StaysBesideCaret == Spec => []FollowsCaret
<1>1. IInv => FollowsCaret
  BY DEF IInv, Fits, Beside, FollowsCaret
<1> QED
  BY <1>1, Invariance, PTL

(* A single reader of the flags has the whole list when they are clear. *)
THEOREM ReaderKeepsUp == Spec => []ListenerMirrors
<1>1. IInv => ListenerMirrors
  BY DEF IInv, FlagsInv
<1> QED
  BY <1>1, Invariance, PTL

(* An application that draws the list from what it has read draws what our   *)
(* window draws, for every list, page size and selection in range.           *)
THEOREM ReaderDrawsTheSame == Spec => []SameRows
<1>1. IInv => SameRows
  <2> DEFINE n == Len(list.cands)
             starts == PageStarts(list.cands)
             page == list.page
             next == page * PageSize + PageSize
             last == (n + PageSize - 1) \div PageSize
  <2> SUFFICES ASSUME IInv, flags = {}, copy.pageindex = PageStarts(copy.string),
                      list.sel \in 0 .. n - 1
               PROVE  LET end == IF page + 2 \in DOMAIN starts THEN starts[page + 2] ELSE n
                      IN  /\ page + 1 \in DOMAIN starts
                          /\ SubSeq(list.cands, starts[page + 1] + 1, end) = Picture(list).rows
                          /\ list.sel + 1 - starts[page + 1] = Picture(list).highlighted
    <3>1. ASSUME IInv, flags = {}, copy.pageindex = PageStarts(copy.string), list.sel \in 0 .. n - 1
          PROVE  /\ copy.string = list.cands /\ copy.selection = list.sel
                 /\ copy.currentpage = page /\ copy.pageindex = starts
                 /\ (page + 1) + 1 = page + 2
      BY <3>1 DEF IInv, FlagsInv, ListenerMirrors, Content, OnItsPage, ListState
    <3> HIDE DEF starts, n, page
    <3> QED
      BY <3>1 DEF SameRows, n
  <2>1. n \in Nat /\ page = list.sel \div PageSize
    BY DEF IInv, OnItsPage, ListState
  <2>2. last \in Nat /\ DOMAIN starts = 1 .. last
    BY <2>1, PagesTile DEF PageStarts
  <2>3. \A m \in DOMAIN starts : starts[m] = (m - 1) * PageSize
    BY DEF PageStarts
  <2>4. /\ page \in Nat /\ page + 1 <= last
        /\ page + 2 <= last => next <= n
        /\ last < page + 2 => n <= next
    BY <2>1, PagesTile
  <2>5. Picture(list).rows = SubSeq(list.cands, page * PageSize + 1, IF next > n THEN n ELSE next)
    BY DEF Picture
  <2>6. list.sel + 1 \in page * PageSize + 1 .. (IF next > n THEN n ELSE next)
    <3>1. list.sel \in Nat
      BY <2>1
    <3>2. /\ (list.sel \div PageSize) * PageSize \in Nat
          /\ (list.sel \div PageSize) * PageSize <= list.sel
          /\ list.sel < (list.sel \div PageSize) * PageSize + PageSize
      BY ONLY <3>1, Division, PageAssumption
    <3>3. page * PageSize \in Nat /\ page * PageSize <= list.sel /\ list.sel < next
      BY <2>1, <3>2
    <3>4. next \in Nat /\ n \in Nat /\ list.sel < n
      BY <2>1, <3>3, PageAssumption
    <3> DEFINE first == page * PageSize
    <3>5. first \in Nat /\ first <= list.sel
      BY ONLY <3>3
    <3> HIDE DEF first, next, n
    <3>6. list.sel + 1 \in first + 1 .. (IF next > n THEN n ELSE next)
      BY ONLY <3>1, <3>3, <3>4, <3>5
    <3> QED
      BY ONLY <3>6 DEF first
  <2>7. Picture(list).highlighted = list.sel + 1 - page * PageSize
    BY <2>6 DEF Picture
  <2> HIDE DEF starts, last
  <2>8. page + 1 \in DOMAIN starts /\ starts[page + 1] = page * PageSize
    BY <2>2, <2>3, <2>4
  <2>9. (IF page + 2 \in DOMAIN starts THEN starts[page + 2] ELSE n) = IF next > n THEN n ELSE next
    <3>1. next \in Nat /\ ((page + 2) - 1) * PageSize = next
      BY <2>4, PageAssumption
    <3>2. CASE page + 2 <= last
      <4>1. page + 2 \in DOMAIN starts /\ starts[page + 2] = next
        BY <2>2, <2>3, <2>4, <3>1, <3>2
      <4> QED
        BY <2>1, <2>4, <3>1, <3>2, <4>1
    <3>3. CASE last < page + 2
      <4>1. page + 2 \notin DOMAIN starts
        BY <2>2, <2>4, <3>3
      <4> QED
        BY <2>1, <2>4, <3>1, <3>3, <4>1
    <3> QED
      BY <2>2, <2>4, <3>2, <3>3
  <2> HIDE DEF next, n
  <2> QED
    BY <2>5, <2>7, <2>8, <2>9
<1> QED
  BY <1>1, Invariance, PTL
-----------------------------------------------------------------------------
(* The calls on the candidate list: what the actions do to the list, in the *)
(* words of ListCalls.                                                       *)

LEMMA SameOperators ==
  /\ Calls!NoList = NoList
  /\ \A l \in CandidateLists : Calls!Visible(l) = Visible(l)
  /\ \A u : Calls!HideCandidateList(u) = HideCandidateList(u)
  /\ \A u, c, i : Calls!UpdateCandidateList(u, c, i) = UpdateCandidateList(u, c, i)
<1>1. Calls!NoList = NoList
  BY DEF Calls!NoList, NoList
<1>2. \A l \in CandidateLists : Calls!Visible(l) = Visible(l)
  BY DEF Calls!Visible, Visible, Calls!NotBlank, NotBlank
<1>3. \A u : Calls!HideCandidateList(u) = HideCandidateList(u)
  BY DEF Calls!HideCandidateList, HideCandidateList
<1>4. \A u, c, i : Calls!UpdateCandidateList(u, c, i) = UpdateCandidateList(u, c, i)
  BY DEF Calls!UpdateCandidateList, UpdateCandidateList, Calls!SetCandidates, SetCandidates
<1> QED
  BY <1>1, <1>2, <1>3, <1>4

(* Hiding a list without an element changes nothing.                         *)
LEMMA HidingIsACall ==
  ASSUME list \in ListState, list.shown => list.elem, list' = HideCandidateList(list)
  PROVE  [Calls!Next]_list
<1>1. CASE list.elem
  BY <1>1, SameOperators DEF Calls!Next, Calls!Hide
<1>2. CASE ~list.elem
  <2>1. list.elem = FALSE /\ list.shown = FALSE
    BY <1>2 DEF ListState
  <2>2. list' = list
    BY <2>1 DEF HideCandidateList, ListState
  <2> QED
    BY <2>2
<1> QED
  BY <1>1, <1>2

LEMMA SetStores ==
  ASSUME NEW u \in ListState, NEW c, NEW i, NEW v \in UpdateCandidateList(u, c, i)
  PROVE  v.cands = c /\ v.sel = i
<1> DEFINE w == SetCandidates(u, c, i)
<1>1. DOMAIN w = {"elem", "shown", "cands", "sel", "page"} /\ w.cands = c /\ w.sel = i
  BY DEF SetCandidates, ListState
<1>2. v = w \/ \E b \in BOOLEAN : v = [w EXCEPT !.elem = TRUE, !.shown = b]
  BY DEF UpdateCandidateList
<1> HIDE DEF w
<1> QED
  BY <1>1, <1>2

LEMMA UpdatingIsACall ==
  ASSUME list \in ListState, NEW c \in CandidateLists, Visible(c) # <<>>, NEW i \in Nat,
         list' \in UpdateCandidateList(list, Visible(c), i)
  PROVE  Calls!Next
<1>1. list'.cands = Visible(c) /\ list'.sel = i
  BY SetStores
<1>2. list'.cands \in {Calls!Visible(l) : l \in CandidateLists} \ {<<>>}
  BY <1>1, SameOperators
<1>3. list' \in Calls!UpdateCandidateList(list, list'.cands, list'.sel)
  BY <1>1, SameOperators
<1> QED
  BY <1>1, <1>2, <1>3 DEF Calls!Next, Calls!Update

LEMMA ShowingIsACall ==
  ASSUME list.elem, NEW b \in BOOLEAN, list' = [list EXCEPT !.shown = b]
  PROVE  Calls!Next
BY DEF Calls!Next, Calls!AppShows

(* Refinement: whatever becomes of the window and of the reader's copy, the  *)
(* list changes by calls that ListCalls allows, and by nothing else.         *)
THEOREM FollowsTheCalls == Spec => FollowsCalls
<1>1. Init => Calls!Init
  BY SameOperators DEF Init, Calls!Init
<1>2. IInv /\ [Next]_vars => [Calls!Next]_list
  <2> SUFFICES ASSUME IInv, [Next]_vars
               PROVE  [Calls!Next]_list
    OBVIOUS
  <2>1. list \in ListState /\ (list.shown => list.elem)
    BY DEF IInv, OnItsPage
  <2>2. CASE OnKeyDown
    <3>1. PICK c \in CandidateLists, i \in 0 .. MaxIndex :
            \/ Visible(c) = <<>> /\ list' = HideCandidateList(list)
            \/ Visible(c) # <<>> /\ list' \in UpdateCandidateList(list, Visible(c), i)
      BY <2>2 DEF OnKeyDown, Sync
    <3>2. i \in Nat
      BY PlacesAssumption
    <3> QED
      BY <2>1, <3>1, <3>2, HidingIsACall, UpdatingIsACall
  <2>3. CASE Hide
    BY <2>1, <2>3, HidingIsACall DEF Hide
  <2>4. CASE AppShows
    BY <2>4, ShowingIsACall DEF AppShows
  <2>5. CASE \/ MoveInflection \/ OnLayoutChange \/ CaretMoves \/ OnCompositionTerminated
             \/ AppReads \/ AppSetsPages \/ OwnerDestroyed \/ OnPaint
    BY <2>5 DEF MoveInflection, OnLayoutChange, CaretMoves, OnCompositionTerminated,
       AppReads, AppSetsPages, OwnerDestroyed, OnPaint
  <2>6. CASE UNCHANGED vars
    BY <2>6 DEF vars
  <2> QED
    BY <2>2, <2>3, <2>4, <2>5, <2>6 DEF Next
<1> QED
  BY <1>1, <1>2, Invariance, PTL DEF Spec, FollowsCalls, Calls!Spec
=============================================================================
