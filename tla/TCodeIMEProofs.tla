--------------------------- MODULE TCodeIMEProofs ---------------------------
(***************************************************************************)
(* What holds of TCodeIME for every value of its constants: whatever the   *)
(* candidate lists, the documents, the bounds, the faults, and whether or  *)
(* not other programs use the engine.                                      *)
(***************************************************************************)
EXTENDS TCodeIME, TLAPS

-----------------------------------------------------------------------------
(* The engine's answers. *)

LEMMA NoElements == \A S : <<>> \in Seq(S)
OBVIOUS

LEMMA OfferType ==
  ASSUME NEW S \in SUBSET EngineState
  PROVE  Offer(S) \subseteq Answer
<1> SUFFICES ASSUME NEW t \in S, NEW l \in CandidateLists
             PROVE  [srv |-> [t EXCEPT !.cands = l], ok |-> TRUE] \in Answer
  BY DEF Offer, Bounded
<1>1. [t EXCEPT !.cands = l] \in EngineState
  BY DEF EngineState
<1> QED
  BY <1>1 DEF Answer

LEMMA FinishType ==
  ASSUME NEW s \in EngineState
  PROVE  Finish(s) \in EngineState
<1>1. Append(s.out, s.made + 1) \in Seq(Nat) /\ s.made + 1 \in Nat
  BY DEF EngineState
<1>2. [s EXCEPT !.out = Append(@, s.made + 1)] \in EngineState
  BY <1>1 DEF EngineState
<1> QED
  BY <1>1, <1>2 DEF Finish, EngineState

LEMMA ButLastType ==
  ASSUME NEW S, NEW s \in Seq(S), s # <<>>
  PROVE  ButLast(s) \in Seq(S)
BY DEF ButLast

LEMMA EngineTypes ==
  ASSUME NEW s \in EngineState
  PROVE  /\ EnginePut(s) \subseteq Answer
         /\ EngineBackspace(s) \subseteq Answer
         /\ EngineInflect(s) \subseteq Answer
         /\ EngineConvert(s) \subseteq Answer
         /\ \A n : EngineSelect(n, s) \subseteq Answer
         /\ EngineReset(s) \subseteq Answer
         /\ EngineCommit(s) \in EngineState
         /\ EngineSteps(s) \subseteq EngineState
<1>1. EnginePut(s) \subseteq Answer
  <2> DEFINE stroked == [s EXCEPT !.key = FALSE]
  <2>1. [s EXCEPT !.key = TRUE] \in EngineState
    BY DEF EngineState
  <2>2. stroked \in EngineState
    BY DEF EngineState
  <2>3. Finish(stroked) \in EngineState
    BY <2>2, FinishType
  <2>4. [stroked EXCEPT !.buffer = Append(@, Kana)] \in EngineState
    <3>1. Append(stroked.buffer, Kana) \in Seq({Kana})
      BY <2>2 DEF EngineState
    <3> QED
      BY <2>2, <3>1 DEF EngineState
  <2> QED
    BY <2>1, <2>2, <2>3, <2>4, OfferType DEF EnginePut
<1>2. EngineBackspace(s) \subseteq Answer
  <2>1. [s EXCEPT !.key = FALSE] \in EngineState
    BY DEF EngineState
  <2>2. s.buffer # <<>> => [s EXCEPT !.buffer = ButLast(@)] \in EngineState
    BY ButLastType DEF EngineState
  <2>3. s.out # <<>> => [s EXCEPT !.out = ButLast(@)] \in EngineState
    BY ButLastType DEF EngineState
  <2> QED
    BY <2>1, <2>2, <2>3, OfferType DEF EngineBackspace
<1>3. EngineInflect(s) \subseteq Answer
  BY OfferType DEF EngineInflect
<1>4. EngineConvert(s) \subseteq Answer
  <2>1. [Finish(s) EXCEPT !.buffer = <<>>] \in EngineState
    BY FinishType, NoElements DEF EngineState
  <2> QED
    BY <2>1, OfferType DEF EngineConvert
<1>5. ASSUME NEW n PROVE EngineSelect(n, s) \subseteq Answer
  <2>1. \A t \in Bounded({Finish(s)}) : [t EXCEPT !.buffer = <<>>, !.cands = <<>>] \in EngineState
    <3> SUFFICES ASSUME NEW t \in EngineState
                 PROVE  [t EXCEPT !.buffer = <<>>, !.cands = <<>>] \in EngineState
      BY FinishType DEF Bounded
    <3> QED
      BY NoElements, EngineAssumption DEF EngineState
  <2>2. \A t \in Bounded({Finish(s)}) :
          [srv |-> [t EXCEPT !.buffer = <<>>, !.cands = <<>>], ok |-> TRUE] \in Answer
    BY <2>1 DEF Answer
  <2>3. [srv |-> s, ok |-> FALSE] \in Answer
    BY DEF Answer
  <2> QED
    BY <2>2, <2>3, Zenon DEF EngineSelect
<1>6. EngineReset(s) \subseteq Answer
  BY NoElements, EngineAssumption DEF EngineReset, EmptyEngine, Answer, EngineState
<1>7. EngineCommit(s) \in EngineState
  BY NoElements DEF EngineCommit, EngineState
<1>8. EngineSteps(s) \subseteq EngineState
  BY <1>1, <1>2, <1>4, <1>6, <1>7 DEF EngineSteps, Answer
<1> QED
  BY <1>1, <1>2, <1>3, <1>4, <1>5, <1>6, <1>7, <1>8

-----------------------------------------------------------------------------
(* The client's calls: typed, and the cache is empty or fits the engine. *)

Fits(r, s) ==
  r # NoResponse =>
    /\ r.buffer = s.buffer
    /\ r.candidates = s.cands
    /\ (r.lastCharAsKey = "Some") <=> s.key

LEMMA NoResponseType == NoResponse \in Response
BY NoElements, EngineAssumption DEF NoResponse, Response

LEMMA ReplyFits ==
  ASSUME NEW a \in Answer
  PROVE  Reply(a) \in Response /\ Fits(Reply(a), a.srv)
BY DEF Reply, Response, Answer, EngineState, Fits

LEMMA SendFits ==
  ASSUME NEW s \in EngineState, NEW answers \in SUBSET Answer, NEW c \in Send(answers, s)
  PROVE  c \in Call /\ Fits(c.last, c.srv)
<1>1. CASE \E a \in answers : c = [srv |-> a.srv, last |-> Reply(a), threw |-> FALSE]
  BY <1>1, ReplyFits DEF Call, Answer
<1>2. CASE c = [srv |-> s, last |-> NoResponse, threw |-> TRUE]
  BY <1>2, NoResponseType DEF Call, Fits
<1>3. CASE \E a \in answers : c = [srv |-> a.srv, last |-> NoResponse, threw |-> TRUE]
  BY <1>3, NoResponseType DEF Call, Fits, Answer
<1> QED
  BY <1>1, <1>2, <1>3 DEF Send

LEMMA CaughtFits ==
  ASSUME NEW s \in EngineState, NEW answers \in SUBSET Answer,
         NEW c \in Caught(Send(answers, s))
  PROVE  c \in Call /\ Fits(c.last, c.srv)
<1>1. PICK d \in Send(answers, s) : c = [d EXCEPT !.threw = FALSE]
  BY DEF Caught
<1>2. d \in Call /\ Fits(d.last, d.srv)
  BY SendFits
<1> QED
  BY <1>1, <1>2 DEF Call

LEMMA CallsFit ==
  ASSUME NEW s \in EngineState
  PROVE  /\ \A c \in ExecutePut(s) : c \in Call /\ Fits(c.last, c.srv)
         /\ \A n : \A c \in Select(n, s) : c \in Call /\ Fits(c.last, c.srv)
         /\ \A c \in Reset(s) : c \in Call /\ Fits(c.last, c.srv)
         /\ \A command \in {"backspace", "convert", "left", "right"} :
              \A c \in ExecuteCommand(command, s) : c \in Call /\ Fits(c.last, c.srv)
<1>1. \A c \in ExecutePut(s) : c \in Call /\ Fits(c.last, c.srv)
  BY EngineTypes, CaughtFits DEF ExecutePut
<1>2. ASSUME NEW n PROVE \A c \in Select(n, s) : c \in Call /\ Fits(c.last, c.srv)
  <2>1. EngineSelect(n, s) \subseteq Answer
    BY EngineTypes
  <2> QED
    BY <2>1, CaughtFits DEF Select
<1>3. \A c \in Reset(s) : c \in Call /\ Fits(c.last, c.srv)
  BY EngineTypes, CaughtFits DEF Reset
<1>4. ASSUME NEW command \in {"backspace", "convert", "left", "right"},
             NEW c \in ExecuteCommand(command, s)
      PROVE  c \in Call /\ Fits(c.last, c.srv)
  <2>1. CASE command = "backspace"
    BY <2>1, EngineTypes, SendFits DEF ExecuteCommand
  <2>2. CASE command = "convert"
    BY <2>2, EngineTypes, SendFits DEF ExecuteCommand
  <2>3. CASE command \in {"left", "right"}
    BY <2>3, EngineTypes, SendFits DEF ExecuteCommand
  <2> QED
    BY <2>1, <2>2, <2>3
<1> QED
  BY <1>1, <1>2, <1>3, <1>4

-----------------------------------------------------------------------------
(* Edit sessions: whatever they do to a document, it stays one. *)

LEMMA GlyphSequences ==
  /\ \A s \in Seq(Nat) : s \in Seq(Glyph)
  /\ \A s \in Seq({Kana}) : s \in Seq(Glyph)
  /\ \A s, t \in Seq(Glyph) : s \o t \in Seq(Glyph)
BY DEF Glyph

LEMMA ResponseText ==
  ASSUME NEW r \in Response
  PROVE  /\ Composition(r) \in Seq(Glyph)
         /\ r.buffer \in Seq(Glyph)
         /\ r.outputBuffer \in Seq(Glyph)
         /\ r.outputBuffer \o GetLastKey(r) \in Seq(Glyph)
<1>1. r.buffer \in Seq(Glyph) /\ r.outputBuffer \in Seq(Glyph)
  BY GlyphSequences DEF Response
<1>2. GetLastKey(r) \in Seq(Glyph)
  <2>1. \A glyph \in Glyph : <<glyph>> \in Seq(Glyph)
    OBVIOUS
  <2>2. KeyMark \in Glyph /\ BadMark \in Glyph
    BY DEF Glyph
  <2> QED
    BY <2>1, <2>2, NoElements DEF GetLastKey
<1> QED
  BY <1>1, <1>2, GlyphSequences DEF Composition

LEMMA NoCompositionType ==
  NoComposition \in [ctx: Contexts \cup {NoContext}, text: Seq(Glyph)]
BY NoElements DEF NoComposition

LEMMA InsertType ==
  ASSUME NEW t \in TextState, NEW c, NEW s \in Seq(Glyph)
  PROVE  Insert(t, c, s) \in TextState
<1>1. c \in Contexts => t.doc[c] \o s \in Seq(Glyph)
  BY GlyphSequences DEF TextState
<1>2. [t.doc EXCEPT ![c] = @ \o s] \in [Contexts -> Seq(Glyph)]
  BY <1>1 DEF TextState
<1> QED
  BY <1>2 DEF Insert, TextState

LEMMA ClearType ==
  ASSUME NEW t \in TextState
  PROVE  [t EXCEPT !.composition = NoComposition] \in TextState
BY NoCompositionType DEF TextState

LEMMA ReleaseType ==
  ASSUME NEW t \in TextState
  PROVE  Release(t) \in TextState
<1>1. t.composition.text \in Seq(Glyph)
  BY DEF TextState
<1> QED
  BY <1>1, InsertType, ClearType DEF Release

LEMMA OrphanType ==
  ASSUME NEW t \in TextState, t.composition.ctx # NoContext
  PROVE  Orphan(t) \in TextState
<1>1. Release(t) \in TextState
  BY ReleaseType
<1>2. t.composition.ctx \in Contexts
  BY DEF TextState
<1> QED
  BY <1>1, <1>2 DEF Orphan, TextState

LEMMA DoEditSessionType ==
  ASSUME NEW t \in TextState, NEW c \in Contexts,
         NEW committed \in Seq(Glyph), NEW composition \in Seq(Glyph)
  PROVE  DoEditSession(t, c, committed, composition) \in TextState
<1>1. \A u \in TextState : Elsewhere(u, c) => Orphan(u) \in TextState
  BY OrphanType DEF Elsewhere
<1>2. CommitText(t, c, committed) \in TextState
  BY <1>1, InsertType, ClearType DEF CommitText
<1>3. \A u \in TextState : WipeComposition(u, c) \in TextState
  BY <1>1, ClearType DEF WipeComposition
<1>4. \A u \in TextState : StartComposition(u, c, composition) \in TextState
  BY DEF StartComposition, TextState
<1> QED
  BY <1>2, <1>3, <1>4 DEF DoEditSession

(* An edit session that is not denied does what DoEditSession does, for each *)
(* of the two texts or for none in its place.                                *)
LEMMA EditOutcomes ==
  ASSUME NEW t, NEW c, NEW committed, NEW composition,
         NEW e \in RequestEditSession(t, c, committed, composition)
  PROVE  /\ e.crashed \in BOOLEAN
         /\ \/ e.text = t /\ "editDenied" \in Faults
            \/ \E kept \in {committed, <<>>}, shown \in {composition, <<>>} :
                 /\ e.text = DoEditSession(t, c, kept, shown)
                 /\ kept = committed \/ Faults # {}
         /\ \E u : e = [text |-> u, crashed |-> e.crashed]
<1>1. \A kept \in PlacedCommit(t, committed) :
        kept \in {committed, <<>>} /\ (kept = committed \/ Faults # {})
  BY DEF PlacedCommit, Placed
<1>2. \A shown \in Placed(composition) : shown \in {composition, <<>>}
  BY DEF Placed
<1>3. CASE \E kept \in PlacedCommit(t, committed), shown \in Placed(composition) :
             e = [text |-> DoEditSession(t, c, kept, shown), crashed |-> FALSE]
  <2>1. PICK kept \in PlacedCommit(t, committed), shown \in Placed(composition) :
          e = [text |-> DoEditSession(t, c, kept, shown), crashed |-> FALSE]
    BY <1>3
  <2>2. e.text = DoEditSession(t, c, kept, shown) /\ e.crashed = FALSE
    BY <2>1
  <2> QED
    BY <1>1, <1>2, <2>1, <2>2
<1>4. CASE "editDenied" \in Faults /\ e = [text |-> t, crashed |-> FALSE]
  BY <1>4
<1>5. CASE \E kept \in PlacedCommit(t, committed) :
             e = [text |-> DoEditSession(t, c, kept, <<>>), crashed |-> TRUE]
  <2>1. PICK kept \in PlacedCommit(t, committed) :
          e = [text |-> DoEditSession(t, c, kept, <<>>), crashed |-> TRUE]
    BY <1>5
  <2>2. e.text = DoEditSession(t, c, kept, <<>>) /\ e.crashed = TRUE
    BY <2>1
  <2> QED
    BY <1>1, <2>1, <2>2
<1> QED
  BY <1>3, <1>4, <1>5 DEF RequestEditSession

LEMMA RequestEditSessionType ==
  ASSUME NEW t \in TextState, NEW c \in Contexts,
         NEW committed \in Seq(Glyph), NEW composition \in Seq(Glyph),
         NEW e \in RequestEditSession(t, c, committed, composition)
  PROVE  e \in [text: TextState, crashed: BOOLEAN]
<1>1. \A kept \in {committed, <<>>}, shown \in {composition, <<>>} :
        DoEditSession(t, c, kept, shown) \in TextState
  BY DoEditSessionType, NoElements
<1>2. e.text \in TextState /\ e.crashed \in BOOLEAN
  BY <1>1, EditOutcomes
<1>3. \E u : e = [text |-> u, crashed |-> e.crashed]
  BY EditOutcomes
<1> QED
  BY <1>2, <1>3

LEMMA TerminationType ==
  ASSUME NEW t \in TextState
  PROVE  /\ OnCompositionTerminated(t) \in TextState
         /\ \A c : OnOrphanTerminated(t, c) \in TextState
<1>1. OnCompositionTerminated(t) \in TextState
  BY ReleaseType DEF OnCompositionTerminated
<1>2. {t.composition.ctx} \ {NoContext} \subseteq Contexts
  BY DEF TextState
<1> QED
  BY <1>1, <1>2 DEF OnOrphanTerminated, TextState

-----------------------------------------------------------------------------
(* The candidate window: SyncCandidateList leaves it typed and current. *)

Current(u, r, i) ==
  u.elem =>
    /\ u.cands = Visible(r.candidates)
    /\ u.cands # <<>>
    /\ u.sel = i
    /\ u.page = i \div PageSize

LEMMA SyncCurrent ==
  ASSUME NEW u \in ListState, NEW r \in Response, NEW i \in Nat,
         NEW v \in SyncCandidateList(u, r, i)
  PROVE  /\ v \in ListState
         /\ Current(v, r, i)
         /\ (u.shown => u.elem) => (v.shown => v.elem)
<1> DEFINE shown == Visible(r.candidates)
<1>1. CASE shown = <<>>
  BY <1>1 DEF SyncCandidateList, HideCandidateList, ListState, Current
<1>2. CASE shown # <<>>
  <2> DEFINE w == SetCandidates(u, shown, i)
  <2>1. shown \in {Visible(l) : l \in CandidateLists}
    BY DEF Response
  <2>2. i \div PageSize \in Nat
    BY PageAssumption
  <2>3. /\ w \in ListState
        /\ w.elem = u.elem /\ w.shown = u.shown
        /\ w.cands = shown /\ w.sel = i /\ w.page = i \div PageSize
    <3>1. i >= 0
      OBVIOUS
    <3>2. w = [u EXCEPT !.cands = shown, !.sel = i, !.page = i \div PageSize]
      BY <3>1 DEF SetCandidates
    <3> HIDE DEF w, shown
    <3> QED
      BY <2>1, <2>2, <3>2 DEF ListState
  <2>4. v = w \/ \E bShow \in BOOLEAN : v = [w EXCEPT !.elem = TRUE, !.shown = bShow]
    BY <1>2 DEF SyncCandidateList, UpdateCandidateList
  <2> HIDE DEF w, shown
  <2>5. CASE v = w
    BY <1>2, <2>3, <2>5 DEF Current, shown
  <2>6. CASE \E bShow \in BOOLEAN : v = [w EXCEPT !.elem = TRUE, !.shown = bShow]
    BY <1>2, <2>3, <2>6 DEF Current, ListState, shown
  <2> QED
    BY <2>4, <2>5, <2>6
<1> QED
  BY <1>1, <1>2

LEMMA HideCurrent ==
  ASSUME NEW u \in ListState
  PROVE  /\ HideCandidateList(u) \in ListState
         /\ ~HideCandidateList(u).elem
         /\ ~HideCandidateList(u).shown
BY DEF HideCandidateList, ListState

-----------------------------------------------------------------------------
(* The parts that several handlers share. *)

LEMMA ShowAndSyncStep ==
  ASSUME TypeOK, NEW committed \in Seq(Glyph), NEW composition \in Seq(Glyph),
         NEW r \in Response, NEW i \in Nat,
         ShowAndSync(committed, composition, r, i)
  PROVE  /\ text' \in TextState
         /\ alive' \in BOOLEAN
         /\ list' \in ListState
         /\ alive' => Current(list', r, i)
         /\ (list.shown => list.elem) => (list'.shown => list'.elem)
<1>1. PICK e \in RequestEditSession(text, focus, committed, composition) :
        /\ text' = e.text
        /\ alive' = ~e.crashed
        /\ list' \in IF e.crashed THEN {list} ELSE SyncCandidateList(list, r, i)
  BY DEF ShowAndSync
<1>2. e \in [text: TextState, crashed: BOOLEAN]
  BY RequestEditSessionType DEF TypeOK
<1>3. CASE e.crashed
  BY <1>1, <1>2, <1>3 DEF TypeOK
<1>4. CASE ~e.crashed
  BY <1>1, <1>2, <1>4, SyncCurrent DEF TypeOK
<1> QED
  BY <1>2, <1>3, <1>4

LEMMA CommitFits ==
  ASSUME NEW s \in EngineState, NEW r \in Response, Fits(r, s), NEW d \in Commit(s)
  PROVE  d.srv \in EngineState /\ d.output \in Seq(Nat) /\ Fits(r, d.srv)
<1>1. /\ EngineCommit(s) \in EngineState
      /\ EngineCommit(s).buffer = s.buffer
      /\ EngineCommit(s).cands = s.cands
      /\ EngineCommit(s).key = s.key
  BY EngineTypes DEF EngineCommit, EngineState
<1>2. s.out \in Seq(Nat) /\ <<>> \in Seq(Nat)
  BY NoElements DEF EngineState
<1>3. d \in {[srv |-> EngineCommit(s), output |-> s.out], [srv |-> s, output |-> <<>>],
             [srv |-> EngineCommit(s), output |-> <<>>]}
  BY DEF Commit
<1>4. /\ d.srv \in {EngineCommit(s), s}
      /\ d.output \in {s.out, <<>>}
  BY <1>3
<1>5. Fits(r, EngineCommit(s))
  BY <1>1 DEF Fits
<1> QED
  BY <1>1, <1>2, <1>4, <1>5

LEMMA CommitAndShowStep ==
  ASSUME TypeOK, NEW s \in EngineState, NEW composition \in Seq(Glyph),
         NEW r \in Response, Fits(r, s), NEW i \in Nat,
         CommitAndShow(s, composition, r, i)
  PROVE  /\ srv' \in EngineState
         /\ outside' \in BOOLEAN
         /\ ~outside' => Fits(r, srv')
         /\ text' \in TextState
         /\ alive' \in BOOLEAN
         /\ list' \in ListState
         /\ alive' => Current(list', r, i)
         /\ (list.shown => list.elem) => (list'.shown => list'.elem)
<1>1. PICK m \in Meanwhile(s) : \E d \in Commit(m) :
        /\ srv' = d.srv
        /\ outside' = (m # s)
        /\ ShowAndSync(d.output, composition, r, i)
  BY DEF CommitAndShow
<1>2. PICK d \in Commit(m) :
        /\ srv' = d.srv
        /\ outside' = (m # s)
        /\ ShowAndSync(d.output, composition, r, i)
  BY <1>1
<1>3. m \in EngineState
  BY EngineTypes DEF Meanwhile
<1>4. d.srv \in EngineState /\ d.output \in Seq(Glyph)
  <2>1. Fits(NoResponse, m)
    BY DEF Fits
  <2> QED
    BY <1>3, <2>1, CommitFits, NoResponseType, GlyphSequences
<1>5. m = s => Fits(r, d.srv)
  BY CommitFits
<1> QED
  BY <1>2, <1>4, <1>5, ShowAndSyncStep

LEMMA CommandAndShowStep ==
  ASSUME TypeOK, NEW command \in {"backspace", "convert"}, CommandAndShow(command)
  PROVE  /\ srv' \in EngineState
         /\ outside' \in BOOLEAN
         /\ last' \in Response
         /\ Fits(last', srv')
         /\ text' \in TextState
         /\ alive' \in BOOLEAN
         /\ list' \in ListState
         /\ alive' => Current(list', last', sel)
         /\ (list.shown => list.elem) => (list'.shown => list'.elem)
<1>1. PICK c \in ExecuteCommand(command, srv) :
        /\ srv' = c.srv
        /\ outside' = FALSE
        /\ last' = c.last
        /\ IF c.threw
             THEN alive' = FALSE /\ UNCHANGED <<text, list>>
             ELSE ShowAndSync(c.last.outputBuffer, Composition(c.last), c.last, sel)
  BY DEF CommandAndShow
<1>2. c \in Call /\ Fits(c.last, c.srv)
  BY CallsFit DEF TypeOK
<1>3. c.last \in Response /\ c.srv \in EngineState /\ c.threw \in BOOLEAN
  BY <1>2 DEF Call
<1>4. CASE c.threw
  BY <1>1, <1>2, <1>3, <1>4 DEF TypeOK
<1>5. CASE ~c.threw
  <2>1. c.last.outputBuffer \in Seq(Glyph) /\ Composition(c.last) \in Seq(Glyph)
    BY <1>3, ResponseText
  <2>2. sel \in Nat
    BY DEF TypeOK
  <2> QED
    BY <1>1, <1>2, <1>3, <1>5, <2>1, <2>2, ShowAndSyncStep
<1> QED
  BY <1>3, <1>4, <1>5

-----------------------------------------------------------------------------
(* The inductive invariant: the four properties, two of them restated with   *)
(* the operators of the lemmas.                                              *)
IInv ==
  /\ TypeOK
  /\ alive => Current(list, last, sel)
  /\ ElementHasThreadMgr
  /\ ~outside => Fits(last, srv)

LEMMA IInvImplies == IInv => CandidateWindowCurrent /\ CacheCoherent
BY DEF IInv, CandidateWindowCurrent, CacheCoherent, Current, Fits

LEMMA InitIInv == Init => IInv
<1> SUFFICES ASSUME Init PROVE IInv
  OBVIOUS
<1>1. TypeOK
  <2>1. srv \in EngineState
    BY NoElements, EngineAssumption DEF Init, EmptyEngine, EngineState
  <2>2. text \in TextState
    BY NoElements, NoCompositionType DEF Init, BlankText, TextState
  <2>3. list \in ListState
    BY DEF Init, NoList, ListState
  <2> QED
    BY <2>1, <2>2, <2>3, NoResponseType DEF Init, TypeOK, Modes
<1> QED
  BY <1>1 DEF Init, NoList, Current, Fits, IInv, ElementHasThreadMgr

(***************************************************************************)
(* One lemma per group of actions.  A key handler runs only while active   *)
(* and alive, which makes two of the parts trivial; the rest is that the   *)
(* window is synchronised with the cache the handler leaves behind.        *)
(***************************************************************************)
LEMMA TestedKey ==
  ASSUME NEW k, OnTestKeyDown(k)
  PROVE  alive /\ active
BY DEF OnTestKeyDown

LEMMA CharKeyStep == IInv /\ OnCharKey => IInv'
<1> SUFFICES ASSUME IInv, OnCharKey PROVE IInv'
  OBVIOUS
<1>1. TypeOK /\ alive /\ active /\ (list.shown => list.elem)
  BY TestedKey DEF OnCharKey, IInv, ElementHasThreadMgr
<1>2. PICK c \in ExecutePut(srv) :
        /\ last' = c.last
        /\ IF IsOutputBufferEmpty(c.last)
             THEN /\ srv' = c.srv
                  /\ outside' = FALSE
                  /\ ShowAndSync(<<>>, Composition(c.last), c.last, sel)
             ELSE CommitAndShow(c.srv, Composition(c.last), c.last, sel)
  BY DEF OnCharKey
<1>3. /\ c.last \in Response /\ c.srv \in EngineState /\ Fits(c.last, c.srv)
      /\ Composition(c.last) \in Seq(Glyph)
      /\ <<>> \in Seq(Glyph)
      /\ sel \in Nat
  <2>1. c \in Call /\ Fits(c.last, c.srv)
    BY <1>1, CallsFit DEF TypeOK
  <2> QED
    BY <1>1, <2>1, ResponseText, NoElements DEF Call, TypeOK
<1>4. /\ srv' \in EngineState
      /\ outside' \in BOOLEAN
      /\ ~outside' => Fits(last', srv')
      /\ text' \in TextState
      /\ alive' \in BOOLEAN
      /\ list' \in ListState
      /\ alive' => Current(list', last', sel)
      /\ list'.shown => list'.elem
  <2>1. CASE IsOutputBufferEmpty(c.last)
    BY <1>1, <1>2, <1>3, <2>1, ShowAndSyncStep
  <2>2. CASE ~IsOutputBufferEmpty(c.last)
    BY <1>1, <1>2, <1>3, <2>2, CommitAndShowStep
  <2> QED
    BY <2>1, <2>2
<1>5. UNCHANGED <<active, mode, focus, sel>> /\ last' \in Response
  BY <1>2, <1>3 DEF OnCharKey
<1>6. TypeOK'
  BY <1>1, <1>4, <1>5 DEF TypeOK
<1> QED
  BY <1>1, <1>4, <1>5, <1>6 DEF IInv, ElementHasThreadMgr

LEMMA CommandStep ==
  ASSUME IInv, alive /\ active, UNCHANGED <<active, mode, focus, sel>>,
         NEW command \in {"backspace", "convert"}, CommandAndShow(command)
  PROVE  IInv'
<1>1. TypeOK /\ (list.shown => list.elem)
  BY DEF IInv, ElementHasThreadMgr
<1>2. /\ srv' \in EngineState
      /\ outside' \in BOOLEAN
      /\ last' \in Response
      /\ Fits(last', srv')
      /\ text' \in TextState
      /\ alive' \in BOOLEAN
      /\ list' \in ListState
      /\ alive' => Current(list', last', sel)
      /\ list'.shown => list'.elem
  BY <1>1, CommandAndShowStep
<1>3. TypeOK'
  BY <1>1, <1>2 DEF TypeOK
<1> QED
  BY <1>1, <1>2, <1>3 DEF IInv, ElementHasThreadMgr

LEMMA NextCandidateStep == IInv /\ NextCandidate => IInv'
<1> SUFFICES ASSUME IInv, NextCandidate PROVE IInv'
  OBVIOUS
<1>1. alive /\ active
  BY TestedKey DEF NextCandidate
<1>2. sel' \in Nat
  BY DEF NextCandidate, IInv, TypeOK
<1>3. list' \in ListState /\ Current(list', last, sel') /\ (list'.shown => list'.elem)
  BY <1>2, SyncCurrent DEF NextCandidate, IInv, TypeOK, ElementHasThreadMgr
<1> QED
  BY <1>1, <1>2, <1>3 DEF NextCandidate, IInv, TypeOK, ElementHasThreadMgr

LEMMA MoveSelectionStep ==
  ASSUME IInv, NEW k \in Arrows \cup {"next", "prior"}, MoveSelection(k)
  PROVE  IInv'
<1>1. alive /\ active
  BY TestedKey DEF MoveSelection
<1>2. sel' \in Nat
  <2>1. Moved(k) \in Int
    BY PageAssumption DEF Moved, Arrows, IInv, TypeOK
  <2>2. Len(last.candidates) \in Nat /\ Len(last.candidates) > 0
    BY EngineAssumption DEF MoveSelection, HasCandidates, IInv, TypeOK, Response
  <2> QED
    BY <2>1, <2>2 DEF MoveSelection, Clamp
<1>3. list' \in ListState /\ Current(list', last, sel') /\ (list'.shown => list'.elem)
  BY <1>2, SyncCurrent DEF MoveSelection, IInv, TypeOK, ElementHasThreadMgr
<1> QED
  BY <1>1, <1>2, <1>3 DEF MoveSelection, IInv, TypeOK, ElementHasThreadMgr

(* Left and Right do not synchronise the window, but none is open then.      *)
LEMMA MoveInflectionStep ==
  ASSUME IInv, NEW k \in {"left", "right"}, MoveInflection(k)
  PROVE  IInv'
<1>1. TypeOK /\ alive /\ active /\ Current(list, last, sel) /\ (list.shown => list.elem)
  BY TestedKey DEF MoveInflection, IInv, ElementHasThreadMgr
<1>2. list' = list /\ ~list.elem
  BY <1>1, VisibleAssumption DEF MoveInflection, HasCandidates, Current
<1>3. PICK c \in ExecuteCommand(k, srv) :
        /\ srv' = c.srv
        /\ outside' = FALSE
        /\ last' = c.last
        /\ IF c.threw
             THEN alive' = FALSE /\ UNCHANGED text
             ELSE \E e \in RequestEditSession(text, focus, c.last.outputBuffer \o GetLastKey(c.last),
                                              c.last.buffer) :
                    text' = e.text /\ alive' = ~e.crashed
  BY DEF MoveInflection
<1>4. c \in Call /\ Fits(c.last, c.srv)
  BY <1>1, CallsFit DEF TypeOK
<1>5. text' \in TextState /\ alive' \in BOOLEAN
  <2>1. CASE c.threw
    BY <1>1, <1>3, <2>1 DEF TypeOK
  <2>2. CASE ~c.threw
    <3>1. /\ c.last.outputBuffer \o GetLastKey(c.last) \in Seq(Glyph)
          /\ c.last.buffer \in Seq(Glyph)
      BY <1>4, ResponseText DEF Call
    <3>2. PICK e \in RequestEditSession(text, focus, c.last.outputBuffer \o GetLastKey(c.last),
                                         c.last.buffer) :
            text' = e.text /\ alive' = ~e.crashed
      BY <1>3, <2>2
    <3>3. text \in TextState /\ focus \in Contexts
      BY <1>1 DEF TypeOK
    <3>4. e \in [text: TextState, crashed: BOOLEAN]
      BY <3>1, <3>2, <3>3, RequestEditSessionType
    <3> QED
      BY <3>2, <3>4
  <2> QED
    BY <2>1, <2>2
<1>6. TypeOK'
  BY <1>1, <1>2, <1>3, <1>4, <1>5 DEF MoveInflection, TypeOK, Call
<1> QED
  BY <1>1, <1>2, <1>3, <1>4, <1>6 DEF IInv, ElementHasThreadMgr, Current

LEMMA AcceptCandidateStep == IInv /\ AcceptCandidate => IInv'
<1> SUFFICES ASSUME IInv, AcceptCandidate PROVE IInv'
  OBVIOUS
<1>1. TypeOK /\ alive /\ active /\ (list.shown => list.elem)
  BY TestedKey DEF AcceptCandidate, IInv, ElementHasThreadMgr
<1>2. PICK c \in Select(sel, srv) :
        /\ last' = c.last
        /\ IF c.last.commandSucceed
             THEN CommitAndShow(c.srv, <<>>, c.last, 0)
             ELSE /\ srv' = c.srv
                  /\ outside' = FALSE
                  /\ list' \in SyncCandidateList(list, c.last, 0)
                  /\ UNCHANGED <<alive, text>>
  BY DEF AcceptCandidate
<1>3. /\ c.last \in Response /\ c.srv \in EngineState /\ Fits(c.last, c.srv)
      /\ <<>> \in Seq(Glyph)
  <2>1. c \in Call /\ Fits(c.last, c.srv)
    BY <1>1, CallsFit DEF TypeOK
  <2> QED
    BY <2>1, NoElements DEF Call
<1>4. /\ srv' \in EngineState
      /\ outside' \in BOOLEAN
      /\ ~outside' => Fits(last', srv')
      /\ text' \in TextState
      /\ alive' \in BOOLEAN
      /\ list' \in ListState
      /\ alive' => Current(list', last', 0)
      /\ list'.shown => list'.elem
  <2>1. CASE c.last.commandSucceed
    BY <1>1, <1>2, <1>3, <2>1, CommitAndShowStep
  <2>2. CASE ~c.last.commandSucceed
    BY <1>1, <1>2, <1>3, <2>2, SyncCurrent DEF TypeOK
  <2> QED
    BY <2>1, <2>2
<1>5. UNCHANGED <<active, mode, focus>> /\ sel' = 0 /\ last' \in Response
  BY <1>2, <1>3 DEF AcceptCandidate
<1>6. TypeOK'
  BY <1>1, <1>4, <1>5 DEF TypeOK
<1> QED
  BY <1>1, <1>4, <1>5, <1>6 DEF IInv, ElementHasThreadMgr

LEMMA ToggleToDirectStep == IInv /\ ToggleToDirect => IInv'
<1> SUFFICES ASSUME IInv, ToggleToDirect PROVE IInv'
  OBVIOUS
<1>1. TypeOK
  BY DEF IInv
<1>2. text' \in TextState
  <2>1. CASE text' = text
    BY <1>1, <2>1 DEF TypeOK
  <2>2. ASSUME NEW e \in RequestEditSession(text, focus, <<>>, <<>>), text' = e.text
        PROVE  text' \in TextState
    <3>1. text \in TextState /\ focus \in Contexts /\ <<>> \in Seq(Glyph)
      BY <1>1, NoElements DEF TypeOK
    <3>2. e \in [text: TextState, crashed: BOOLEAN]
      BY <3>1, RequestEditSessionType
    <3> QED
      BY <2>2, <3>2
  <2> QED
    BY <2>1, <2>2 DEF ToggleToDirect
<1>3. srv' \in EngineState /\ last' \in Response /\ Fits(last', srv')
  BY <1>1, CallsFit DEF ToggleToDirect, TypeOK, Call
<1>4. list' \in ListState /\ ~list'.elem /\ ~list'.shown
  BY <1>1, HideCurrent DEF ToggleToDirect, TypeOK
<1>5. TypeOK'
  BY <1>1, <1>2, <1>3, <1>4 DEF ToggleToDirect, TypeOK, Modes
<1> QED
  BY <1>3, <1>4, <1>5 DEF IInv, ElementHasThreadMgr, Current

(* The actions that leave the cache and the selection alone.                 *)
LEMMA OtherSteps ==
  /\ IInv /\ ToggleToTcode => IInv'
  /\ IInv /\ ToggleInputMode => IInv'
  /\ IInv /\ Deactivate => IInv'
  /\ IInv /\ ActivateEx => IInv'
  /\ IInv /\ FocusMoves => IInv'
  /\ IInv /\ AppTerminatesComposition => IInv'
  /\ IInv /\ AppTerminatesOrphan => IInv'
  /\ IInv /\ AppShowsList => IInv'
  /\ IInv /\ OtherProgram => IInv'
  /\ IInv /\ UNCHANGED vars => IInv'
<1> USE DEF IInv, TypeOK, ElementHasThreadMgr
<1>1. IInv /\ ToggleToTcode => IInv'
  BY DEF ToggleToTcode, Modes
<1>2. IInv /\ ToggleInputMode => IInv'
  BY DEF ToggleInputMode, Modes
<1>3. IInv /\ Deactivate => IInv'
  <2> SUFFICES ASSUME IInv, Deactivate PROVE IInv'
    OBVIOUS
  <2>1. list' \in ListState /\ ~list'.elem /\ ~list'.shown
    BY HideCurrent DEF Deactivate
  <2> QED
    BY <2>1 DEF Deactivate, Current
<1>4. IInv /\ ActivateEx => IInv'
  BY DEF ActivateEx, Modes
<1>5. IInv /\ FocusMoves => IInv'
  BY DEF FocusMoves
<1>6. IInv /\ AppTerminatesComposition => IInv'
  BY TerminationType DEF AppTerminatesComposition
<1>7. IInv /\ AppTerminatesOrphan => IInv'
  BY TerminationType DEF AppTerminatesOrphan
<1>8. IInv /\ AppShowsList => IInv'
  <2> SUFFICES ASSUME IInv, AppShowsList PROVE IInv'
    OBVIOUS
  <2>1. /\ list' \in ListState
        /\ list'.elem = list.elem /\ list'.cands = list.cands
        /\ list'.sel = list.sel /\ list'.page = list.page
    BY DEF AppShowsList, ListState
  <2> QED
    BY <2>1 DEF AppShowsList, Current
<1>9. IInv /\ OtherProgram => IInv'
  BY EngineTypes DEF OtherProgram
<1>10. IInv /\ UNCHANGED vars => IInv'
  BY DEF vars
<1> QED
  BY <1>1, <1>2, <1>3, <1>4, <1>5, <1>6, <1>7, <1>8, <1>9, <1>10

LEMMA NextIInv == IInv /\ [Next]_vars => IInv'
<1> SUFFICES ASSUME IInv, [Next]_vars PROVE IInv'
  OBVIOUS
<1>1. CASE OnCharKey
  BY <1>1, CharKeyStep
<1>2. CASE OnBackspace
  BY <1>2, CommandStep, TestedKey DEF OnBackspace
<1>3. CASE Convert
  BY <1>3, CommandStep, TestedKey DEF Convert
<1>4. CASE NextCandidate
  BY <1>4, NextCandidateStep
<1>5. ASSUME NEW k \in Arrows \cup {"next", "prior"}, MoveSelection(k) PROVE IInv'
  BY <1>5, MoveSelectionStep
<1>6. ASSUME NEW k \in {"left", "right"}, MoveInflection(k) PROVE IInv'
  BY <1>6, MoveInflectionStep
<1>7. CASE AcceptCandidate
  BY <1>7, AcceptCandidateStep
<1>8. CASE ToggleToDirect
  BY <1>8, ToggleToDirectStep
<1> QED
  BY <1>1, <1>2, <1>3, <1>4, <1>5, <1>6, <1>7, <1>8, OtherSteps DEF Next

THEOREM Invariance == Spec => []IInv
BY InitIInv, NextIInv, PTL DEF Spec

(* Type correctness: no callback, fault or other program makes the service   *)
(* keep a malformed cache, selection, window or document.                    *)
THEOREM TypeCorrect == Spec => []TypeOK
<1>1. IInv => TypeOK
  BY DEF IInv
<1> QED
  BY <1>1, Invariance, PTL

(* A registered candidate element always shows the candidates of the last    *)
(* answer and the selection that Return will send.                           *)
THEOREM WindowIsCurrent == Spec => []CandidateWindowCurrent
BY IInvImplies, Invariance, PTL

(* HideCandidateList never dereferences a null thread manager, and no        *)
(* visible window is without an element.                                     *)
THEOREM ElementOutlived == Spec => []ElementHasThreadMgr
<1>1. IInv => ElementHasThreadMgr
  BY DEF IInv
<1> QED
  BY <1>1, Invariance, PTL

(* Until another program uses the engine, the cache is empty or right,       *)
(* whatever requests and replies are lost.                                   *)
THEOREM CacheIsCoherent == Spec => []CacheCoherent
BY IInvImplies, Invariance, PTL

(* If no candidate is blank, Return selects what the window highlights: the  *)
(* window shows the cache, and the cache agrees with the engine.             *)
THEOREM ReturnSelectsHighlighted ==
  ASSUME \A l \in CandidateLists : Visible(l) = l
  PROVE  Spec => []HighlightedIsSelected
<1>1. IInv => HighlightedIsSelected
  <2> SUFFICES ASSUME IInv, alive, list.elem, ~outside, sel + 1 \in 1 .. Len(list.cands)
               PROVE  list.cands = srv.cands
    BY DEF HighlightedIsSelected
  <2>1. list.cands = last.candidates /\ list.cands # <<>>
    BY DEF IInv, Current, TypeOK, Response
  <2>2. last # NoResponse
    <3>1. NoResponse.candidates = <<>>
      BY DEF NoResponse
    <3> QED
      BY <2>1, <3>1
  <2> QED
    BY <2>1, <2>2 DEF IInv, Fits
<1> QED
  BY <1>1, Invariance, PTL
-----------------------------------------------------------------------------
(* The calls on the candidate list: what the handlers do to the list, in the *)
(* words of ListCalls.                                                       *)

LEMMA SameOperators ==
  /\ Calls!NoList = NoList
  /\ \A l \in CandidateLists : Calls!Visible(l) = Visible(l)
  /\ \A u : Calls!HideCandidateList(u) = HideCandidateList(u)
  /\ \A u, c, i : Calls!UpdateCandidateList(u, c, i) = UpdateCandidateList(u, c, i)
<1>1. Calls!NoList = NoList
  BY DEF Calls!NoList, NoList
<1>2. \A l \in CandidateLists : Calls!Visible(l) = Visible(l)
  BY DEF Calls!Visible, Visible, Calls!NotBlank, NotBlank
<1>3. \A u : Calls!HideCandidateList(u) = HideCandidateList(u)
  BY DEF Calls!HideCandidateList, HideCandidateList
<1>4. \A u, c, i : Calls!UpdateCandidateList(u, c, i) = UpdateCandidateList(u, c, i)
  BY DEF Calls!UpdateCandidateList, UpdateCandidateList, Calls!SetCandidates, SetCandidates
<1> QED
  BY <1>1, <1>2, <1>3, <1>4

(* Hiding a list without an element changes nothing.                         *)
LEMMA HidingIsACall ==
  ASSUME list \in ListState, list.shown => list.elem, list' = HideCandidateList(list)
  PROVE  [Calls!Next]_list
<1>1. CASE list.elem
  BY <1>1, SameOperators DEF Calls!Next, Calls!Hide
<1>2. CASE ~list.elem
  <2>1. list.elem = FALSE /\ list.shown = FALSE
    BY <1>2 DEF ListState
  <2>2. list' = list
    BY <2>1 DEF HideCandidateList, ListState
  <2> QED
    BY <2>2
<1> QED
  BY <1>1, <1>2

LEMMA SetStores ==
  ASSUME NEW u \in ListState, NEW c, NEW i, NEW v \in UpdateCandidateList(u, c, i)
  PROVE  v.cands = c /\ v.sel = i
<1> DEFINE w == SetCandidates(u, c, i)
<1>1. DOMAIN w = {"elem", "shown", "cands", "sel", "page"} /\ w.cands = c /\ w.sel = i
  BY DEF SetCandidates, ListState
<1>2. v = w \/ \E b \in BOOLEAN : v = [w EXCEPT !.elem = TRUE, !.shown = b]
  BY DEF UpdateCandidateList
<1> HIDE DEF w
<1> QED
  BY <1>1, <1>2

LEMMA UpdatingIsACall ==
  ASSUME list \in ListState, NEW c \in CandidateLists, Visible(c) # <<>>, NEW i \in Nat,
         list' \in UpdateCandidateList(list, Visible(c), i)
  PROVE  Calls!Next
<1>1. list'.cands = Visible(c) /\ list'.sel = i
  BY SetStores
<1>2. list'.cands \in {Calls!Visible(l) : l \in CandidateLists} \ {<<>>}
  BY <1>1, SameOperators
<1>3. list' \in Calls!UpdateCandidateList(list, list'.cands, list'.sel)
  BY <1>1, SameOperators
<1> QED
  BY <1>1, <1>2, <1>3 DEF Calls!Next, Calls!Update

LEMMA ShowingIsACall ==
  ASSUME list.elem, NEW b \in BOOLEAN, list' = [list EXCEPT !.shown = b]
  PROVE  Calls!Next
BY DEF Calls!Next, Calls!AppShows

LEMMA SyncIsACall ==
  ASSUME list \in ListState, list.shown => list.elem, NEW r \in Response, NEW i \in Nat,
         list' \in SyncCandidateList(list, r, i)
  PROVE  [Calls!Next]_list
<1>1. r.candidates \in CandidateLists
  BY DEF Response
<1>2. CASE Visible(r.candidates) = <<>>
  BY <1>2, HidingIsACall DEF SyncCandidateList
<1>3. CASE Visible(r.candidates) # <<>>
  BY <1>1, <1>3, UpdatingIsACall DEF SyncCandidateList
<1> QED
  BY <1>2, <1>3

LEMMA ShowAndSyncIsACall ==
  ASSUME list \in ListState, list.shown => list.elem, NEW committed, NEW composition,
         NEW r \in Response, NEW i \in Nat, ShowAndSync(committed, composition, r, i)
  PROVE  [Calls!Next]_list
<1>1. list' = list \/ list' \in SyncCandidateList(list, r, i)
  BY DEF ShowAndSync
<1> QED
  BY <1>1, SyncIsACall

LEMMA CommandIsACall ==
  ASSUME IInv, NEW command, CommandAndShow(command), last' \in Response
  PROVE  [Calls!Next]_list
<1>1. list \in ListState /\ (list.shown => list.elem) /\ sel \in Nat
  BY DEF IInv, TypeOK, ElementHasThreadMgr
<1>2. \/ UNCHANGED list
      \/ ShowAndSync(last'.outputBuffer, Composition(last'), last', sel)
  BY DEF CommandAndShow
<1> QED
  BY <1>1, <1>2, ShowAndSyncIsACall

(* Refinement: every step of the service is a call of ListCalls or leaves    *)
(* the list alone; the answer it shows and the selection it sends are typed  *)
(* before and after the step, which takes the inductive invariant.           *)
THEOREM DrivesTheList == Spec => DrivesList
<1>1. Init => Calls!Init
  BY SameOperators DEF Init, Calls!Init
<1>2. IInv /\ IInv' /\ [Next]_vars => [Calls!Next]_list
  <2> SUFFICES ASSUME IInv, IInv', [Next]_vars
               PROVE  [Calls!Next]_list
    OBVIOUS
  <2>1. /\ list \in ListState /\ (list.shown => list.elem)
        /\ last \in Response /\ last' \in Response /\ sel \in Nat /\ sel' \in Nat
    BY DEF IInv, TypeOK, ElementHasThreadMgr
  <2>2. CASE OnCharKey
    <3>1. \/ ShowAndSync(<<>>, Composition(last'), last', sel)
          \/ \E s : CommitAndShow(s, Composition(last'), last', sel)
      BY <2>2 DEF OnCharKey
    <3>2. \E committed : ShowAndSync(committed, Composition(last'), last', sel)
      BY <3>1 DEF CommitAndShow
    <3> QED
      BY <2>1, <3>2, ShowAndSyncIsACall
  <2>3. CASE OnBackspace
    BY <2>1, <2>3, CommandIsACall DEF OnBackspace
  <2>4. CASE Convert
    BY <2>1, <2>4, CommandIsACall DEF Convert
  <2>5. CASE NextCandidate
    BY <2>1, <2>5, SyncIsACall DEF NextCandidate
  <2>6. ASSUME NEW k \in Arrows \cup {"next", "prior"}, MoveSelection(k)
        PROVE  [Calls!Next]_list
    BY <2>1, <2>6, SyncIsACall DEF MoveSelection
  <2>7. CASE AcceptCandidate
    <3>1. \/ \E s : CommitAndShow(s, <<>>, last', 0)
          \/ list' \in SyncCandidateList(list, last', 0)
      BY <2>7 DEF AcceptCandidate
    <3>2. \/ \E committed : ShowAndSync(committed, <<>>, last', 0)
          \/ list' \in SyncCandidateList(list, last', 0)
      BY <3>1 DEF CommitAndShow
    <3> QED
      BY <2>1, <3>2, ShowAndSyncIsACall, SyncIsACall
  <2>8. CASE ToggleToDirect \/ Deactivate
    BY <2>1, <2>8, HidingIsACall DEF ToggleToDirect, Deactivate
  <2>9. CASE AppShowsList
    <3>1. list.elem /\ (~list.shown) \in BOOLEAN /\ list' = [list EXCEPT !.shown = ~list.shown]
      BY <2>1, <2>9 DEF AppShowsList
    <3> QED
      BY <3>1, ShowingIsACall
  <2>10. ASSUME NEW k \in {"left", "right"}, MoveInflection(k)
         PROVE  UNCHANGED list
    BY <2>10 DEF MoveInflection
  <2>11. CASE \/ ToggleToTcode \/ ToggleInputMode \/ ActivateEx \/ FocusMoves
              \/ AppTerminatesComposition \/ AppTerminatesOrphan \/ OtherProgram
    BY <2>11 DEF ToggleToTcode, ToggleInputMode, ActivateEx, FocusMoves,
         AppTerminatesComposition, AppTerminatesOrphan, OtherProgram
  <2>12. CASE UNCHANGED vars
    BY <2>12 DEF vars
  <2> QED
    BY <2>2, <2>3, <2>4, <2>5, <2>6, <2>7, <2>8, <2>9, <2>10, <2>11, <2>12 DEF Next
<1> QED
  BY <1>1, <1>2, Invariance, PTL DEF Spec, DrivesList, Calls!Spec
=============================================================================
