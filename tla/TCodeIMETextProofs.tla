------------------------- MODULE TCodeIMETextProofs -------------------------
(***************************************************************************)
(* What happens to text, for every value of the constants: the core        *)
(* implements TextDelivery if requests are answered and nobody else types, *)
(* and a composition is left open in a document without the focus only.    *)
(***************************************************************************)
EXTENDS TCodeIMEProofs

(* Every request is answered, by an engine that is ours alone and hands out  *)
(* finished text at Commit only.                                             *)
Answered == Faults \cap {"refused", "lostReply"} = {}

Reliable == Answered /\ ~Sharing /\ ~ConvertEmits

OneDocument == \A c, d \in Contexts : c = d

-----------------------------------------------------------------------------
(* The engine: a request makes at most one piece, and Commit hands it over.  *)

Quiet(s, t) == t.out = <<>> /\ t.made = s.made

Making(s, t) == Quiet(s, t) \/ (t.out = <<s.made + 1>> /\ t.made = s.made + 1)

LEMMA OfferKeeps ==
  ASSUME NEW S \in SUBSET EngineState, NEW a \in Offer(S)
  PROVE  \E t \in S : a.srv.out = t.out /\ a.srv.made = t.made /\ a.srv.key = t.key /\ a.srv.buffer = t.buffer
<1>1. PICK t \in S, l \in CandidateLists : a = [srv |-> [t EXCEPT !.cands = l], ok |-> TRUE]
  BY DEF Offer, Bounded
<1> QED
  BY <1>1 DEF EngineState

LEMMA FinishMakes ==
  ASSUME NEW s \in EngineState, s.out = <<>>
  PROVE  Finish(s).out = <<s.made + 1>> /\ Finish(s).made = s.made + 1
<1>1. Append(s.out, s.made + 1) = <<s.made + 1>>
  OBVIOUS
<1> QED
  BY <1>1 DEF Finish, EngineState

LEMMA PutMakes ==
  ASSUME NEW s \in EngineState, s.out = <<>>, NEW a \in EnginePut(s)
  PROVE  Making(s, a.srv)
<1> DEFINE stroked == [s EXCEPT !.key = FALSE]
           buffered == [stroked EXCEPT !.buffer = Append(@, Kana)]
           waiting == [s EXCEPT !.key = TRUE]
<1>1. stroked \in EngineState /\ stroked.out = <<>> /\ stroked.made = s.made
  BY DEF EngineState
<1>2. Finish(stroked) \in EngineState /\ Making(s, Finish(stroked))
  BY <1>1, FinishType, FinishMakes DEF Making
<1>3. buffered \in EngineState /\ Making(s, buffered)
  <2>1. Append(stroked.buffer, Kana) \in Seq({Kana})
    BY <1>1 DEF EngineState
  <2> QED
    BY <1>1, <2>1 DEF EngineState, Making, Quiet
<1>4. waiting \in EngineState /\ Making(s, waiting)
  BY DEF EngineState, Making, Quiet
<1>5. Making(s, stroked)
  BY <1>1 DEF Making, Quiet
<1>6. a \in Offer({stroked, Finish(stroked), buffered}) \/ a \in Offer({waiting})
  BY DEF EnginePut
<1>7. \E t \in {stroked, Finish(stroked), buffered, waiting} : a.srv.out = t.out /\ a.srv.made = t.made
  <2>1. {stroked, Finish(stroked), buffered} \in SUBSET EngineState /\ {waiting} \in SUBSET EngineState
    BY <1>1, <1>2, <1>3, <1>4
  <2> HIDE DEF stroked, buffered, waiting
  <2> QED
    BY <1>6, <2>1, OfferKeeps
<1> HIDE DEF stroked, buffered, waiting
<1> QED
  BY <1>2, <1>3, <1>4, <1>5, <1>7 DEF Making, Quiet

LEMMA CommandsAreQuiet ==
  ASSUME Reliable, NEW s \in EngineState, s.out = <<>>,
         NEW a \in EngineBackspace(s) \cup EngineInflect(s) \cup EngineConvert(s) \cup EngineReset(s)
  PROVE  Quiet(s, a.srv)
<1>1. CASE a \in EngineBackspace(s)
  <2> DEFINE unstroked == [s EXCEPT !.key = FALSE]
             shorter == [s EXCEPT !.buffer = ButLast(@)]
  <2>1. a \in Offer({unstroked}) \/ (s.buffer # <<>> /\ a \in Offer({shorter})) \/ a \in Offer({s})
    BY <1>1 DEF EngineBackspace
  <2>2. unstroked \in EngineState /\ Quiet(s, unstroked)
    BY DEF EngineState, Quiet
  <2>3. s.buffer # <<>> => shorter \in EngineState /\ Quiet(s, shorter)
    BY ButLastType DEF EngineState, Quiet
  <2> HIDE DEF unstroked, shorter
  <2> QED
    BY <2>1, <2>2, <2>3, OfferKeeps DEF Quiet
<1>2. CASE a \in EngineInflect(s)
  BY <1>2, OfferKeeps DEF EngineInflect, Quiet
<1>3. CASE a \in EngineConvert(s)
  <2>1. {[Finish(s) EXCEPT !.buffer = <<>>] : e \in {ConvertEmits} \ {FALSE}} = {}
    BY EngineAssumption DEF Reliable
  <2>2. a \in Offer({s})
    BY <1>3, <2>1 DEF EngineConvert
  <2> QED
    BY <2>2, OfferKeeps DEF Quiet
<1>4. CASE a \in EngineReset(s)
  BY <1>4 DEF EngineReset, EmptyEngine, Quiet
<1> QED
  BY <1>1, <1>2, <1>3, <1>4

(* A selection that is accepted makes a piece, one that fails does nothing.  *)
LEMMA SelectMakes ==
  ASSUME NEW s \in EngineState, s.out = <<>>, NEW n, NEW a \in EngineSelect(n, s)
  PROVE  Making(s, a.srv) /\ (~a.ok => a.srv = s)
<1>1. CASE n + 1 \in 1 .. Len(s.cands)
  <2>1. PICK t \in Bounded({Finish(s)}) :
          a = [srv |-> [t EXCEPT !.buffer = <<>>, !.cands = <<>>], ok |-> TRUE]
    BY <1>1 DEF EngineSelect
  <2>2. t = Finish(s)
    BY <2>1 DEF Bounded
  <2> QED
    BY <2>1, <2>2, FinishMakes, FinishType DEF Making, EngineState
<1>2. CASE n + 1 \notin 1 .. Len(s.cands)
  <2>1. a = [srv |-> s, ok |-> FALSE]
    BY <1>2 DEF EngineSelect
  <2> QED
    BY <2>1 DEF Making, Quiet
<1> QED
  BY <1>1, <1>2

(* Without lost requests and replies, an outcome of a call is an answer.     *)
LEMMA ReliableCalls ==
  ASSUME Answered, NEW s, NEW answers
  PROVE  /\ Send(answers, s) = {[srv |-> a.srv, last |-> Reply(a), threw |-> FALSE] : a \in answers}
         /\ \A c \in Send(answers, s) \cup Caught(Send(answers, s)) :
              \E a \in answers : c.srv = a.srv /\ c.last = Reply(a) /\ ~c.threw
<1>1. Faults \cap {"refused"} = {} /\ Faults \cap {"lostReply"} = {}
  BY DEF Answered
<1>2. Send(answers, s) = {[srv |-> a.srv, last |-> Reply(a), threw |-> FALSE] : a \in answers}
  BY <1>1 DEF Send
<1>3. Caught(Send(answers, s)) =
        {[c EXCEPT !.threw = FALSE] : c \in {[srv |-> a.srv, last |-> Reply(a), threw |-> FALSE] : a \in answers}}
  BY <1>2 DEF Caught
<1> QED
  BY <1>2, <1>3

LEMMA ReliableCommit ==
  ASSUME Reliable, NEW s \in EngineState, NEW d \in Commit(s)
  PROVE  d.output = s.out /\ d.srv.out = <<>> /\ d.srv.made = s.made
         /\ d.srv.key = s.key /\ d.srv.buffer = s.buffer
<1>1. d = [srv |-> EngineCommit(s), output |-> s.out]
  BY DEF Commit, Reliable, Answered
<1> QED
  BY <1>1 DEF EngineCommit, EngineState

-----------------------------------------------------------------------------
(* The documents: an edit session appends one text to one document.          *)

Pieceless(s) == \A i \in DOMAIN s : s[i] \notin Nat

LEMMA MarksArePieceless ==
  ASSUME NEW r \in Response
  PROVE  /\ Pieceless(Composition(r))
         /\ Pieceless(r.buffer)
         /\ Pieceless(GetLastKey(r))
         /\ Pieceless(<<>>)
<1>1. Kana \notin Nat /\ KeyMark \notin Nat /\ BadMark \notin Nat
  BY GlyphAssumption
<1>2. r.buffer \in Seq({Kana})
  BY DEF Response
<1>3. Pieceless(r.buffer)
  BY <1>1, <1>2 DEF Pieceless
<1>4. GetLastKey(r) \in {<<>>, <<KeyMark>>, <<BadMark>>}
  BY DEF GetLastKey
<1>5. GetLastKey(r) \in Seq({KeyMark, BadMark})
  <2>1. <<KeyMark>> \in Seq({KeyMark, BadMark}) /\ <<BadMark>> \in Seq({KeyMark, BadMark})
    OBVIOUS
  <2> QED
    BY <1>4, <2>1, NoElements
<1>6. Pieceless(GetLastKey(r)) /\ Pieceless(<<>>)
  BY <1>1, <1>4 DEF Pieceless
<1>7. Composition(r) \in Seq({Kana, KeyMark, BadMark})
  <2>1. r.buffer \in Seq({Kana, KeyMark, BadMark}) /\ GetLastKey(r) \in Seq({Kana, KeyMark, BadMark})
    BY <1>2, <1>5
  <2> QED
    BY <2>1 DEF Composition
<1>8. Pieceless(Composition(r))
  <2> HIDE DEF Composition
  <2> QED
    BY <1>1, <1>7 DEF Pieceless
<1> QED
  BY <1>3, <1>6, <1>8

Appends(t, u, c, s) == u.doc = [t.doc EXCEPT ![c] = @ \o s]

(* What an edit session writes: the committed text where the focus is, or    *)
(* the text of a composition that lives elsewhere, or nothing.               *)
EditWrites(t, u, c, committed) ==
  \/ u.doc = t.doc /\ committed = <<>>
  \/ Appends(t, u, c, committed)
  \/ Elsewhere(t, c) /\ Appends(t, u, t.composition.ctx, t.composition.text)

LEMMA DoEditSessionWrites ==
  ASSUME NEW t \in TextState, NEW c \in Contexts,
         NEW committed \in Seq(Glyph), NEW composition \in Seq(Glyph)
  PROVE  LET u == DoEditSession(t, c, committed, composition)
         IN  /\ EditWrites(t, u, c, committed)
             /\ u.composition = IF composition = <<>> THEN NoComposition
                                ELSE [ctx |-> c, text |-> composition]
             /\ OneDocument => u.orphans = t.orphans
<1> DEFINE v == CommitText(t, c, committed)
           w == WipeComposition(v, c)
           u == StartComposition(w, c, composition)
<1>0. \A x \in TextState :
        Elsewhere(x, c) => /\ x.composition.ctx \in Contexts
                           /\ Orphan(x) \in TextState
                           /\ Orphan(x).composition = NoComposition
                           /\ Appends(x, Orphan(x), x.composition.ctx, x.composition.text)
  <2> SUFFICES ASSUME NEW x \in TextState, Elsewhere(x, c)
               PROVE  /\ x.composition.ctx \in Contexts
                      /\ Orphan(x) \in TextState
                      /\ Orphan(x).composition = NoComposition
                      /\ Appends(x, Orphan(x), x.composition.ctx, x.composition.text)
    OBVIOUS
  <2>1. x.composition.ctx \in Contexts /\ x.composition.ctx # NoContext
    BY DEF Elsewhere, TextState
  <2>2. Orphan(x) \in TextState
    BY <2>1, OrphanType
  <2> QED
    BY <2>1, <2>2 DEF Orphan, Release, Insert, Appends, TextState
<1>1. OneDocument => \A x \in TextState : ~Elsewhere(x, c)
  BY DEF OneDocument, Elsewhere, TextState
<1>2. /\ v \in TextState
      /\ \/ v = t /\ committed = <<>>
         \/ Elsewhere(t, c) /\ v = Orphan(t)
         \/ /\ ~Elsewhere(t, c)
            /\ v = [Insert(t, c, committed) EXCEPT !.composition = NoComposition]
  BY <1>0, InsertType, ClearType DEF CommitText
<1>3. w.orphans = (IF Elsewhere(v, c) THEN Orphan(v) ELSE v).orphans
      /\ w \in TextState
      /\ w.composition = NoComposition
      /\ (Elsewhere(v, c) => w = Orphan(v))
      /\ (~Elsewhere(v, c) => w.doc = v.doc)
  <2>1. CASE Elsewhere(v, c)
    BY <1>0, <1>2, <2>1 DEF WipeComposition
  <2>2. CASE ~Elsewhere(v, c)
    BY <1>2, <2>2, ClearType DEF WipeComposition, TextState
  <2> QED
    BY <2>1, <2>2
<1>4. EditWrites(t, w, c, committed)
  <2>2. v.composition = NoComposition => ~Elsewhere(v, c)
    BY DEF Elsewhere, NoComposition
  <2>3. CASE v = t /\ committed = <<>>
    BY <1>0, <1>3, <2>3 DEF EditWrites
  <2>4. CASE Elsewhere(t, c) /\ v = Orphan(t)
    BY <1>0, <1>3, <2>2, <2>4 DEF EditWrites, Appends
  <2>5. CASE v = [Insert(t, c, committed) EXCEPT !.composition = NoComposition]
    <3>1. v.composition = NoComposition /\ Appends(t, v, c, committed)
      BY <2>5 DEF Insert, Appends, TextState
    <3> QED
      BY <1>3, <2>2, <3>1 DEF EditWrites, Appends
  <2> HIDE DEF v, w
  <2> QED
    BY <1>2, <2>3, <2>4, <2>5
<1>5. OneDocument => w.orphans = t.orphans
  <2>1. OneDocument => v.orphans = t.orphans
    BY <1>1, <1>2 DEF Insert, TextState
  <2> HIDE DEF v, w
  <2> QED
    BY <1>1, <1>2, <1>3, <2>1
<1>6. /\ u.doc = w.doc /\ u.orphans = w.orphans
      /\ u.composition = IF composition = <<>> THEN NoComposition ELSE [ctx |-> c, text |-> composition]
  <2> HIDE DEF w
  <2> QED
    BY <1>3 DEF StartComposition, TextState
<1>7. u = DoEditSession(t, c, committed, composition)
  BY DEF DoEditSession
<1> HIDE DEF u, v, w
<1>8. EditWrites(t, u, c, committed)
  BY <1>4, <1>6 DEF EditWrites, Appends
<1> QED
  BY <1>5, <1>6, <1>7, <1>8

-----------------------------------------------------------------------------
(* A step of the core and what it writes.                                    *)

Lossless == Faults = {} /\ OneDocument

(* A piece is made and written, or none is made, or one is lost on the way.  *)
Delivers ==
  \/ \E c \in Contexts :
       Appends(text, text', c, <<srv.made + 1>>) /\ srv'.made = srv.made + 1
  \/ /\ srv'.made = srv.made \/ (srv'.made = srv.made + 1 /\ ~Lossless)
     /\ \/ text'.doc = text.doc
        \/ \E c \in Contexts, s \in Seq(Glyph) : Pieceless(s) /\ Appends(text, text', c, s)

(* Between two callbacks the engine holds no finished text, and what is      *)
(* displayed as pre-edit text is not finished.                               *)
DeliveryInv == srv.out = <<>> /\ Pieceless(text.composition.text)

LEMMA EditDelivers ==
  ASSUME TypeOK, Pieceless(text.composition.text),
         NEW committed \in Seq(Glyph), NEW composition \in Seq(Glyph), Pieceless(composition),
         NEW e \in RequestEditSession(text, focus, committed, composition), text' = e.text,
         \/ Pieceless(committed) /\ srv'.made = srv.made
         \/ committed = <<srv.made + 1>> /\ srv'.made = srv.made + 1
  PROVE  Delivers /\ Pieceless(text'.composition.text)
<1>1. /\ text \in TextState /\ focus \in Contexts /\ <<>> \in Seq(Glyph)
      /\ text.composition.text \in Seq(Glyph)
  BY NoElements DEF TypeOK, TextState
<1>2. Pieceless(NoComposition.text)
  BY DEF NoComposition, Pieceless
<1>3. Pieceless(<<>>)
  BY DEF Pieceless
<1>4. ASSUME NEW kept \in Seq(Glyph), NEW shown \in Seq(Glyph), Pieceless(shown),
             kept = committed \/ (kept = <<>> /\ Faults # {}),
             text' = DoEditSession(text, focus, kept, shown)
      PROVE  Delivers /\ Pieceless(text'.composition.text)
  <2>1. /\ EditWrites(text, text', focus, kept)
        /\ text'.composition = IF shown = <<>> THEN NoComposition ELSE [ctx |-> focus, text |-> shown]
    BY <1>1, <1>4, DoEditSessionWrites
  <2>2. Pieceless(text'.composition.text)
    BY <1>2, <1>4, <2>1
  <2>3. Elsewhere(text, focus) => text.composition.ctx \in Contexts /\ ~OneDocument
    BY <1>1 DEF Elsewhere, OneDocument, TextState
  <2>4. CASE text'.doc = text.doc /\ kept = <<>>
    <3>1. kept = committed => committed # <<srv.made + 1>>
      <4>1. <<>> # <<srv.made + 1>>
        OBVIOUS
      <4> QED
        BY ONLY <2>4, <4>1
    <3> QED
      BY <1>4, <2>2, <2>4, <3>1 DEF Delivers, Lossless
  <2>5. CASE Appends(text, text', focus, kept)
    <3>1. CASE kept = committed
      BY <1>1, <2>2, <2>5, <3>1 DEF Delivers
    <3>2. CASE kept = <<>> /\ Faults # {}
      BY <1>1, <1>4, <1>3, <2>2, <2>5, <3>2 DEF Delivers, Lossless
    <3> QED
      BY <1>4, <3>1, <3>2
  <2>6. CASE Elsewhere(text, focus) /\ Appends(text, text', text.composition.ctx, text.composition.text)
    <3>1. ~Lossless
      BY <2>3, <2>6 DEF Lossless
    <3>2. \E c \in Contexts, s \in Seq(Glyph) : Pieceless(s) /\ Appends(text, text', c, s)
      BY <1>1, <2>3, <2>6
    <3> QED
      BY <2>2, <3>1, <3>2 DEF Delivers
  <2> QED
    BY <2>1, <2>4, <2>5, <2>6 DEF EditWrites
<1>5. \/ text' = text /\ Faults # {}
      \/ \E kept \in {committed, <<>>}, shown \in {composition, <<>>} :
           /\ text' = DoEditSession(text, focus, kept, shown)
           /\ kept = committed \/ Faults # {}
  BY EditOutcomes
<1>6. CASE text' = text /\ Faults # {}
  BY <1>6 DEF Delivers, Lossless
<1>7. ASSUME NEW kept \in {committed, <<>>}, NEW shown \in {composition, <<>>},
             text' = DoEditSession(text, focus, kept, shown), (kept = committed) \/ (Faults # {})
      PROVE  Delivers /\ Pieceless(text'.composition.text)
  <2>1. kept \in Seq(Glyph) /\ shown \in Seq(Glyph) /\ Pieceless(shown)
    BY <1>1, <1>3
  <2>2. kept = committed \/ (kept = <<>> /\ Faults # {})
    BY <1>7
  <2> QED
    BY <1>4, <1>7, <2>1, <2>2
<1> QED
  BY <1>5, <1>6, <1>7

LEMMA ShowDelivers ==
  ASSUME TypeOK, Pieceless(text.composition.text),
         NEW committed \in Seq(Glyph), NEW composition \in Seq(Glyph), Pieceless(composition),
         NEW r, NEW i, ShowAndSync(committed, composition, r, i),
         \/ Pieceless(committed) /\ srv'.made = srv.made
         \/ committed = <<srv.made + 1>> /\ srv'.made = srv.made + 1
  PROVE  Delivers /\ Pieceless(text'.composition.text)
<1>1. PICK e \in RequestEditSession(text, focus, committed, composition) : text' = e.text
  BY DEF ShowAndSync
<1> QED
  BY <1>1, EditDelivers

LEMMA CommitDelivers ==
  ASSUME TypeOK, Reliable, Pieceless(text.composition.text),
         NEW s \in EngineState, s.out = <<srv.made + 1>>, s.made = srv.made + 1,
         NEW composition \in Seq(Glyph), Pieceless(composition),
         NEW r, NEW i, CommitAndShow(s, composition, r, i)
  PROVE  Delivers /\ DeliveryInv'
<1>1. Meanwhile(s) = {s}
  BY DEF Meanwhile, Reliable
<1>2. PICK d \in Commit(s) : srv' = d.srv /\ ShowAndSync(d.output, composition, r, i)
  BY <1>1 DEF CommitAndShow
<1>3. d.output = s.out /\ d.srv.out = <<>> /\ d.srv.made = s.made
  BY ReliableCommit
<1>4. d.output \in Seq(Glyph)
  BY <1>3, GlyphSequences DEF EngineState
<1> QED
  BY <1>2, <1>3, <1>4, ShowDelivers DEF DeliveryInv

LEMMA CharKeyDelivers ==
  ASSUME TypeOK, Reliable, DeliveryInv, OnCharKey
  PROVE  Delivers /\ DeliveryInv'
<1>1. PICK c \in ExecutePut(srv) :
        IF IsOutputBufferEmpty(c.last)
          THEN srv' = c.srv /\ ShowAndSync(<<>>, Composition(c.last), c.last, sel)
          ELSE CommitAndShow(c.srv, Composition(c.last), c.last, sel)
  BY DEF OnCharKey
<1>2. PICK a \in EnginePut(srv) : c.srv = a.srv /\ c.last = Reply(a)
  BY ReliableCalls DEF Reliable, ExecutePut
<1>3. /\ srv \in EngineState
      /\ Making(srv, a.srv)
      /\ a \in Answer
      /\ c.last \in Response /\ c.last.outputBuffer = c.srv.out
  BY <1>2, PutMakes, EngineTypes, ReplyFits DEF TypeOK, DeliveryInv, Reply
<1>4. /\ Composition(c.last) \in Seq(Glyph) /\ Pieceless(Composition(c.last))
      /\ <<>> \in Seq(Glyph) /\ Pieceless(<<>>)
  BY <1>3, ResponseText, MarksArePieceless, NoElements
<1>5. CASE IsOutputBufferEmpty(c.last)
  <2>1. c.srv.out = <<>>
    BY <1>3, <1>5 DEF IsOutputBufferEmpty
  <2>2. c.srv.made = srv.made
    BY <1>2, <1>3, <2>1 DEF Making, Quiet
  <2>3. srv' = c.srv /\ ShowAndSync(<<>>, Composition(c.last), c.last, sel)
    BY <1>1, <1>5
  <2> QED
    BY <1>4, <2>1, <2>2, <2>3, ShowDelivers DEF DeliveryInv
<1>6. CASE ~IsOutputBufferEmpty(c.last)
  <2>1. c.srv.out = <<srv.made + 1>> /\ c.srv.made = srv.made + 1 /\ c.srv \in EngineState
    BY <1>2, <1>3, <1>6 DEF IsOutputBufferEmpty, Making, Quiet, Answer
  <2>2. CommitAndShow(c.srv, Composition(c.last), c.last, sel)
    BY <1>1, <1>6
  <2> QED
    BY <1>4, <2>1, <2>2, CommitDelivers DEF DeliveryInv
<1> QED
  BY <1>5, <1>6

(* Backspace, Convert, Left and Right find nothing finished to insert.       *)
LEMMA ReliableCommand ==
  ASSUME TypeOK, Reliable, DeliveryInv,
         NEW command \in {"backspace", "convert", "left", "right"},
         NEW c \in ExecuteCommand(command, srv)
  PROVE  /\ Quiet(srv, c.srv) /\ ~c.threw
         /\ c.last \in Response /\ c.last.outputBuffer = <<>>
<1> DEFINE answers == CASE command = "backspace" -> EngineBackspace(srv)
                        [] command = "convert" -> EngineConvert(srv)
                        [] command \in {"left", "right"} -> EngineInflect(srv)
<1>1. c \in Send(answers, srv)
  BY DEF ExecuteCommand
<1>2. PICK a \in answers : c.srv = a.srv /\ c.last = Reply(a) /\ ~c.threw
  <2> HIDE DEF answers
  <2> QED
    BY <1>1, ReliableCalls DEF Reliable
<1>3. a \in EngineBackspace(srv) \cup EngineInflect(srv) \cup EngineConvert(srv)
  OBVIOUS
<1>4. Quiet(srv, a.srv) /\ a \in Answer
  BY <1>3, CommandsAreQuiet, EngineTypes DEF TypeOK, DeliveryInv
<1> QED
  BY <1>2, <1>4, ReplyFits DEF Reply, Quiet

LEMMA CommandDelivers ==
  ASSUME TypeOK, Reliable, DeliveryInv, NEW command \in {"backspace", "convert"},
         CommandAndShow(command)
  PROVE  Delivers /\ DeliveryInv'
<1>1. PICK c \in ExecuteCommand(command, srv) :
        /\ srv' = c.srv
        /\ IF c.threw
             THEN alive' = FALSE /\ UNCHANGED <<text, list>>
             ELSE ShowAndSync(c.last.outputBuffer, Composition(c.last), c.last, sel)
  BY DEF CommandAndShow
<1>2. /\ Quiet(srv, c.srv) /\ ~c.threw
      /\ c.last \in Response /\ c.last.outputBuffer = <<>>
  BY ReliableCommand
<1>3. /\ Composition(c.last) \in Seq(Glyph) /\ Pieceless(Composition(c.last))
      /\ <<>> \in Seq(Glyph) /\ Pieceless(<<>>)
  BY <1>2, ResponseText, MarksArePieceless, NoElements
<1> QED
  BY <1>1, <1>2, <1>3, ShowDelivers DEF DeliveryInv, Quiet

LEMMA InflectionDelivers ==
  ASSUME TypeOK, Reliable, DeliveryInv, NEW k \in {"left", "right"}, MoveInflection(k)
  PROVE  Delivers /\ DeliveryInv'
<1>1. PICK c \in ExecuteCommand(k, srv) :
        /\ srv' = c.srv
        /\ IF c.threw
             THEN alive' = FALSE /\ UNCHANGED text
             ELSE \E e \in RequestEditSession(text, focus, c.last.outputBuffer \o GetLastKey(c.last),
                                              c.last.buffer) :
                    text' = e.text /\ alive' = ~e.crashed
  BY DEF MoveInflection
<1>2. /\ Quiet(srv, c.srv) /\ ~c.threw
      /\ c.last \in Response /\ c.last.outputBuffer = <<>>
  BY ReliableCommand
<1>3. PICK e \in RequestEditSession(text, focus, c.last.outputBuffer \o GetLastKey(c.last),
                                    c.last.buffer) : text' = e.text
  BY <1>1, <1>2
<1>4. c.last.outputBuffer \o GetLastKey(c.last) = GetLastKey(c.last)
  <2>1. GetLastKey(c.last) \in {<<>>, <<KeyMark>>, <<BadMark>>}
    BY DEF GetLastKey
  <2> QED
    BY <1>2, <2>1
<1>5. /\ GetLastKey(c.last) \in Seq(Glyph) /\ Pieceless(GetLastKey(c.last))
      /\ c.last.buffer \in Seq(Glyph) /\ Pieceless(c.last.buffer)
  BY <1>2, <1>4, ResponseText, MarksArePieceless
<1> QED
  BY <1>1, <1>2, <1>3, <1>4, <1>5, EditDelivers DEF DeliveryInv, Quiet

LEMMA AcceptDelivers ==
  ASSUME TypeOK, Reliable, DeliveryInv, AcceptCandidate
  PROVE  Delivers /\ DeliveryInv'
<1>1. PICK c \in Select(sel, srv) :
        IF c.last.commandSucceed
          THEN CommitAndShow(c.srv, <<>>, c.last, 0)
          ELSE srv' = c.srv /\ UNCHANGED text
  BY DEF AcceptCandidate
<1>2. PICK a \in EngineSelect(sel, srv) : c.srv = a.srv /\ c.last = Reply(a)
  BY ReliableCalls DEF Reliable, Select
<1>3. /\ a \in Answer /\ c.last.commandSucceed = a.ok
      /\ <<>> \in Seq(Glyph) /\ Pieceless(<<>>)
  BY <1>2, EngineTypes, NoElements DEF Reply, TypeOK, Pieceless
<1>4. CASE ~c.last.commandSucceed
  <2>1. a.srv = srv
    BY <1>3, <1>4, SelectMakes DEF TypeOK, DeliveryInv
  <2> QED
    BY <1>1, <1>2, <1>4, <2>1 DEF Delivers, DeliveryInv
<1>5. CASE c.last.commandSucceed
  <2>1. a.srv.out = <<srv.made + 1>> /\ a.srv.made = srv.made + 1 /\ a.srv \in EngineState
    <3>1. sel + 1 \in 1 .. Len(srv.cands)
      <4>1. ASSUME a = [srv |-> srv, ok |-> FALSE] PROVE FALSE
        <5>1. a.ok = FALSE
          BY <4>1
        <5> QED
          BY <1>3, <1>5, <5>1, Zenon
      <4> QED
        BY <1>2, <4>1 DEF EngineSelect
    <3>2. PICK t \in Bounded({Finish(srv)}) :
            a = [srv |-> [t EXCEPT !.buffer = <<>>, !.cands = <<>>], ok |-> TRUE]
      BY <1>2, <3>1 DEF EngineSelect
    <3>3. t = Finish(srv) /\ srv \in EngineState /\ Finish(srv) \in EngineState
      BY <3>2, FinishType DEF Bounded, TypeOK
    <3> QED
      BY <1>3, <3>2, <3>3, FinishMakes DEF DeliveryInv, Answer, EngineState
  <2> QED
    BY <1>1, <1>2, <1>3, <1>5, <2>1, CommitDelivers DEF DeliveryInv
<1> QED
  BY <1>4, <1>5

LEMMA ToggleDelivers ==
  ASSUME TypeOK, Reliable, DeliveryInv, ToggleToDirect
  PROVE  Delivers /\ DeliveryInv'
<1>1. PICK c \in Reset(srv) : srv' = c.srv
  BY DEF ToggleToDirect
<1>2. PICK a \in EngineReset(srv) : c.srv = a.srv
  BY ReliableCalls DEF Reliable, Reset
<1>3. Quiet(srv, srv')
  BY <1>1, <1>2, CommandsAreQuiet DEF TypeOK, DeliveryInv
<1>4. <<>> \in Seq(Glyph) /\ Pieceless(<<>>)
  BY NoElements DEF Pieceless
<1>5. CASE text' = text
  BY <1>3, <1>5 DEF Delivers, DeliveryInv, Quiet
<1>6. ASSUME NEW e \in RequestEditSession(text, focus, <<>>, <<>>), text' = e.text
      PROVE  Delivers /\ DeliveryInv'
  BY <1>3, <1>4, <1>6, EditDelivers DEF DeliveryInv, Quiet
<1> QED
  BY <1>5, <1>6 DEF ToggleToDirect

(* The application ends a composition: its text stays in the document.       *)
LEMMA TerminationDelivers ==
  ASSUME TypeOK, DeliveryInv, AppTerminatesComposition \/ AppTerminatesOrphan
  PROVE  Delivers /\ DeliveryInv'
<1>1. text \in TextState /\ text.composition.text \in Seq(Glyph)
  BY DEF TypeOK, TextState
<1>2. Pieceless(NoComposition.text)
  BY DEF NoComposition, Pieceless
<1>3. srv' = srv
  BY DEF AppTerminatesComposition, AppTerminatesOrphan
<1> DEFINE u == OnCompositionTerminated(text)
<1>4. text'.doc = u.doc /\ text'.composition = u.composition
  <2>1. u \in TextState
    BY <1>1, ReleaseType DEF OnCompositionTerminated
  <2>2. CASE AppTerminatesComposition
    BY <2>2 DEF AppTerminatesComposition
  <2>3. CASE AppTerminatesOrphan
    BY <2>1, <2>3 DEF AppTerminatesOrphan, OnOrphanTerminated, TextState
  <2> QED
    BY <2>2, <2>3
<1>5. CASE text.composition = NoComposition
  BY <1>3, <1>4, <1>5 DEF OnCompositionTerminated, Delivers, DeliveryInv
<1>6. CASE text.composition.ctx \in Contexts /\ text.composition # NoComposition
  <2>1. u = [text EXCEPT !.doc[text.composition.ctx] = @ \o text.composition.text,
                         !.composition = NoComposition]
    BY <1>1, <1>6 DEF OnCompositionTerminated, Release, Insert, TextState
  <2>2. Appends(text, text', text.composition.ctx, text.composition.text)
    BY <1>1, <1>4, <2>1 DEF Appends, TextState
  <2>3. text'.composition = NoComposition
    BY <1>1, <1>4, <2>1 DEF TextState
  <2> QED
    BY <1>1, <1>2, <1>3, <1>6, <2>2, <2>3 DEF Delivers, DeliveryInv
<1>7. CASE text.composition.ctx = NoContext /\ text.composition # NoComposition
  <2>1. u.doc = text.doc /\ u.composition = NoComposition
    <3> DEFINE v == Insert(text, NoContext, text.composition.text)
    <3>1. u = [v EXCEPT !.composition = NoComposition]
      BY <1>7 DEF OnCompositionTerminated, Release
    <3>2. v \in TextState /\ v.doc = [text.doc EXCEPT ![NoContext] = @ \o text.composition.text]
      BY <1>1, InsertType DEF Insert, TextState
    <3>3. text.doc \in [Contexts -> Seq(Glyph)] /\ NoContext \notin Contexts
      BY <1>1, ContextAssumption DEF TextState
    <3> HIDE DEF u, v
    <3>4. v.doc = text.doc
      BY ONLY <3>2, <3>3
    <3> QED
      BY <3>1, <3>2, <3>4 DEF TextState
  <2> QED
    BY <1>2, <1>3, <1>4, <2>1 DEF Delivers, DeliveryInv
<1> QED
  BY <1>1, <1>5, <1>6, <1>7 DEF TextState

LEMMA NextDelivers ==
  ASSUME TypeOK, Reliable, DeliveryInv, [Next]_vars
  PROVE  Delivers /\ DeliveryInv'
<1>1. CASE OnCharKey
  BY <1>1, CharKeyDelivers
<1>2. CASE OnBackspace
  BY <1>2, CommandDelivers DEF OnBackspace
<1>3. CASE Convert
  BY <1>3, CommandDelivers DEF Convert
<1>4. ASSUME NEW k \in {"left", "right"}, MoveInflection(k)
      PROVE  Delivers /\ DeliveryInv'
  BY <1>4, InflectionDelivers
<1>5. CASE AcceptCandidate
  BY <1>5, AcceptDelivers
<1>6. CASE ToggleToDirect
  BY <1>6, ToggleDelivers
<1>7. CASE AppTerminatesComposition \/ AppTerminatesOrphan
  BY <1>7, TerminationDelivers
<1>8. CASE UNCHANGED <<srv, text>>
  BY <1>8 DEF Delivers, DeliveryInv
<1>9. CASE OtherProgram
  BY <1>9 DEF OtherProgram, Reliable
<1>10. ASSUME NEW k \in Arrows \cup {"next", "prior"}, MoveSelection(k)
       PROVE  UNCHANGED <<srv, text>>
  BY <1>10 DEF MoveSelection
<1>11. NextCandidate \/ ToggleToTcode \/ ToggleInputMode \/ Deactivate \/ ActivateEx
         \/ FocusMoves \/ AppShowsList \/ UNCHANGED vars => UNCHANGED <<srv, text>>
  BY DEF NextCandidate, ToggleToTcode, ToggleInputMode, Deactivate, ActivateEx, FocusMoves,
         AppShowsList, vars
<1> QED
  BY <1>1, <1>2, <1>3, <1>4, <1>5, <1>6, <1>7, <1>8, <1>9, <1>10, <1>11 DEF Next

-----------------------------------------------------------------------------
(* Such a step is a step of TextDelivery.                                    *)

LEMMA AppendedText ==
  ASSUME TypeOK, NEW c \in Contexts, NEW s \in Seq(Glyph), Appends(text, text', c, s)
  PROVE  /\ \A d \in Contexts \ {c} : text'.doc[d] = text.doc[d]
         /\ Len(text'.doc[c]) = Len(text.doc[c]) + Len(s)
         /\ \A i \in 1 .. Len(text.doc[c]) : text'.doc[c][i] = text.doc[c][i]
         /\ \A i \in Len(text.doc[c]) + 1 .. Len(text'.doc[c]) :
              i - Len(text.doc[c]) \in 1 .. Len(s) /\ text'.doc[c][i] = s[i - Len(text.doc[c])]
<1>1. text.doc \in [Contexts -> Seq(Glyph)] /\ text.doc[c] \in Seq(Glyph)
  BY DEF TypeOK, TextState
<1>2. text'.doc[c] = text.doc[c] \o s
  BY <1>1 DEF Appends
<1>3. \A d \in Contexts \ {c} : text'.doc[d] = text.doc[d]
  BY <1>1 DEF Appends
<1> QED
  BY <1>1, <1>2, <1>3

LEMMA DeliversExtends ==
  ASSUME TypeOK, TypeOK', Delivers
  PROVE  /\ srv.made \in Nat /\ srv'.made \in Nat /\ srv.made <= srv'.made
         /\ Delivery!Extends
<1>1. /\ text.doc \in [Contexts -> Seq(Glyph)] /\ text'.doc \in [Contexts -> Seq(Glyph)]
      /\ srv.made \in Nat /\ srv'.made \in Nat
  BY DEF TypeOK, TextState, EngineState
<1>2. ASSUME text'.doc = text.doc PROVE Delivery!Extends
  <2>1. ASSUME NEW d \in Contexts
        PROVE  /\ Len(text.doc[d]) <= Len(text'.doc[d])
               /\ \A i \in 1 .. Len(text.doc[d]) : text'.doc[d][i] = text.doc[d][i]
    <3>1. text.doc[d] \in Seq(Glyph)
      BY <1>1
    <3>2. Len(text.doc[d]) <= Len(text.doc[d])
      BY <3>1
    <3> QED
      BY <1>2, <3>2
  <2> QED
    BY <1>1, <2>1 DEF Delivery!Extends
<1>3. ASSUME NEW c \in Contexts, NEW s \in Seq(Glyph), Appends(text, text', c, s)
      PROVE  Delivery!Extends
  <2>1. \A d \in Contexts : text.doc[d] \in Seq(Glyph)
    BY <1>1
  <2>2. ASSUME NEW d \in Contexts
        PROVE  /\ Len(text.doc[d]) <= Len(text'.doc[d])
               /\ \A i \in 1 .. Len(text.doc[d]) : text'.doc[d][i] = text.doc[d][i]
    <3>1. CASE d = c
      BY <1>3, <2>1, <3>1, AppendedText
    <3>2. CASE d # c
      BY <1>3, <2>1, <3>2, AppendedText
    <3> QED
      BY <3>1, <3>2
  <2> QED
    BY <1>1, <2>2 DEF Delivery!Extends
<1>4. srv.made <= srv'.made
  BY <1>1 DEF Delivers
<1>5. <<srv.made + 1>> \in Seq(Glyph)
  BY <1>1 DEF Glyph
<1> QED
  BY <1>1, <1>2, <1>3, <1>4, <1>5 DEF Delivers

LEMMA DeliversIsWrite ==
  ASSUME TypeOK, TypeOK', Delivers
  PROVE  Delivery!Write
<1> DEFINE Old(d) == Len(text.doc[d])
           New(d) == Len(text'.doc[d])
           added(d) == Old(d) + 1 .. New(d)
<1>1. /\ text.doc \in [Contexts -> Seq(Glyph)] /\ text'.doc \in [Contexts -> Seq(Glyph)]
      /\ srv.made \in Nat /\ srv'.made \in Nat /\ srv.made <= srv'.made
      /\ \A d \in Contexts : Old(d) \in Nat /\ New(d) \in Nat
  <2>1. text \in TextState /\ text' \in TextState
    BY DEF TypeOK
  <2>2. text.doc \in [Contexts -> Seq(Glyph)] /\ text'.doc \in [Contexts -> Seq(Glyph)]
    BY ONLY <2>1 DEF TextState
  <2>3. \A d \in Contexts : Old(d) \in Nat /\ New(d) \in Nat
    BY ONLY <2>2
  <2>4. srv.made \in Nat /\ srv'.made \in Nat /\ srv.made <= srv'.made
    BY DeliversExtends
  <2> QED
    BY ONLY <2>2, <2>3, <2>4
<1>2. CASE \E c \in Contexts :
             Appends(text, text', c, <<srv.made + 1>>) /\ srv'.made = srv.made + 1
  <2>1. PICK c \in Contexts : Appends(text, text', c, <<srv.made + 1>>)
    BY <1>2
  <2>2. <<srv.made + 1>> \in Seq(Glyph)
    BY <1>1 DEF Glyph
  <2>3. added(c) = {Old(c) + 1} /\ text'.doc[c][Old(c) + 1] = srv.made + 1
    <3>1. Len(<<srv.made + 1>>) = 1 /\ <<srv.made + 1>>[1] = srv.made + 1
      OBVIOUS
    <3>2. /\ New(c) = Old(c) + 1
          /\ text'.doc[c][New(c)] = <<srv.made + 1>>[New(c) - Old(c)]
      <4> DEFINE piece == <<srv.made + 1>>
      <4>1. piece \in Seq(Glyph) /\ Len(piece) = 1 /\ Appends(text, text', c, piece)
        BY <2>1, <2>2, <3>1
      <4> HIDE DEF piece
      <4>2. /\ New(c) = Old(c) + 1
            /\ \A i \in Old(c) + 1 .. New(c) : text'.doc[c][i] = piece[i - Old(c)]
        BY <4>1, AppendedText
      <4> HIDE DEF Old, New
      <4>3. New(c) \in Old(c) + 1 .. New(c)
        BY <1>1, <4>2
      <4> QED
        BY <4>2, <4>3 DEF piece
    <3> HIDE DEF Old, New
    <3>3. New(c) - Old(c) = 1 /\ added(c) = {Old(c) + 1}
      BY <1>1, <3>2
    <3> QED
      BY <3>1, <3>2, <3>3
  <2>4. \A d \in Contexts : d # c => added(d) = {}
    <3>1. \A d \in Contexts : d # c => New(d) = Old(d)
      BY <2>1, <2>2, AppendedText
    <3> HIDE DEF Old, New
    <3> QED
      BY <1>1, <3>1
  <2>5. srv'.made = srv.made + 1
    BY <1>2
  <2> HIDE DEF Old, New
  <2>6. Delivery!OnlyNewPieces
    BY <1>1, <2>3, <2>4, <2>5 DEF Delivery!OnlyNewPieces, Delivery!Added, Old, New
  <2>7. Delivery!OneByOne
    <3>1. \A d, e \in Contexts : d # e => added(d) = {} \/ added(e) = {}
      BY <2>4
    <3>2. \A d \in Contexts : \A i, j \in added(d) : i = j
      BY <2>3, <2>4
    <3>3. \A d \in Contexts : \A i \in added(d) : i \in Int
      BY <1>1
    <3> QED
      BY <3>1, <3>2, <3>3 DEF Delivery!OneByOne, Delivery!Added, Old, New
  <2>8. Delivery!AllNewPieces
    BY <1>1, <2>3, <2>5 DEF Delivery!AllNewPieces, Delivery!Added, Old, New
  <2> QED
    BY <1>1, <2>6, <2>7, <2>8, DeliversExtends DEF Delivery!Write
<1>3. CASE ~\E c \in Contexts :
             Appends(text, text', c, <<srv.made + 1>>) /\ srv'.made = srv.made + 1
  <2>1. Lossless => srv'.made = srv.made
    BY <1>3 DEF Delivers
  <2>2. \A d \in Contexts : \A i \in added(d) : text'.doc[d][i] \notin Nat
    <3>1. CASE text'.doc = text.doc
      BY <1>1, <3>1
    <3>2. ASSUME NEW c \in Contexts, NEW s \in Seq(Glyph), Pieceless(s), Appends(text, text', c, s)
          PROVE  \A d \in Contexts : \A i \in added(d) : text'.doc[d][i] \notin Nat
      <4>1. \A i \in added(c) : text'.doc[c][i] \notin Nat
        <5>1. \A i \in 1 .. Len(s) : s[i] \notin Nat
          BY ONLY <3>2 DEF Pieceless
        <5>2. \A i \in added(c) : i - Old(c) \in 1 .. Len(s) /\ text'.doc[c][i] = s[i - Old(c)]
          BY <3>2, AppendedText
        <5> HIDE DEF added, Old
        <5> QED
          BY ONLY <5>1, <5>2
      <4>2. \A d \in Contexts : d # c => added(d) = {}
        <5>1. \A d \in Contexts : d # c => New(d) = Old(d)
          BY <3>2, AppendedText
        <5> HIDE DEF Old, New
        <5> QED
          BY <1>1, <5>1
      <4> QED
        BY <4>1, <4>2
    <3> QED
      BY <1>3, <3>1, <3>2 DEF Delivers
  <2>3. Delivery!OnlyNewPieces /\ Delivery!OneByOne
    BY <2>2 DEF Delivery!OnlyNewPieces, Delivery!OneByOne, Delivery!Added, Delivery!IsPiece
  <2>4. Lossless => Delivery!AllNewPieces
    BY <1>1, <2>1 DEF Delivery!AllNewPieces
  <2> QED
    BY <1>1, <2>3, <2>4, DeliversExtends DEF Delivery!Write, Lossless, OneDocument
<1> QED
  BY <1>2, <1>3

LEMMA InitDelivers == Init => DeliveryInv /\ Delivery!Init
BY DEF Init, DeliveryInv, EmptyEngine, BlankText, NoComposition, Pieceless, Delivery!Init

(* With every request answered by an engine of our own, a step of the core   *)
(* is a step of TextDelivery or leaves documents and pieces alone: the edit  *)
(* sessions write finished text when it is made, at the end, in one place.   *)
THEOREM RefinesTextDelivery ==
  ASSUME Reliable
  PROVE  Spec => ImplementsDelivery
<1>1. TypeOK /\ TypeOK' /\ DeliveryInv /\ [Next]_vars => DeliveryInv' /\ Delivery!Write
  BY NextDelivers, DeliversIsWrite
<1> QED
  BY <1>1, InitDelivers, TypeCorrect, PTL DEF Spec, ImplementsDelivery, Delivery!Spec

-----------------------------------------------------------------------------
(* What TextDelivery promises holds of the core.                             *)

Abstract == INSTANCE TextDeliveryProofs WITH
  Docs <- Contexts,
  Lossless <- Faults = {} /\ \A c, d \in Contexts : c = d,
  made <- srv.made,
  doc <- text.doc

LEMMA SameSpecification ==
  /\ Delivery!Init => Abstract!Init
  /\ [Delivery!Write]_Delivery!vars => [Abstract!Write]_Abstract!vars
  /\ Abstract!InOrder => TypedInOrder
  /\ Abstract!Complete => NothingLost
<1>1. Delivery!Init => Abstract!Init
  BY DEF Delivery!Init, Abstract!Init
<1>2. [Delivery!Write]_Delivery!vars => [Abstract!Write]_Abstract!vars
  BY DEF Delivery!Write, Abstract!Write, Delivery!vars, Abstract!vars,
         Delivery!Extends, Abstract!Extends, Delivery!Added, Abstract!Added,
         Delivery!OnlyNewPieces, Abstract!OnlyNewPieces, Delivery!OneByOne, Abstract!OneByOne,
         Delivery!AllNewPieces, Abstract!AllNewPieces, Delivery!IsPiece, Abstract!IsPiece
<1>3. Abstract!InOrder => TypedInOrder
  BY DEF TypedInOrder, Abstract!InOrder, Delivery!InOrder, Delivery!IsPiece, Abstract!IsPiece
<1>4. Abstract!Complete => NothingLost
  BY DEF NothingLost, Abstract!Complete, Delivery!Complete
<1> QED
  BY <1>1, <1>2, <1>3, <1>4

LEMMA ImplementsAbstract ==
  ASSUME Reliable
  PROVE  Spec => Abstract!Spec
BY RefinesTextDelivery, SameSpecification, PTL
   DEF ImplementsDelivery, Delivery!Spec, Abstract!Spec

(* A finished piece is in one document at most, once, and in order.          *)
THEOREM TextInOrder ==
  ASSUME Reliable
  PROVE  Spec => []TypedInOrder
BY ImplementsAbstract, Abstract!PiecesInOrder, SameSpecification, PTL

(* If, moreover, nothing fails and there is one document, no finished piece  *)
(* is lost.                                                                  *)
THEOREM TextNotLost ==
  ASSUME Reliable, Lossless
  PROVE  Spec => []NothingLost
<1>1. Faults = {} /\ \A c, d \in Contexts : c = d
  BY DEF Lossless, OneDocument
<1>2. Abstract!Spec => []Abstract!Complete
  BY <1>1, Abstract!NoPieceIsLost
<1> QED
  BY <1>2, ImplementsAbstract, SameSpecification, PTL

-----------------------------------------------------------------------------
(* Compositions that are left open.                                          *)

LEMMA DoEditSessionOrphans ==
  ASSUME NEW t \in TextState, NEW c \in Contexts,
         NEW committed \in Seq(Glyph), NEW composition \in Seq(Glyph)
  PROVE  LET u == DoEditSession(t, c, committed, composition)
         IN  t.orphans \subseteq u.orphans /\ \A d \in u.orphans \ t.orphans : d # c
<1> DEFINE v == CommitText(t, c, committed)
           w == WipeComposition(v, c)
           u == StartComposition(w, c, composition)
<1>1. \A x \in TextState : Orphan(x).orphans = x.orphans \cup {x.composition.ctx}
  BY DEF Orphan, Release, Insert, TextState
<1>2. /\ v \in TextState
      /\ v.orphans = IF committed # <<>> /\ Elsewhere(t, c) THEN Orphan(t).orphans ELSE t.orphans
  <2>1. Elsewhere(t, c) => Orphan(t) \in TextState
    BY OrphanType DEF Elsewhere, TextState
  <2>2. [Insert(t, c, committed) EXCEPT !.composition = NoComposition] \in TextState
    BY InsertType, ClearType
  <2> QED
    BY <2>1, <2>2 DEF CommitText, Insert, TextState
<1>3. w.orphans = IF Elsewhere(v, c) THEN Orphan(v).orphans ELSE v.orphans
  BY <1>2 DEF WipeComposition, TextState
<1>4. w \in TextState
  <2>1. Elsewhere(v, c) => Orphan(v) \in TextState
    BY <1>2, OrphanType DEF Elsewhere, TextState
  <2> QED
    BY <1>2, <2>1, ClearType DEF WipeComposition
<1>5. u.orphans = w.orphans
  <2> HIDE DEF w
  <2> QED
    BY <1>4 DEF StartComposition, TextState
<1>6. u = DoEditSession(t, c, committed, composition)
  BY DEF DoEditSession
<1> HIDE DEF u, v, w
<1> QED
  BY <1>1, <1>2, <1>3, <1>5, <1>6 DEF Elsewhere

(* What any edit session leaves, whether the application takes part or not.  *)
LEMMA EditOrphans ==
  ASSUME TypeOK, NEW committed \in Seq(Glyph), NEW composition \in Seq(Glyph),
         NEW e \in RequestEditSession(text, focus, committed, composition)
  PROVE  /\ text.orphans \subseteq e.text.orphans
         /\ \A d \in e.text.orphans \ text.orphans : d # focus
<1>1. text \in TextState /\ focus \in Contexts /\ <<>> \in Seq(Glyph)
  BY NoElements DEF TypeOK
<1>2. \/ e.text = text
      \/ \E kept \in {committed, <<>>}, shown \in {composition, <<>>} :
           e.text = DoEditSession(text, focus, kept, shown)
  BY EditOutcomes
<1> QED
  BY <1>1, <1>2, DoEditSessionOrphans

(* The steps that change text: an edit session or a termination.             *)
LEMMA TextSteps ==
  ASSUME TypeOK, [Next]_vars
  PROVE  \/ text' = text
         \/ \E committed, composition \in Seq(Glyph) :
              \E e \in RequestEditSession(text, focus, committed, composition) : text' = e.text
         \/ text' = OnCompositionTerminated(text)
         \/ \E c \in text.orphans : text' = OnOrphanTerminated(text, c)
<1> DEFINE Edited == \E committed, composition \in Seq(Glyph) :
              \E e \in RequestEditSession(text, focus, committed, composition) : text' = e.text
<1>0. srv \in EngineState /\ sel \in Nat /\ <<>> \in Seq(Glyph)
  BY NoElements DEF TypeOK
<1>1. ASSUME NEW committed \in Seq(Glyph), NEW composition \in Seq(Glyph), NEW r, NEW i,
             ShowAndSync(committed, composition, r, i)
      PROVE  Edited
  BY <1>1 DEF ShowAndSync
<1>2. ASSUME NEW s \in EngineState, NEW composition \in Seq(Glyph), NEW r, NEW i,
             CommitAndShow(s, composition, r, i)
      PROVE  Edited
  <2>0. PICK m \in Meanwhile(s) : \E d \in Commit(m) : ShowAndSync(d.output, composition, r, i)
    BY <1>2 DEF CommitAndShow
  <2>1. PICK d \in Commit(m) : ShowAndSync(d.output, composition, r, i)
    BY <2>0
  <2>2. d.output \in Seq(Glyph)
    <3>1. m \in EngineState
      BY EngineTypes DEF Meanwhile
    <3>2. d.output \in Seq(Nat)
      <4>1. m.out \in Seq(Nat) /\ <<>> \in Seq(Nat)
        BY <3>1, NoElements DEF EngineState
      <4>2. d.output = m.out \/ d.output = <<>>
        BY DEF Commit
      <4> QED
        BY <4>1, <4>2
    <3> QED
      BY <3>2, GlyphSequences
  <2> HIDE DEF Edited
  <2> QED
    BY <1>1, <2>1, <2>2
<1>3. CASE OnCharKey
  <2>1. PICK c \in ExecutePut(srv) :
          IF IsOutputBufferEmpty(c.last)
            THEN ShowAndSync(<<>>, Composition(c.last), c.last, sel)
            ELSE CommitAndShow(c.srv, Composition(c.last), c.last, sel)
    BY <1>3 DEF OnCharKey
  <2>2. c.srv \in EngineState /\ Composition(c.last) \in Seq(Glyph)
    BY <1>0, CallsFit, ResponseText DEF Call
  <2> HIDE DEF Edited
  <2>3. Edited
    BY <1>0, <1>1, <1>2, <2>1, <2>2
  <2> QED
    BY <2>3 DEF Edited
<1>4. ASSUME NEW command \in {"backspace", "convert"}, CommandAndShow(command)
      PROVE  text' = text \/ Edited
  <2>1. PICK c \in ExecuteCommand(command, srv) :
          IF c.threw THEN text' = text
          ELSE ShowAndSync(c.last.outputBuffer, Composition(c.last), c.last, sel)
    BY <1>4 DEF CommandAndShow
  <2>2. c.last.outputBuffer \in Seq(Glyph) /\ Composition(c.last) \in Seq(Glyph)
    BY <1>0, CallsFit, ResponseText DEF Call
  <2> HIDE DEF Edited
  <2> QED
    BY <1>1, <2>1, <2>2
<1>5. ASSUME NEW k \in {"left", "right"}, MoveInflection(k)
      PROVE  text' = text \/ Edited
  <2>1. PICK c \in ExecuteCommand(k, srv) :
          \/ text' = text
          \/ \E e \in RequestEditSession(text, focus, c.last.outputBuffer \o GetLastKey(c.last),
                                         c.last.buffer) : text' = e.text
    BY <1>5 DEF MoveInflection
  <2>2. /\ c.last.outputBuffer \o GetLastKey(c.last) \in Seq(Glyph)
        /\ c.last.buffer \in Seq(Glyph)
    BY <1>0, CallsFit, ResponseText DEF Call
  <2> QED
    BY <2>1, <2>2
<1>6. CASE AcceptCandidate
  <2>1. PICK c \in Select(sel, srv) :
          IF c.last.commandSucceed THEN CommitAndShow(c.srv, <<>>, c.last, 0) ELSE text' = text
    BY <1>6 DEF AcceptCandidate
  <2>2. c.srv \in EngineState
    BY <1>0, CallsFit DEF Call
  <2> HIDE DEF Edited
  <2>3. text' = text \/ Edited
    BY <1>0, <1>2, <2>1, <2>2
  <2> QED
    BY <2>3 DEF Edited
<1>7. CASE ToggleToDirect
  BY <1>0, <1>7 DEF ToggleToDirect
<1>8. ASSUME NEW k \in Arrows \cup {"next", "prior"}, MoveSelection(k)
      PROVE  text' = text
  BY <1>8 DEF MoveSelection
<1>9. NextCandidate \/ ToggleToTcode \/ ToggleInputMode \/ Deactivate \/ ActivateEx
        \/ FocusMoves \/ AppShowsList \/ OtherProgram \/ UNCHANGED vars => text' = text
  BY DEF NextCandidate, ToggleToTcode, ToggleInputMode, Deactivate, ActivateEx, FocusMoves,
         AppShowsList, OtherProgram, vars
<1> QED
  BY <1>3, <1>4, <1>5, <1>6, <1>7, <1>8, <1>9
     DEF Next, OnBackspace, Convert, AppTerminatesComposition, AppTerminatesOrphan

(* Only a composition in another document than the focused one is left open. *)
THEOREM OrphansAreElsewhere == Spec => OrphansComeFromFocusMoves
<1> DEFINE NewOnesElsewhere ==
      \A c \in text.orphans' \ text.orphans : c # focus \/ ~(text.orphans \subseteq text.orphans')
<1>1. ASSUME TypeOK, [Next]_vars PROVE NewOnesElsewhere
  <2>1. text \in TextState
    BY <1>1 DEF TypeOK
  <2>2. CASE \E committed, composition \in Seq(Glyph) :
               \E e \in RequestEditSession(text, focus, committed, composition) : text' = e.text
    BY <1>1, <2>2, EditOrphans
  <2>3. OnCompositionTerminated(text).orphans = text.orphans
    BY <2>1 DEF OnCompositionTerminated, Release, Insert, TextState
  <2>4. ASSUME NEW c \in text.orphans, text' = OnOrphanTerminated(text, c)
        PROVE  NewOnesElsewhere
    <3>1. OnCompositionTerminated(text) \in TextState
      BY <2>1, ReleaseType DEF OnCompositionTerminated
    <3>2. text'.orphans = (text.orphans \ {c}) \cup ({text.composition.ctx} \ {NoContext})
      BY <2>3, <2>4, <3>1 DEF OnOrphanTerminated, TextState
    <3> QED
      BY <3>2
  <2> QED
    BY <1>1, <2>2, <2>3, <2>4, TextSteps
<1> QED
  BY <1>1, TypeCorrect, PTL DEF Spec, OrphansComeFromFocusMoves

-----------------------------------------------------------------------------
(* Pre-edit text that is displayed.                                          *)

Live(s) == s.key \/ s.buffer # <<>>

LEMMA ShownIsHeld ==
  ASSUME NEW a \in Answer
  PROVE  /\ Composition(Reply(a)) # <<>> => Live(a.srv)
         /\ Reply(a).buffer # <<>> => Live(a.srv)
<1>1. Reply(a).buffer = a.srv.buffer /\ (a.srv.key \in BOOLEAN)
  BY DEF Reply, Answer, EngineState
<1>2. ~a.srv.key => GetLastKey(Reply(a)) = <<>>
  BY <1>1 DEF GetLastKey, IsLastKeyEmpty, Reply
<1>3. ~a.srv.key /\ a.srv.buffer = <<>> => Composition(Reply(a)) = <<>>
  <2>1. <<>> \o <<>> = <<>>
    OBVIOUS
  <2> QED
    BY <1>1, <1>2, <2>1 DEF Composition
<1> QED
  BY <1>1, <1>3 DEF Live

(* An edit session that is not denied shows what it was asked to, or nothing. *)
LEMMA EditShows ==
  ASSUME TypeOK, "editDenied" \notin Faults,
         NEW committed \in Seq(Glyph), NEW composition \in Seq(Glyph),
         NEW e \in RequestEditSession(text, focus, committed, composition)
  PROVE  e.text.composition # NoComposition => composition # <<>>
<1>1. text \in TextState /\ focus \in Contexts /\ <<>> \in Seq(Glyph)
  BY NoElements DEF TypeOK
<1>2. PICK kept \in {committed, <<>>}, shown \in {composition, <<>>} :
        e.text = DoEditSession(text, focus, kept, shown)
  BY EditOutcomes
<1>3. kept \in Seq(Glyph) /\ shown \in Seq(Glyph)
  BY <1>1
<1>4. e.text.composition = IF shown = <<>> THEN NoComposition ELSE [ctx |-> focus, text |-> shown]
  BY <1>1, <1>2, <1>3, DoEditSessionWrites
<1> QED
  BY <1>2, <1>4

LEMMA ShowAndSyncShows ==
  ASSUME TypeOK, "editDenied" \notin Faults,
         NEW committed \in Seq(Glyph), NEW composition \in Seq(Glyph), NEW r, NEW i,
         ShowAndSync(committed, composition, r, i), composition # <<>> => Live(srv')
  PROVE  PreeditIsLive'
BY EditShows DEF ShowAndSync, PreeditIsLive, Live

LEMMA CommitAndShowShows ==
  ASSUME TypeOK, Answered, ~Sharing, "editDenied" \notin Faults,
         NEW s \in EngineState, NEW composition \in Seq(Glyph), composition # <<>> => Live(s),
         NEW r, NEW i, CommitAndShow(s, composition, r, i)
  PROVE  PreeditIsLive'
<1>1. PICK d \in Commit(s) : srv' = d.srv /\ ShowAndSync(d.output, composition, r, i)
  BY DEF CommitAndShow, Meanwhile
<1>2. d = [srv |-> EngineCommit(s), output |-> s.out]
  BY DEF Commit, Answered
<1>3. d.output \in Seq(Glyph) /\ srv'.key = s.key /\ srv'.buffer = s.buffer
  BY <1>1, <1>2, GlyphSequences DEF EngineCommit, EngineState
<1> QED
  BY <1>1, <1>3, ShowAndSyncShows DEF Live

LEMMA AnsweredCommand ==
  ASSUME Answered, NEW s \in EngineState,
         NEW command \in {"backspace", "convert", "left", "right"},
         NEW c \in ExecuteCommand(command, s)
  PROVE  ~c.threw /\ \E a \in Answer : c.srv = a.srv /\ c.last = Reply(a)
<1> DEFINE answers == CASE command = "backspace" -> EngineBackspace(s)
                        [] command = "convert" -> EngineConvert(s)
                        [] command \in {"left", "right"} -> EngineInflect(s)
<1>1. c \in Send(answers, s)
  BY DEF ExecuteCommand
<1>2. answers \subseteq Answer
  BY EngineTypes
<1> HIDE DEF answers
<1> QED
  BY <1>1, <1>2, ReliableCalls

LEMMA KeysShow ==
  ASSUME TypeOK, PreeditIsLive, Answered, ~Sharing, "editDenied" \notin Faults
  PROVE  /\ OnCharKey => PreeditIsLive'
         /\ \A command \in {"backspace", "convert"} : CommandAndShow(command) => PreeditIsLive'
         /\ \A k \in {"left", "right"} : MoveInflection(k) => PreeditIsLive'
         /\ AcceptCandidate => PreeditIsLive'
         /\ ToggleToDirect => PreeditIsLive'
<1>0. srv \in EngineState /\ sel \in Nat /\ <<>> \in Seq(Glyph)
  BY NoElements DEF TypeOK
<1>1. ASSUME OnCharKey PROVE PreeditIsLive'
  <2>1. PICK c \in ExecutePut(srv) :
          IF IsOutputBufferEmpty(c.last)
            THEN srv' = c.srv /\ ShowAndSync(<<>>, Composition(c.last), c.last, sel)
            ELSE CommitAndShow(c.srv, Composition(c.last), c.last, sel)
    BY <1>1 DEF OnCharKey
  <2>2. c.srv \in EngineState /\ Composition(c.last) \in Seq(Glyph)
    BY <1>0, CallsFit, ResponseText DEF Call
  <2>3. Composition(c.last) # <<>> => Live(c.srv)
    <3>1. PICK a \in EnginePut(srv) : c.srv = a.srv /\ c.last = Reply(a)
      BY ReliableCalls DEF ExecutePut
    <3> QED
      BY <1>0, <3>1, EngineTypes, ShownIsHeld
  <2> QED
    BY <1>0, <2>1, <2>2, <2>3, ShowAndSyncShows, CommitAndShowShows
<1>2. ASSUME NEW command \in {"backspace", "convert"}, CommandAndShow(command)
      PROVE  PreeditIsLive'
  <2>1. PICK c \in ExecuteCommand(command, srv) :
          /\ srv' = c.srv
          /\ ~c.threw => ShowAndSync(c.last.outputBuffer, Composition(c.last), c.last, sel)
    BY <1>2 DEF CommandAndShow
  <2>2. c.last.outputBuffer \in Seq(Glyph) /\ Composition(c.last) \in Seq(Glyph)
    BY <1>0, CallsFit, ResponseText DEF Call
  <2>3. ~c.threw /\ (Composition(c.last) # <<>> => Live(c.srv))
    BY <1>0, AnsweredCommand, ShownIsHeld
  <2> QED
    BY <2>1, <2>2, <2>3, ShowAndSyncShows
<1>3. ASSUME NEW k \in {"left", "right"}, MoveInflection(k)
      PROVE  PreeditIsLive'
  <2>1. PICK c \in ExecuteCommand(k, srv) :
          /\ srv' = c.srv
          /\ ~c.threw =>
               \E e \in RequestEditSession(text, focus, c.last.outputBuffer \o GetLastKey(c.last),
                                           c.last.buffer) : text' = e.text
    BY <1>3 DEF MoveInflection
  <2>2. /\ c.last.outputBuffer \o GetLastKey(c.last) \in Seq(Glyph)
        /\ c.last.buffer \in Seq(Glyph)
    BY <1>0, CallsFit, ResponseText DEF Call
  <2>3. ~c.threw /\ (c.last.buffer # <<>> => Live(c.srv))
    BY <1>0, AnsweredCommand, ShownIsHeld
  <2> QED
    BY <2>1, <2>2, <2>3, EditShows DEF PreeditIsLive, Live
<1>4. ASSUME AcceptCandidate PROVE PreeditIsLive'
  <2>1. PICK c \in Select(sel, srv) :
          IF c.last.commandSucceed THEN CommitAndShow(c.srv, <<>>, c.last, 0)
          ELSE srv' = c.srv /\ text' = text
    BY <1>4 DEF AcceptCandidate
  <2>2. PICK a \in EngineSelect(sel, srv) : c.srv = a.srv /\ c.last = Reply(a)
    BY ReliableCalls DEF Select
  <2>3. CASE c.last.commandSucceed
    <3>1. c.srv \in EngineState
      BY <1>0, CallsFit DEF Call
    <3> QED
      BY <1>0, <2>1, <2>3, <3>1, CommitAndShowShows
  <2>4. CASE ~c.last.commandSucceed
    <3>1. ~a.ok
      BY <2>2, <2>4 DEF Reply
    <3>2. a.srv = srv
      <4>1. CASE \E t : a = [srv |-> t, ok |-> TRUE]
        BY <3>1, <4>1
      <4>2. CASE a = [srv |-> srv, ok |-> FALSE]
        BY <4>2
      <4> QED
        BY <4>1, <4>2 DEF EngineSelect
    <3> QED
      BY <2>1, <2>2, <2>4, <3>2 DEF PreeditIsLive
  <2> QED
    BY <2>3, <2>4
<1>5. ASSUME ToggleToDirect PROVE PreeditIsLive'
  BY <1>0, <1>5, EditShows DEF ToggleToDirect, PreeditIsLive
<1> QED
  BY <1>1, <1>2, <1>3, <1>4, <1>5

(* Unless an edit session is denied, a request or a reply gets lost or       *)
(* another program interferes, the pre-edit text on the screen stands for    *)
(* something that the engine still holds.                                    *)
THEOREM ShownPreeditIsLive ==
  ASSUME Faults \subseteq {"appRejects"}, ~Sharing
  PROVE  Spec => []PreeditIsLive
<1>1. Answered /\ "editDenied" \notin Faults
  BY DEF Answered
<1>2. Init => PreeditIsLive
  BY DEF Init, PreeditIsLive, BlankText
<1>3. ASSUME TypeOK, PreeditIsLive, [Next]_vars PROVE PreeditIsLive'
  <2>1. CASE AppTerminatesComposition \/ AppTerminatesOrphan
    <3>1. text \in TextState
      BY <1>3 DEF TypeOK
    <3>2. OnCompositionTerminated(text).composition = NoComposition
      BY <3>1, ReleaseType DEF OnCompositionTerminated, Release, Insert, TextState
    <3>3. OnCompositionTerminated(text) \in TextState
      BY <3>1, ReleaseType DEF OnCompositionTerminated
    <3>4. text'.composition = NoComposition
      BY <2>1, <3>2, <3>3
         DEF AppTerminatesComposition, AppTerminatesOrphan, OnOrphanTerminated, TextState
    <3> QED
      BY <3>4 DEF PreeditIsLive
  <2>2. ASSUME NEW k \in Arrows \cup {"next", "prior"}, MoveSelection(k)
        PROVE  UNCHANGED <<srv, text>>
    BY <2>2 DEF MoveSelection
  <2>3. NextCandidate \/ ToggleToTcode \/ ToggleInputMode \/ Deactivate \/ ActivateEx
          \/ FocusMoves \/ AppShowsList \/ UNCHANGED vars => UNCHANGED <<srv, text>>
    BY DEF NextCandidate, ToggleToTcode, ToggleInputMode, Deactivate, ActivateEx, FocusMoves,
           AppShowsList, vars
  <2>4. UNCHANGED <<srv, text>> => PreeditIsLive'
    BY <1>3 DEF PreeditIsLive
  <2>5. ~OtherProgram
    BY DEF OtherProgram
  <2> QED
    BY <1>1, <1>3, <2>1, <2>2, <2>3, <2>4, <2>5, KeysShow DEF Next, OnBackspace, Convert
<1> QED
  BY <1>2, <1>3, TypeCorrect, PTL DEF Spec
=============================================================================
