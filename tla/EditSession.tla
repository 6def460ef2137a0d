---------------------------- MODULE EditSession ----------------------------
(***************************************************************************)
(* CManageCompositionEditSession: how committed text and the pre-edit      *)
(* (composition) get into a document.                                      *)
(*                                                                         *)
(* A document is an ITfContext.  doc records what the input method left in *)
(* it for good; what the user types past the input method is not recorded. *)
(* An edit session holds the lock of ONE context.  A composition that      *)
(* lives in another context refuses SetText and EndComposition, but the    *)
(* code does not look at their results and drops its pointer all the same: *)
(* the composition is then an orphan, which nobody will ever end.          *)
(*                                                                         *)
(* The range of a composition is always found (GetRange does not fail).    *)
(***************************************************************************)
EXTENDS EngineClient

CONSTANTS
  Contexts,  \* the documents of one thread
  NoContext

ASSUME ContextAssumption == NoContext \notin Contexts

(* The marks and the pre-edit are no finished pieces. *)
ASSUME GlyphAssumption == {Kana, KeyMark, BadMark} \cap Nat = {}

Glyph == Nat \cup {Kana, KeyMark, BadMark}

(* _pComposition: the context it lives in and the text it displays there. *)
NoComposition == [ctx |-> NoContext, text |-> <<>>]

TextState ==
  [composition: [ctx: Contexts \cup {NoContext}, text: Seq(Glyph)],
   doc: [Contexts -> Seq(Glyph)],
   orphans: SUBSET Contexts]

BlankText == [composition |-> NoComposition, doc |-> [c \in Contexts |-> <<>>], orphans |-> {}]

(* Mutant: text goes to the start of the document. *)
InsertFront(t, c, string) == [t EXCEPT !.doc[c] = string \o @]

Insert(t, c, string) == [t EXCEPT !.doc[c] = @ \o string]

(* The pointer is gone and the displayed text stays where it is. *)
Release(t) == [Insert(t, t.composition.ctx, t.composition.text) EXCEPT !.composition = NoComposition]

(* ... while the application still holds the composition open. *)
Orphan(t) == [Release(t) EXCEPT !.orphans = @ \cup {t.composition.ctx}]

Elsewhere(t, c) == t.composition.ctx \notin {c, NoContext}

-----------------------------------------------------------------------------
(* Mutant: a composition swallows the committed text. *)
CommitNothing(t, c, committed) ==
  IF committed = <<>> THEN t
  ELSE IF t.composition = NoComposition THEN Insert(t, c, committed)
  ELSE [t EXCEPT !.composition = NoComposition]

(* 1. Committed text replaces the composition, or goes to the caret. *)
CommitText(t, c, committed) ==
  IF committed = <<>> THEN t
  ELSE IF Elsewhere(t, c) THEN Orphan(t)
  ELSE [Insert(t, c, committed) EXCEPT !.composition = NoComposition]

(* Mutant: Release without EndComposition. *)
ReleaseOnly(t, c) == IF t.composition = NoComposition THEN t ELSE Orphan(t)

(* 2. The old composition is wiped and ended. *)
WipeComposition(t, c) ==
  IF Elsewhere(t, c) THEN Orphan(t) ELSE [t EXCEPT !.composition = NoComposition]

(* 3. A new one is started unless there is nothing to show. *)
StartComposition(t, c, composition) ==
  IF composition = <<>> THEN t
  ELSE [t EXCEPT !.composition = [ctx |-> c, text |-> composition]]

(* Mutant: an edit session that only wipes what it replaces. *)
DoEditSessionSticky(t, c, committed, composition) ==
  StartComposition(CommitText(t, c, committed), c, composition)

DoEditSession(t, c, committed, composition) ==
  StartComposition(WipeComposition(CommitText(t, c, committed), c), c, composition)

(* What is left of a text when GetSelection finds no caret for it, or when   *)
(* no composition gets started: a text that is dropped is as good as empty.  *)
Placed(string) == {string} \cup {<<>> : f \in Faults \cap {"noRange"}}

(* Committed text that replaces a composition needs no caret.                *)
PlacedCommit(t, committed) ==
  IF t.composition = NoComposition THEN Placed(committed) ELSE {committed}

(***************************************************************************)
(* The application runs the session at once and places what it can, or     *)
(* denies the session and the code does not notice, or answers             *)
(* StartComposition with S_OK and no composition, which DoEditSession      *)
(* dereferences.                                                           *)
(***************************************************************************)
RequestEditSession(t, c, committed, composition) ==
  {[text |-> DoEditSession(t, c, kept, shown), crashed |-> FALSE] :
     kept \in PlacedCommit(t, committed), shown \in Placed(composition)}
    \cup {[text |-> t, crashed |-> FALSE] : f \in Faults \cap {"editDenied"}}
    \cup {[text |-> DoEditSession(t, c, kept, <<>>), crashed |-> TRUE] :
            kept \in PlacedCommit(t, committed),
            f \in {g \in Faults \cap {"appRejects"} : composition # <<>>}}

(* OnCompositionTerminated: whichever composition the application ends, the *)
(* code releases the pointer it currently has.                              *)
OnCompositionTerminated(t) == IF t.composition = NoComposition THEN t ELSE Release(t)

OnOrphanTerminated(t, c) ==
  [OnCompositionTerminated(t) EXCEPT
     !.orphans = (@ \ {c}) \cup ({t.composition.ctx} \ {NoContext})]
=============================================================================
