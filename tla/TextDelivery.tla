---------------------------- MODULE TextDelivery ----------------------------
(***************************************************************************)
(* What the input method promises about finished text, without keys,       *)
(* caches, requests or edit sessions: the engine makes pieces 1, 2, 3, ... *)
(* and the documents only grow.  A piece gets into a document at the very  *)
(* moment it is made or never, into one document, behind everything that   *)
(* was written before; none is dropped if the delivery is Lossless.        *)
(*                                                                         *)
(* Between the pieces a document may get other glyphs (pre-edit text that  *)
(* stays behind).  TCodeIME implements this specification.                 *)
(***************************************************************************)
EXTENDS Integers, Sequences

CONSTANTS
  Docs,      \* the documents
  Glyph,     \* what documents consist of; pieces are the numbers among it
  Lossless   \* is every piece delivered?

VARIABLES
  made,      \* how many pieces were made
  doc        \* the text in each document

vars == <<made, doc>>

IsPiece(glyph) == glyph \in Nat

Init ==
  /\ made = 0
  /\ doc = [d \in Docs |-> <<>>]

(* The positions that a step adds to a document. *)
Added(d) == Len(doc[d]) + 1 .. Len(doc'[d])

(* What is written stays, and nothing is written before it. *)
Extends ==
  /\ doc' \in [Docs -> Seq(Glyph)]
  /\ \A d \in Docs :
       /\ Len(doc[d]) <= Len(doc'[d])
       /\ \A i \in 1 .. Len(doc[d]) : doc'[d][i] = doc[d][i]

(* The pieces among the added glyphs are new ones ... *)
OnlyNewPieces ==
  \A d \in Docs : \A i \in Added(d) : IsPiece(doc'[d][i]) => doc'[d][i] \in made + 1 .. made'

(* ... in the order they were made, and each in one document. *)
OneByOne ==
  /\ \A d \in Docs : \A i, j \in Added(d) :
       i < j /\ IsPiece(doc'[d][i]) /\ IsPiece(doc'[d][j]) => doc'[d][i] < doc'[d][j]
  /\ \A d, e \in Docs : d # e =>
       \A i \in Added(d), j \in Added(e) : IsPiece(doc'[d][i]) => doc'[d][i] # doc'[e][j]

AllNewPieces ==
  \A n \in made + 1 .. made' : \E d \in Docs : \E i \in Added(d) : doc'[d][i] = n

Write ==
  /\ made' \in Nat /\ made <= made'
  /\ Extends
  /\ OnlyNewPieces
  /\ OneByOne
  /\ Lossless => AllNewPieces

Spec == Init /\ [][Write]_vars

-----------------------------------------------------------------------------
TypeOK == made \in Nat /\ doc \in [Docs -> Seq(Glyph)]

(* Pieces that were made, at most once and in order, in one document.        *)
InOrder ==
  /\ \A d \in Docs : \A i \in DOMAIN doc[d] : IsPiece(doc[d][i]) => doc[d][i] \in 1 .. made
  /\ \A d \in Docs : \A i, j \in DOMAIN doc[d] :
       i < j /\ IsPiece(doc[d][i]) /\ IsPiece(doc[d][j]) => doc[d][i] < doc[d][j]
  /\ \A d, e \in Docs : d # e =>
       \A i \in DOMAIN doc[d], j \in DOMAIN doc[e] : IsPiece(doc[d][i]) => doc[d][i] # doc[e][j]

(* Every piece that was made is in a document.                               *)
Complete == \A n \in 1 .. made : \E d \in Docs : \E i \in DOMAIN doc[d] : doc[d][i] = n
=============================================================================
