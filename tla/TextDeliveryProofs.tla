------------------------ MODULE TextDeliveryProofs ------------------------
(* What follows from the promise about finished text, for any documents. *)
EXTENDS TextDelivery, TLAPS

(* Documents stay sequences and the pieces are counted. *)
LEMMA TypeCorrect == Spec => []TypeOK
<1>1. Init => TypeOK
  BY SMT DEF Init, TypeOK
<1>2. TypeOK /\ [Write]_vars => TypeOK'
  BY DEF TypeOK, Write, Extends, vars
<1> QED
  BY <1>1, <1>2, PTL DEF Spec

(* A position of the new text is an old one or an added one. *)
LEMMA OldOrAdded ==
  ASSUME TypeOK, Extends, NEW d \in Docs, NEW i \in DOMAIN doc'[d]
  PROVE  \/ i \in DOMAIN doc[d] /\ doc'[d][i] = doc[d][i]
         \/ i \in Added(d)
<1>1. doc[d] \in Seq(Glyph) /\ doc'[d] \in Seq(Glyph)
  BY DEF TypeOK, Extends
<1>2. /\ i \in 1 .. Len(doc'[d])
      /\ DOMAIN doc[d] = 1 .. Len(doc[d])
      /\ Len(doc[d]) \in Nat
      /\ Len(doc'[d]) \in Nat
  BY <1>1
<1>3. CASE i <= Len(doc[d])
  <2>1. i \in 1 .. Len(doc[d])
    BY <1>2, <1>3
  <2> QED
    BY <1>2, <2>1 DEF Extends
<1>4. CASE ~(i <= Len(doc[d]))
  BY <1>2, <1>4 DEF Added
<1> QED
  BY <1>3, <1>4

(* Whatever is written, in whichever documents: each finished piece is in at *)
(* most one of them, at most once, and in the order it was made.             *)
THEOREM PiecesInOrder == Spec => []InOrder
<1>1. Init => InOrder
  BY SMT DEF Init, InOrder
<1>2. TypeOK /\ InOrder /\ [Write]_vars => InOrder'
  <2> SUFFICES ASSUME TypeOK, InOrder, [Write]_vars
               PROVE  InOrder'
    OBVIOUS
  <2>1. CASE UNCHANGED vars
    BY <2>1 DEF InOrder, vars
  <2>2. CASE Write
    <3>0. made \in Nat /\ made' \in Nat /\ made <= made' /\ Extends
      BY <2>2 DEF Write, TypeOK
    <3>1. ASSUME NEW d \in Docs, NEW i \in DOMAIN doc'[d], IsPiece(doc'[d][i])
          PROVE  \/ i \in DOMAIN doc[d] /\ doc'[d][i] = doc[d][i] /\ doc'[d][i] \in 1 .. made
                 \/ i \in Added(d) /\ doc'[d][i] \in made + 1 .. made'
      <4>1. CASE i \in DOMAIN doc[d] /\ doc'[d][i] = doc[d][i]
        BY <3>1, <4>1 DEF InOrder
      <4>2. CASE i \in Added(d)
        BY <2>2, <3>1, <4>2 DEF Write, OnlyNewPieces
      <4> QED
        BY <3>0, <3>1, <4>1, <4>2, OldOrAdded
    <3>2. ASSUME NEW d \in Docs, NEW i \in DOMAIN doc'[d], IsPiece(doc'[d][i])
          PROVE  doc'[d][i] \in 1 .. made'
      <4>1. doc'[d][i] \in 1 .. made \/ doc'[d][i] \in made + 1 .. made'
        BY <3>1, <3>2
      <4> QED
        BY <3>0, <4>1
    <3>3. ASSUME NEW d \in Docs, NEW i \in DOMAIN doc'[d], NEW j \in DOMAIN doc'[d],
                 i < j, IsPiece(doc'[d][i]), IsPiece(doc'[d][j])
          PROVE  doc'[d][i] < doc'[d][j]
      <4> DEFINE old(k) == k \in DOMAIN doc[d] /\ doc'[d][k] = doc[d][k] /\ doc'[d][k] \in 1 .. made
                 new(k) == k \in Added(d) /\ doc'[d][k] \in made + 1 .. made'
      <4>1. (old(i) \/ new(i)) /\ (old(j) \/ new(j))
        BY <3>1, <3>3
      <4>2. CASE old(i) /\ old(j)
        BY <3>3, <4>2 DEF InOrder
      <4>3. CASE old(i) /\ new(j)
        BY <3>0, <4>3
      <4>4. CASE new(i) /\ old(j)
        <5>1. doc[d] \in Seq(Glyph) /\ Len(doc[d]) \in Nat /\ DOMAIN doc[d] = 1 .. Len(doc[d])
          BY DEF TypeOK
        <5>2. Len(doc'[d]) \in Nat
          BY <3>0 DEF Extends
        <5> QED
          BY <3>3, <4>4, <5>1, <5>2 DEF Added
      <4>5. CASE new(i) /\ new(j)
        BY <2>2, <3>3, <4>5 DEF Write, OneByOne
      <4> QED
        BY <4>1, <4>2, <4>3, <4>4, <4>5
    <3>4. ASSUME NEW d \in Docs, NEW e \in Docs, d # e,
                 NEW i \in DOMAIN doc'[d], NEW j \in DOMAIN doc'[e], IsPiece(doc'[d][i])
          PROVE  doc'[d][i] # doc'[e][j]
      <4> SUFFICES ASSUME doc'[d][i] = doc'[e][j]
                   PROVE  FALSE
        OBVIOUS
      <4>1. IsPiece(doc'[e][j])
        BY <3>4
      <4>2. \/ i \in DOMAIN doc[d] /\ doc'[d][i] = doc[d][i] /\ doc'[d][i] \in 1 .. made
            \/ i \in Added(d) /\ doc'[d][i] \in made + 1 .. made'
        BY <3>1, <3>4
      <4>3. \/ j \in DOMAIN doc[e] /\ doc'[e][j] = doc[e][j] /\ doc'[e][j] \in 1 .. made
            \/ j \in Added(e) /\ doc'[e][j] \in made + 1 .. made'
        BY <3>1, <3>4, <4>1
      <4>4. CASE i \in DOMAIN doc[d] /\ doc'[d][i] = doc[d][i] /\ j \in DOMAIN doc[e] /\ doc'[e][j] = doc[e][j]
        BY <3>4, <4>4 DEF InOrder
      <4>5. CASE i \in Added(d) /\ j \in Added(e)
        BY <2>2, <3>4, <4>5 DEF Write, OneByOne
      <4>6. CASE doc'[d][i] \in 1 .. made /\ doc'[e][j] \in made + 1 .. made'
        BY <3>0, <4>6
      <4>7. CASE doc'[d][i] \in made + 1 .. made' /\ doc'[e][j] \in 1 .. made
        BY <3>0, <4>7
      <4> QED
        BY <4>2, <4>3, <4>4, <4>5, <4>6, <4>7
    <3> QED
      BY <3>2, <3>3, <3>4 DEF InOrder
  <2> QED
    BY <2>1, <2>2 DEF vars
<1> QED
  BY <1>1, <1>2, TypeCorrect, PTL DEF Spec

(* A lossless delivery has delivered every piece that was made, at any time. *)
THEOREM NoPieceIsLost == ASSUME Lossless PROVE Spec => []Complete
<1>1. Init => Complete
  BY SMT DEF Init, Complete
<1>2. TypeOK /\ Complete /\ [Write]_vars => Complete'
  <2> SUFFICES ASSUME TypeOK, Complete, [Write]_vars, NEW n \in 1 .. made'
               PROVE  \E d \in Docs : \E i \in DOMAIN doc'[d] : doc'[d][i] = n
    BY DEF Complete
  <2>1. CASE UNCHANGED vars
    BY <2>1 DEF Complete, vars
  <2>2. CASE Write
    <3>0. /\ made \in Nat /\ made' \in Nat /\ Extends /\ AllNewPieces
          /\ \A d \in Docs : doc[d] \in Seq(Glyph) /\ doc'[d] \in Seq(Glyph)
      BY <2>2 DEF Write, TypeOK, Extends
    <3>1. CASE n \in 1 .. made
      <4>1. PICK d \in Docs : \E i \in DOMAIN doc[d] : doc[d][i] = n
        BY <3>1 DEF Complete
      <4>2. PICK i \in DOMAIN doc[d] : doc[d][i] = n
        BY <4>1
      <4>3. i \in DOMAIN doc'[d] /\ doc'[d][i] = n
        BY <3>0, <4>2 DEF Extends
      <4> QED
        BY <4>3
    <3>2. CASE n \in made + 1 .. made'
      <4>1. PICK d \in Docs : \E i \in Added(d) : doc'[d][i] = n
        BY <3>0, <3>2 DEF AllNewPieces
      <4>2. PICK i \in Added(d) : doc'[d][i] = n
        BY <4>1
      <4>3. i \in DOMAIN doc'[d]
        BY <3>0, <4>2 DEF Added
      <4> QED
        BY <4>2, <4>3
    <3> QED
      BY <3>0, <3>1, <3>2
  <2> QED
    BY <2>1, <2>2 DEF vars
<1> QED
  BY <1>1, <1>2, TypeCorrect, PTL DEF Spec
=============================================================================
