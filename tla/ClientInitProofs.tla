-------------------------- MODULE ClientInitProofs --------------------------
(***************************************************************************)
(* ClientInit for any set of threads.                                      *)
(*                                                                         *)
(* The invariant says who can still name a client: a client is deleted     *)
(* only by a thread that has replaced it, and only a thread that has just  *)
(* made one writes it, once.                                               *)
(***************************************************************************)
EXTENDS ClientInit, TLAPS

Constructed == {"ready", "request"}
Written == {"delete", "ready", "request"}

(* The clients that have been in g_glazeClient. *)
HasBeenThere(x) == x \in made /\ pc[x] \in Written

(* Only a thread whose constructor made a client is past the test.          *)
MakersAreKnown ==
  /\ \A t \in Threads : pc[t] \in {"read", "write", "delete"} => t \in made
  /\ \A t \in made : pc[t] \notin {"start", "make"}
  /\ \A t \in Threads : old[t] # NoClient => t \in made

(* What is read from g_glazeClient was written there, and something stays.   *)
PointersWereThere ==
  /\ \A t \in Threads : pc[t] \in Written => client # NoClient
  /\ client # NoClient => HasBeenThere(client)
  /\ \A t \in Threads : old[t] # NoClient => HasBeenThere(old[t]) /\ old[t] # t

(* A client about to be deleted is out of g_glazeClient for good.            *)
DeletesAreLate ==
  /\ \A t \in Threads : pc[t] = "delete" => old[t] # NoClient /\ old[t] # client
  /\ \A x \in freed : HasBeenThere(x)
  /\ \A x \in freed : \E t \in made : old[t] = x /\ pc[t] \in Constructed

IInv ==
  /\ TypeOK /\ GlobalIsLive /\ AlwaysAClient /\ HarmTakesARace
  /\ MakersAreKnown /\ PointersWereThere /\ DeletesAreLate

-----------------------------------------------------------------------------
LEMMA InitIInv == Init => IInv
  BY ThreadsAssumption
  DEF Init, IInv, TypeOK, GlobalIsLive, AlwaysAClient, HarmTakesARace, MakersAreKnown,
      PointersWereThere, DeletesAreLate, HasBeenThere, Constructed, Written

(* A thread whose constructor finds a client, or none.                       *)
LEMMA TestKeepsIInv ==
  ASSUME IInv, NEW t \in Threads, Test(t)
  PROVE  IInv'
<1> USE ThreadsAssumption DEF Test, Goto, IInv, TypeOK, Constructed, Written
<1>1. TypeOK'
  OBVIOUS
<1>2. GlobalIsLive' /\ HarmTakesARace'
  BY DEF GlobalIsLive, HarmTakesARace
<1>3. AlwaysAClient'
  BY DEF AlwaysAClient
<1>4. t \in made => pc[t] = "ready" /\ client # NoClient
  BY DEF MakersAreKnown, AlwaysAClient
<1>5. MakersAreKnown'
  BY <1>4 DEF MakersAreKnown
<1>6. PointersWereThere'
  BY <1>4 DEF PointersWereThere, HasBeenThere
<1>7. DeletesAreLate'
  BY <1>4 DEF DeletesAreLate, HasBeenThere
<1> QED
  BY <1>1, <1>2, <1>3, <1>5, <1>6, <1>7

LEMMA MakeKeepsIInv ==
  ASSUME IInv, NEW t \in Threads, Make(t)
  PROVE  IInv' /\ t \notin made
<1> USE ThreadsAssumption DEF Make, Goto, IInv, TypeOK, Constructed, Written
<1>1. t \notin made
  BY DEF MakersAreKnown
<1>2. TypeOK'
  OBVIOUS
<1>3. GlobalIsLive' /\ HarmTakesARace' /\ AlwaysAClient'
  BY DEF GlobalIsLive, HarmTakesARace, AlwaysAClient
<1>4. MakersAreKnown'
  BY DEF MakersAreKnown
<1>5. PointersWereThere'
  BY <1>1 DEF PointersWereThere, HasBeenThere
<1>6. DeletesAreLate'
  BY <1>1 DEF DeletesAreLate, HasBeenThere
<1> QED
  BY <1>1, <1>2, <1>3, <1>4, <1>5, <1>6

LEMMA ReadOldKeepsIInv ==
  ASSUME IInv, NEW t \in Threads, ReadOld(t)
  PROVE  IInv'
<1> USE ThreadsAssumption DEF ReadOld, Goto, IInv, TypeOK, Constructed, Written
<1>1. TypeOK'
  OBVIOUS
<1>2. GlobalIsLive' /\ HarmTakesARace' /\ AlwaysAClient'
  BY DEF GlobalIsLive, HarmTakesARace, AlwaysAClient
<1>3. t \in made /\ ~HasBeenThere(t)
  BY DEF MakersAreKnown, HasBeenThere
<1>4. MakersAreKnown'
  BY <1>3 DEF MakersAreKnown
<1>5. client # t
  BY <1>3 DEF PointersWereThere
<1>6. PointersWereThere'
  BY <1>3, <1>5 DEF PointersWereThere, HasBeenThere
<1>7. DeletesAreLate'
  BY <1>3 DEF DeletesAreLate, HasBeenThere
<1> QED
  BY <1>1, <1>2, <1>4, <1>6, <1>7

LEMMA WriteNewKeepsIInv ==
  ASSUME IInv, NEW t \in Threads, WriteNew(t)
  PROVE  IInv'
<1> USE ThreadsAssumption DEF WriteNew, Goto, IInv, TypeOK, Constructed, Written
<1>1. TypeOK'
  OBVIOUS
<1>2. t \in made /\ ~HasBeenThere(t)
  BY DEF MakersAreKnown, HasBeenThere
<1>3. t \notin freed
  BY <1>2 DEF DeletesAreLate
<1>4. GlobalIsLive' /\ HarmTakesARace' /\ AlwaysAClient'
  BY <1>3 DEF GlobalIsLive, HarmTakesARace, AlwaysAClient
<1>5. MakersAreKnown'
  BY <1>2 DEF MakersAreKnown
<1>6. PointersWereThere'
  BY <1>2 DEF PointersWereThere, HasBeenThere
<1>7. DeletesAreLate'
  <2>1. \A u \in Threads : old[u] # t
    BY <1>2 DEF PointersWereThere
  <2> QED
    BY <1>2, <2>1 DEF DeletesAreLate, HasBeenThere
<1> QED
  BY <1>1, <1>4, <1>5, <1>6, <1>7

LEMMA DeleteOldKeepsIInv ==
  ASSUME IInv, NEW t \in Threads, DeleteOld(t)
  PROVE  IInv'
<1> USE ThreadsAssumption DEF DeleteOld, Goto, IInv, TypeOK, Constructed, Written
<1> DEFINE x == old[t]
<1>1. /\ x # NoClient /\ x # client /\ x # t
      /\ x \in made /\ HasBeenThere(x) /\ t \in made
  BY DEF DeletesAreLate, PointersWereThere, MakersAreKnown, HasBeenThere
<1>2. TypeOK'
  BY <1>1
<1>3. client \in made \/ client = NoClient
  BY DEF PointersWereThere, HasBeenThere
<1>4. GlobalIsLive'
  BY <1>1 DEF GlobalIsLive
<1>5. AlwaysAClient'
  <2>1. client # NoClient
    BY DEF PointersWereThere
  <2> QED
    BY <2>1 DEF AlwaysAClient
<1>6. HarmTakesARace'
  <2>1. \E u, v \in made : u # v
    BY <1>1
  <2>2. CASE x \in freed
    <3>1. PICK v \in made : old[v] = x /\ pc[v] \in Constructed
      BY <2>2 DEF DeletesAreLate
    <3>2. v # t /\ v # x
      BY <3>1 DEF PointersWereThere
    <3> QED
      BY <1>1, <3>2 DEF HarmTakesARace
  <2>3. CASE x \notin freed
    BY <2>1, <2>3 DEF HarmTakesARace
  <2> QED
    BY <2>2, <2>3
<1>7. MakersAreKnown'
  BY <1>1 DEF MakersAreKnown
<1>8. PointersWereThere'
  BY DEF PointersWereThere, HasBeenThere
<1>9. DeletesAreLate'
  <2>1. \A u \in Threads : (pc[u] = "delete" => old[u] # NoClient /\ old[u] # client)'
    BY DEF DeletesAreLate
  <2>2. \A y \in freed' : HasBeenThere(y)'
    BY <1>1 DEF DeletesAreLate, HasBeenThere
  <2>3. \A y \in freed' : \E u \in made : old[u] = y /\ pc'[u] \in Constructed
    BY <1>1 DEF DeletesAreLate
  <2> QED
    BY <2>1, <2>2, <2>3 DEF DeletesAreLate
<1> QED
  BY <1>2, <1>4, <1>5, <1>6, <1>7, <1>8, <1>9

(* Requests only read. *)
LEMMA RequestKeepsIInv ==
  ASSUME IInv, NEW t \in Threads, BeginRequest(t) \/ EndRequest(t)
  PROVE  IInv'
<1> USE ThreadsAssumption DEF BeginRequest, EndRequest, Goto, IInv, TypeOK, Constructed, Written
<1>1. TypeOK'
  OBVIOUS
<1>2. GlobalIsLive' /\ HarmTakesARace' /\ AlwaysAClient'
  BY DEF GlobalIsLive, HarmTakesARace, AlwaysAClient
<1>3. MakersAreKnown'
  BY DEF MakersAreKnown
<1>4. PointersWereThere'
  BY DEF PointersWereThere, HasBeenThere
<1>5. DeletesAreLate'
  BY DEF DeletesAreLate, HasBeenThere
<1> QED
  BY <1>1, <1>2, <1>3, <1>4, <1>5

LEMMA NextKeepsIInv == IInv /\ [Next]_vars => IInv'
<1> SUFFICES ASSUME IInv, [Next]_vars
             PROVE  IInv'
  OBVIOUS
<1>1. CASE Next
  BY <1>1, TestKeepsIInv, MakeKeepsIInv, ReadOldKeepsIInv, WriteNewKeepsIInv,
     DeleteOldKeepsIInv, RequestKeepsIInv DEF Next, Step
<1>2. CASE UNCHANGED vars
  BY <1>2 DEF vars, IInv, TypeOK, GlobalIsLive, AlwaysAClient, HarmTakesARace, MakersAreKnown,
     PointersWereThere, DeletesAreLate, HasBeenThere
<1> QED
  BY <1>1, <1>2

LEMMA Invariance == Spec => []IInv
  BY InitIInv, NextKeepsIInv, PTL DEF Spec

-----------------------------------------------------------------------------
(* Every variable keeps its type. *)
THEOREM TypeCorrect == Spec => []TypeOK
  BY Invariance, PTL DEF IInv

(* g_glazeClient never names a deleted client, however many threads race     *)
(* (CEngineClient::CEngineClient).                                           *)
THEOREM GlobalStaysLive == Spec => []GlobalIsLive
  BY Invariance, PTL DEF IInv

(* A thread whose constructor has returned always finds a client.            *)
THEOREM ClientIsThere == Spec => []AlwaysAClient
  BY Invariance, PTL DEF IInv

(* A client is deleted only when two constructors, and deleted twice only    *)
(* when three, have found none.                                              *)
THEOREM RaceBehindHarm == Spec => []HarmTakesARace
  BY Invariance, PTL DEF IInv

(* No thread makes two clients.                                              *)
THEOREM MakesOnce == Spec => OnePerThread
<1>1. IInv /\ [Next]_vars => [\A t \in Threads : Make(t) => t \notin made]_vars
  BY MakeKeepsIInv
<1> QED
  BY <1>1, Invariance, PTL DEF Spec, OnePerThread
=============================================================================
