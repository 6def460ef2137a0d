----------------------------- MODULE ClientInit -----------------------------
(***************************************************************************)
(* The one GlazeClient of a process, g_glazeClient: every thread that has  *)
(* an IME runs the constructor of CEngineClient, which makes the client    *)
(* when it finds none, and then sends requests through the pointer.        *)
(* Nothing synchronises the threads.                                       *)
(*                                                                         *)
(* The assignment is that of std::unique_ptr: the old pointer is read, the *)
(* new one written, and then the old client deleted.  Loads and stores of  *)
(* a pointer are indivisible on the processors the DLL is built for.  A    *)
(* client is named after the thread that made it: see OnePerThread.        *)
(***************************************************************************)
CONSTANTS
  Threads,
  NoClient  \* the null pointer

ASSUME ThreadsAssumption == NoClient \notin Threads

VARIABLES
  pc,      \* where each thread is
  client,  \* g_glazeClient
  old,     \* the pointer a thread's assignment replaces
  held,    \* the client a thread is sending a request through
  made,    \* the clients that were made
  freed,   \* those that were deleted
  twice    \* those that were deleted again

vars == <<pc, client, old, held, made, freed, twice>>

Init ==
  /\ pc = [t \in Threads |-> "start"]
  /\ client = NoClient
  /\ old = [t \in Threads |-> NoClient]
  /\ held = [t \in Threads |-> NoClient]
  /\ made = {} /\ freed = {} /\ twice = {}

Goto(t, place) == pc' = [pc EXCEPT ![t] = place]

-----------------------------------------------------------------------------
(* Mutant: the constructor makes a client every time. *)
TestNothing(t) ==
  /\ pc[t] \in {"start", "ready"}
  /\ Goto(t, "make")
  /\ UNCHANGED <<client, old, held, made, freed, twice>>

(* Mutant: a flag says that a client is being made. *)
TestFlag(t) ==
  /\ pc[t] \in {"start", "ready"}
  /\ Goto(t, IF \A u \in Threads : pc[u] = "start" THEN "make" ELSE "ready")
  /\ UNCHANGED <<client, old, held, made, freed, twice>>

(* A new IME on the thread: if (!g_glazeClient). *)
Test(t) ==
  /\ pc[t] \in {"start", "ready"}
  /\ Goto(t, IF client = NoClient THEN "make" ELSE "ready")
  /\ UNCHANGED <<client, old, held, made, freed, twice>>

(* std::make_unique<GlazeClient> *)
Make(t) ==
  /\ pc[t] = "make"
  /\ made' = made \cup {t}
  /\ Goto(t, "read")
  /\ UNCHANGED <<client, old, held, freed, twice>>

(* Mutant: the old client is deleted before the new one is in its place. *)
ReadAndDelete(t) ==
  /\ pc[t] = "read"
  /\ old' = [old EXCEPT ![t] = client]
  /\ freed' = freed \cup ({client} \ {NoClient})
  /\ Goto(t, "write")
  /\ UNCHANGED <<client, held, made, twice>>

ReadOld(t) ==
  /\ pc[t] = "read"
  /\ old' = [old EXCEPT ![t] = client]
  /\ Goto(t, "write")
  /\ UNCHANGED <<client, held, made, freed, twice>>

(* Mutant: whatever was there is deleted. *)
WriteAndDelete(t) ==
  /\ pc[t] = "write"
  /\ client' = t
  /\ Goto(t, "delete")
  /\ UNCHANGED <<old, held, made, freed, twice>>

WriteNew(t) ==
  /\ pc[t] = "write"
  /\ client' = t
  /\ Goto(t, IF old[t] = NoClient THEN "ready" ELSE "delete")
  /\ UNCHANGED <<old, held, made, freed, twice>>

(* Mutant: the old client is deleted by hand and by its owner. *)
DeleteByHand(t) ==
  /\ pc[t] = "delete"
  /\ freed' = freed \cup {old[t]}
  /\ twice' = twice \cup {old[t]}
  /\ Goto(t, "ready")
  /\ UNCHANGED <<client, old, held, made>>

DeleteOld(t) ==
  /\ pc[t] = "delete"
  /\ freed' = freed \cup {old[t]}
  /\ twice' = twice \cup ({old[t]} \cap freed)
  /\ Goto(t, "ready")
  /\ UNCHANGED <<client, old, held, made>>

(* A request: g_glazeClient-> ... *)
BeginRequest(t) ==
  /\ pc[t] = "ready"
  /\ held' = [held EXCEPT ![t] = client]
  /\ Goto(t, "request")
  /\ UNCHANGED <<client, old, made, freed, twice>>

(* ... which reads the client's address of the engine and returns. *)
EndRequest(t) ==
  /\ pc[t] = "request"
  /\ Goto(t, "ready")
  /\ UNCHANGED <<client, old, held, made, freed, twice>>

Step(t) ==
  \/ Test(t) \/ Make(t) \/ ReadOld(t) \/ WriteNew(t) \/ DeleteOld(t)
  \/ BeginRequest(t) \/ EndRequest(t)

Next == \E t \in Threads : Step(t)

Spec == Init /\ [][Next]_vars

-----------------------------------------------------------------------------
(* Every variable has its type, and only clients that were made are deleted. *)
TypeOK ==
  /\ pc \in [Threads -> {"start", "make", "read", "write", "delete", "ready", "request"}]
  /\ client \in Threads \cup {NoClient}
  /\ old \in [Threads -> Threads \cup {NoClient}]
  /\ held \in [Threads -> Threads \cup {NoClient}]
  /\ made \subseteq Threads /\ freed \subseteq made /\ twice \subseteq freed

(* However the constructors race, g_glazeClient never names a client that is *)
(* deleted: a request that begins never starts with one.                     *)
GlobalIsLive == client \notin freed

(* Once the constructor of a thread has returned there is a client: the      *)
(* tests of g_glazeClient in front of every request never fail.              *)
AlwaysAClient ==
  /\ \A t \in Threads : pc[t] \in {"ready", "request"} => client # NoClient
  /\ \A t \in Threads : pc[t] = "request" => held[t] # NoClient

(* A client is deleted under a request only when two threads have both found *)
(* no client, and deleted twice only when three have: a process whose first  *)
(* IME is finished before its second is begun meets neither.                 *)
HarmTakesARace ==
  /\ freed # {} => \E t, u \in made : t # u
  /\ twice # {} => \E t, u, v \in made : t # u /\ u # v /\ t # v

(* No thread ever makes a second client: the pointer is never null again.    *)
OnePerThread == [][\A t \in Threads : Make(t) => t \notin made]_vars
=============================================================================
