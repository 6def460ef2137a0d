------------------------------ MODULE Lifetime ------------------------------
(***************************************************************************)
(* Who keeps the objects of the DLL alive: the references to each          *)
(* CTCodeIME, its mode button and its candidate list, the sinks it leaves  *)
(* with the framework, and the count that lets the host unload the DLL.    *)
(*                                                                         *)
(* A reference count is modelled by the set of its holders.  Each instance *)
(* serves one UI thread with documents (contexts) of its own; the count of *)
(* the DLL is common to all.                                               *)
(***************************************************************************)
EXTENDS Naturals, FiniteSets

CONSTANTS
  Instances,  \* one slot per UI thread that may create a CTCodeIME
  Contexts,   \* the documents of a thread
  NoContext,
  Buttons,    \* the mode buttons of an instance that may exist at a time
  Addresses,  \* where the loader may map the DLL
  NoAddress,
  MaxSinks,   \* bound: layout sinks left in one document
  MaxLocks    \* bound: LockServer(TRUE)

ASSUME LifetimeAssumption ==
  /\ NoContext \notin Contexts /\ NoAddress \notin Addresses
  /\ Buttons \cap {"key", "openclose", "conversion", "threadFocus", "client"} = {}
  /\ MaxSinks \in Nat /\ MaxLocks \in Nat

VARIABLES
  inst,     \* the objects of each slot
  factory,  \* a client holds the class factory
  locks,    \* LockServer(TRUE) not yet undone
  dllRefs,  \* g_cRefDll
  image,    \* where the DLL is mapped
  wndProc,  \* where the registered window class of the process has its code
  classRegistered  \* g_bClassRegistered

dll == <<image, wndProc, classRegistered>>
vars == <<inst, factory, locks, dllRefs, dll>>

(* The sinks that ActivateEx asks the framework for and Deactivate takes back. *)
Sinks == {"key", "openclose", "conversion", "threadFocus"}
Holders == Sinks \cup Buttons \cup {"client"}

(***************************************************************************)
(* holders:   who has a reference to the CTCodeIME: its client, its buttons *)
(*            and the sinks above                                          *)
(* leaked:    the framework has kept one that Deactivate did not get back  *)
(* layout:    registrations of our layout sink, per document               *)
(* cookie:    the document that issued _dwTextLayoutSinkCookie             *)
(* composing: the document of _pComposition, which holds the IME as its    *)
(*            sink until it ends                                           *)
(* orphans:   documents with an open composition that the IME forgot       *)
(* button:    who has a reference to each mode button                      *)
(* list:      who has one to the candidate list                            *)
(* focus:     the document with the focus of the thread                    *)
(* active:    _pThreadMgr is set                                           *)
(* activated: history: ActivateEx was called                               *)
(* mishaps:   history: was an unregistration refused, and did the focus    *)
(*            leave a document with a layout sink or composition of ours?  *)
(***************************************************************************)
Objects ==
  [holders: SUBSET Holders, leaked: BOOLEAN, layout: [Contexts -> Nat], cookie: Contexts \cup {NoContext},
   composing: Contexts \cup {NoContext}, orphans: SUBSET Contexts,
   button: [Buttons -> SUBSET {"ime", "langbar"}], list: SUBSET {"ime", "app"},
   focus: Contexts \cup {NoContext}, active: BOOLEAN, activated: BOOLEAN,
   mishaps: SUBSET {"refused", "strayed"}]

Nothing(f) ==
  [holders |-> {}, leaked |-> FALSE, layout |-> [c \in Contexts |-> 0], cookie |-> NoContext,
   composing |-> NoContext, orphans |-> {}, button |-> [b \in Buttons |-> {}], list |-> {},
   focus |-> f, active |-> FALSE, activated |-> FALSE, mishaps |-> {}]

Live(o) ==
  \/ o.holders # {} \/ o.leaked \/ o.composing # NoContext \/ o.orphans # {}
  \/ \E c \in Contexts : o.layout[c] > 0

Init ==
  /\ inst \in [Instances -> {Nothing(f) : f \in Contexts \cup {NoContext}}]
  /\ factory = FALSE
  /\ locks = 0
  /\ dllRefs = 0
  /\ image = NoAddress
  /\ wndProc = NoAddress
  /\ classRegistered = FALSE

-----------------------------------------------------------------------------
Release(o, hs) == [o EXCEPT !.holders = @ \ hs]

(* The last reference to the CTCodeIME runs its destructor, which releases  *)
(* the button and the candidate list.                                       *)
Settle(o) ==
  IF Live(o) THEN o
  ELSE [Nothing(o.focus) EXCEPT !.list = o.list \ {"ime"}, !.button = [b \in Buttons |-> o.button[b] \ {"ime"}]]

(* The last reference to a button runs its destructor, which releases the owner. *)
ReleaseButton(o, b, hs) ==
  LET p == [o EXCEPT !.button[b] = @ \ hs]
  IN  IF p.button[b] = {} THEN Release(p, {b}) ELSE p

(* _pModeButton *)
ModeButtons(o) == {b \in Buttons : "ime" \in o.button[b]}

(* Mutant: the owner is "not owned", as the header says. *)
UnownedButton(o, b) == [o EXCEPT !.button[b] = {"ime"}]

(* CTCodeModeButton: a new button takes a reference to its owner. *)
NewButton(o, b) == [o EXCEPT !.button[b] = {"ime"}, !.holders = @ \cup {b}]

(* One is made unless _pModeButton is set. *)
EnsureButton(o) ==
  IF ModeButtons(o) # {} THEN {o} ELSE {NewButton(o, b) : b \in {d \in Buttons : o.button[d] = {}}}

(* Mutant: the candidate list does not count. *)
CountedIME(o) == IF Live(o) THEN 1 ELSE 0

(* DllAddRef and DllRelease: the two classes that count are the IME and the list. *)
Counted(o) == (IF Live(o) THEN 1 ELSE 0) + (IF o.list # {} THEN 1 ELSE 0)

Becomes(i, o) ==
  /\ inst' = [inst EXCEPT ![i] = Settle(o)]
  /\ dllRefs' = (dllRefs + Counted(Settle(o))) - Counted(inst[i])

-----------------------------------------------------------------------------
(* The layout sink. *)

(* Nothing is done while a cookie is kept; the document may refuse. *)
InitContextSink(o, c) ==
  IF o.cookie # NoContext THEN {o}
  ELSE {o, [o EXCEPT !.layout[c] = @ + 1, !.cookie = c]}

(* Mutant: the cookie is forgotten and nothing is unadvised. *)
ForgetsCookie(o, c) == {[o EXCEPT !.cookie = NoContext]}

(* The cookie is forgotten although only the document that issued it takes   *)
(* it, and that one may refuse.                                              *)
UninitContextSink(o, c) ==
  LET forgotten == [o EXCEPT !.cookie = NoContext]
  IN  IF o.cookie # c \/ o.layout[c] = 0 THEN {forgotten}
      ELSE {[forgotten EXCEPT !.layout[c] = @ - 1], [forgotten EXCEPT !.mishaps = @ \cup {"refused"}]}

RoomForSink(o) == \A c \in Contexts : o.layout[c] < MaxSinks

-----------------------------------------------------------------------------
(* The compositions. *)

(* EndComposition with the edit cookie of the document c fails in another    *)
(* one, and _pComposition is released all the same.                          *)
Forgets(o, c) ==
  [o EXCEPT !.orphans = IF o.composing \in {c, NoContext} THEN @ ELSE @ \cup {o.composing}, !.composing = NoContext]

(* OnCompositionTerminated releases _pComposition, whichever one ended in c. *)
Terminated(o, c) ==
  IF c \notin o.orphans \cup {o.composing} THEN o
  ELSE [Forgets(o, c) EXCEPT !.orphans = @ \ {c}]

-----------------------------------------------------------------------------
(* The constructor of the list registers the window class, for the process  *)
(* and once per load of the DLL; nobody removes it.                         *)
RegisterCandidateClass ==
  IF classRegistered \/ wndProc # NoAddress
    THEN UNCHANGED <<wndProc, classRegistered>>
    ELSE wndProc' = image /\ classRegistered' = TRUE

(* CClassFactory::CreateInstance: the constructors of the IME, its button   *)
(* and its list, then QueryInterface, which may not know the interface.     *)
CreateInstance(i) ==
  /\ factory
  /\ ~Live(inst[i]) /\ inst[i].list = {}
  /\ \E client \in {{}, {"client"}} :
       \E o \in EnsureButton([Nothing(inst[i].focus) EXCEPT !.holders = client, !.list = {"ime"}]) :
         Becomes(i, o)
  /\ RegisterCandidateClass
  /\ UNCHANGED <<factory, locks, image>>

(* The framework deactivates a text service before it releases it. *)
ClientReleases(i) ==
  /\ "client" \in inst[i].holders /\ ~inst[i].active
  /\ Becomes(i, Release(inst[i], {"client"}))
  /\ UNCHANGED <<factory, locks, dll>>

(* Each registration may be refused, and only some of the results are read. *)
ActivateEx(i) ==
  LET Startup(o) == IF o.focus = NoContext THEN {o} ELSE InitContextSink(o, o.focus)
  IN  /\ "client" \in inst[i].holders /\ ~inst[i].active /\ RoomForSink(inst[i])
      /\ \E advised \in SUBSET Sinks, bar \in SUBSET {"langbar"}, o \in EnsureButton(inst[i]) :
           \E p \in Startup([o EXCEPT !.holders = @ \cup advised, !.active = TRUE, !.activated = TRUE,
                              !.button = [b \in Buttons |-> IF b \in ModeButtons(o) THEN @[b] \cup bar
                                                            ELSE @[b]]]) :
             Becomes(i, p)
      /\ UNCHANGED <<factory, locks, dll>>

(* The sinks given back, but for those whose removal fails or is left out    *)
(* for want of an interface, unnoticed.                                      *)
Unadvised(u, refused) ==
  [Release(u, Sinks) EXCEPT
     !.active = FALSE, !.leaked = @ \/ refused # {},
     !.mishaps = @ \cup (IF refused # {} THEN {"refused"} ELSE {})]

(* Everything but the button and the composition is given back. *)
Unregistered(o) ==
  LET unfollowed == IF o.focus = NoContext THEN {o} ELSE UninitContextSink(o, o.focus)
  IN  UNION {{Unadvised(p, refused) : refused \in SUBSET (o.holders \cap Sinks)} : p \in unfollowed}

(* The language bar may let go of the button later than RemoveItem. *)
Deactivate(i) ==
  /\ inst[i].active
  /\ \E b \in ModeButtons(inst[i]), released \in {{"ime"}, {"ime", "langbar"}}, u \in Unregistered(inst[i]) :
       Becomes(i, ReleaseButton(u, b, released))
  /\ UNCHANGED <<factory, locks, dll>>

(* The thread gets the focus back: the layout sink moves to its document.    *)
(* The sink that hears of it may be one left from an earlier activation.     *)
OnSetThreadFocus(i) ==
  LET o == inst[i]
  IN  /\ o.active /\ ("threadFocus" \in o.holders \/ o.leaked)
      /\ RoomForSink(o) /\ o.focus # NoContext
      /\ \E p \in UninitContextSink(o, o.focus) : \E q \in InitContextSink(p, o.focus) : Becomes(i, q)
      /\ UNCHANGED <<factory, locks, dll>>

(* A key's edit session ends the composition there is, and may start one.    *)
DoEditSession(i) ==
  LET o == inst[i]
  IN  /\ o.active /\ o.focus # NoContext
      /\ \E c \in {NoContext, o.focus} : Becomes(i, [Forgets(o, o.focus) EXCEPT !.composing = c])
      /\ UNCHANGED <<factory, locks, dll>>

-----------------------------------------------------------------------------
(* The application, the framework and the host. *)

FocusMoves(i) ==
  LET o == inst[i]
      left == IF o.cookie = NoContext /\ o.composing = NoContext THEN {} ELSE {"strayed"}
  IN  /\ \E f \in (Contexts \cup {NoContext}) \ {o.focus} :
           Becomes(i, [o EXCEPT !.focus = f, !.mishaps = @ \cup left])
      /\ UNCHANGED <<factory, locks, dll>>

CompositionEnds(i, c) ==
  /\ c \in inst[i].orphans \cup {inst[i].composing}
  /\ Becomes(i, Terminated(inst[i], c))
  /\ UNCHANGED <<factory, locks, dll>>

(* A closed document ends its composition and releases the sinks it has. *)
ContextCloses(i, c) ==
  /\ inst[i].layout[c] > 0 \/ c \in inst[i].orphans \cup {inst[i].composing}
  /\ Becomes(i, [Terminated(inst[i], c) EXCEPT !.layout[c] = 0, !.focus = IF @ = c THEN NoContext ELSE @])
  /\ UNCHANGED <<factory, locks, dll>>

(* The framework drops a leaked sink, with the thread manager at the latest. *)
SinkDropped(i) ==
  /\ inst[i].leaked
  /\ Becomes(i, [inst[i] EXCEPT !.leaked = FALSE])
  /\ UNCHANGED <<factory, locks, dll>>

LangBarReleases(i) ==
  /\ \E b \in Buttons : inst[i].button[b] = {"langbar"} /\ Becomes(i, ReleaseButton(inst[i], b, {"langbar"}))
  /\ UNCHANGED <<factory, locks, dll>>

(* An application that draws the candidates itself gets the list with the   *)
(* UI element and may keep it.                                              *)
AppTakesList(i) ==
  /\ inst[i].active /\ "app" \notin inst[i].list
  /\ Becomes(i, [inst[i] EXCEPT !.list = @ \cup {"app"}])
  /\ UNCHANGED <<factory, locks, dll>>

AppDropsList(i) ==
  /\ "app" \in inst[i].list
  /\ Becomes(i, [inst[i] EXCEPT !.list = @ \ {"app"}])
  /\ UNCHANGED <<factory, locks, dll>>

(* The loader maps the DLL, with its globals as they were compiled. *)
DllLoaded ==
  /\ image = NoAddress
  /\ image' \in Addresses
  /\ dllRefs' = 0
  /\ classRegistered' = FALSE
  /\ UNCHANGED <<inst, factory, locks, wndProc>>

DllCanUnloadNow == dllRefs = 0

DllUnloaded ==
  /\ image # NoAddress /\ DllCanUnloadNow
  /\ image' = NoAddress
  /\ UNCHANGED <<inst, factory, locks, dllRefs, wndProc, classRegistered>>

(* Mutant: a factory that does not count. *)
UncountedFactory ==
  /\ image # NoAddress /\ ~factory
  /\ factory' = TRUE
  /\ UNCHANGED <<inst, locks, dllRefs, dll>>

DllGetClassObject ==
  /\ image # NoAddress /\ ~factory
  /\ factory' = TRUE
  /\ dllRefs' = dllRefs + 1
  /\ UNCHANGED <<inst, locks, dll>>

FactoryReleased ==
  /\ factory
  /\ factory' = FALSE
  /\ dllRefs' = dllRefs - 1
  /\ UNCHANGED <<inst, locks, dll>>

LockServer(fLock) ==
  /\ IF fLock THEN factory /\ locks < MaxLocks /\ locks' = locks + 1 /\ dllRefs' = dllRefs + 1
              ELSE factory /\ locks > 0 /\ locks' = locks - 1 /\ dllRefs' = dllRefs - 1
  /\ UNCHANGED <<inst, factory, dll>>

Next ==
  \/ \E i \in Instances :
       \/ CreateInstance(i) \/ ClientReleases(i) \/ ActivateEx(i) \/ Deactivate(i)
       \/ OnSetThreadFocus(i) \/ DoEditSession(i) \/ FocusMoves(i) \/ SinkDropped(i)
       \/ AppTakesList(i) \/ AppDropsList(i) \/ LangBarReleases(i)
       \/ \E c \in Contexts : CompositionEnds(i, c) \/ ContextCloses(i, c)
  \/ DllLoaded \/ DllUnloaded
  \/ DllGetClassObject \/ FactoryReleased \/ \E fLock \in BOOLEAN : LockServer(fLock)

Spec == Init /\ [][Next]_vars

-----------------------------------------------------------------------------
(* The objects and counts keep their types; g_cRefDll does not go negative. *)
TypeOK ==
  /\ inst \in [Instances -> Objects]
  /\ factory \in BOOLEAN
  /\ locks \in Nat
  /\ dllRefs \in Nat
  /\ {image, wndProc} \subseteq Addresses \cup {NoAddress}
  /\ classRegistered \in BOOLEAN

(* The language bar calls the button at any time (OnClick, GetText, GetIcon) *)
(* and the button calls its owner: as long as anybody holds the button, the  *)
(* IME is alive.                                                             *)
ButtonHasOwner == \A i \in Instances, b \in Buttons : inst[i].button[b] # {} => Live(inst[i])

(* When DllCanUnloadNow lets the host unload the DLL, no object with code in *)
(* it is left with anybody: no IME, button, candidate list or factory, and   *)
(* nobody asked to keep the server.                                          *)
UnloadSafe ==
  image = NoAddress =>
    /\ ~factory /\ locks = 0
    /\ \A i \in Instances :
         ~Live(inst[i]) /\ inst[i].list = {} /\ \A b \in Buttons : inst[i].button[b] = {}

(* An IME that was activated and deactivated any number of times, with       *)
(* whatever registrations refused, has given up its button and its sinks     *)
(* when its client has released it.  Unless the framework did not take one   *)
(* back, or the focus left a document while it had a layout sink or a        *)
(* composition of ours, it is then kept by nothing but the language bar's    *)
(* button and the open composition, and destroyed when those go.             *)
ReleasedIsDestroyed ==
  \A i \in Instances :
    LET o == inst[i]
    IN  o.activated /\ "client" \notin o.holders =>
          /\ o.holders \subseteq Buttons
          /\ \A b \in Buttons : o.button[b] \subseteq {"langbar"}
          /\ o.mishaps = {} /\ Live(o) => o.composing # NoContext \/ \E b \in Buttons : o.button[b] = {"langbar"}

-----------------------------------------------------------------------------
(* What a comment in the code says and the code does not do. *)

(* CTCodeCandidateListUI.cpp:41: leaving the window class registered         *)
(* "prevents the DLL from crashing": a candidate list that may open a window *)
(* finds the code of its class where the DLL is mapped.                      *)
ClassCodeIsMapped == \A i \in Instances : inst[i].list # {} => wndProc = image
=============================================================================
