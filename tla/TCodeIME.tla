------------------------------ MODULE TCodeIME ------------------------------
(***************************************************************************)
(* CTCodeIME, the text service of one UI thread, between the application   *)
(* (key events, focus, documents), the user (mode button, input switcher)  *)
(* and the engine.  One action is one whole callback of the class: the     *)
(* framework calls it on the UI thread and it blocks until the engine      *)
(* and the application have answered.                                      *)
(*                                                                         *)
(* Other programs talk to the same engine.  Their requests fall between    *)
(* two callbacks, and between the two requests of one callback.            *)
(***************************************************************************)
EXTENDS CandidateList, EditSession, Functions

CONSTANTS
  Sharing,   \* do other programs use the engine?
  MaxSel,    \* bound: m_selectedIndex
  MaxDoc     \* bound: glyphs the input method leaves in a document

ASSUME BoundsAssumption == Sharing \in BOOLEAN /\ MaxSel \in Nat /\ MaxDoc \in Nat

VARIABLES
  alive,    \* the host process is (an exception or a null pointer ends it)
  active,   \* between ActivateEx and Deactivate (_pThreadMgr is set)
  mode,     \* the input mode kept in the conversion-mode compartment
  focus,    \* the context that gets the keys
  srv,      \* the engine
  outside,  \* history: another program changed srv since our last request
  last,     \* m_lastResponse
  sel,      \* m_selectedIndex
  list,     \* the candidate window
  text      \* _pComposition and the documents

vars == <<alive, active, mode, focus, srv, outside, last, sel, list, text>>

Modes == {"Direct", "Tcode"}

(* char: a mapped letter, digit or sign; the others are named after VK_*. *)
Arrows == {"left", "right", "up", "down"}
Keys == Arrows \cup {"char", "space", "return", "back", "next", "prior", "ctrlslash"}

Init ==
  /\ alive = TRUE
  /\ active = TRUE
  /\ mode = "Direct"
  /\ focus \in Contexts
  /\ srv = EmptyEngine(0)
  /\ outside = FALSE
  /\ last = NoResponse
  /\ sel = 0
  /\ list = NoList
  /\ text = BlankText

-----------------------------------------------------------------------------
(* What the key event sink claims before OnKeyDown is called for it. *)
OnTestKeyDown(k) ==
  /\ alive /\ active
  /\ \/ k = "ctrlslash"
     \/ /\ mode = "Tcode"
        /\ \/ k = "char"
           \/ k = "space" /\ (HasCandidates(last) \/ ~IsBufferEmpty(last))
           \/ k \in Arrows /\ HasCandidates(last)
           \/ k \in {"left", "right"} /\ ~IsBufferEmpty(last)
           \/ k = "return" /\ HasCandidates(last)
           \/ k = "back" /\ ~Idle(last)

(* The bound on documents: a callback may add a few glyphs to each. *)
RoomToType == \A c \in Contexts : Len(text.doc[c]) < MaxDoc

(* What other programs do to the engine between two of our requests. *)
Meanwhile(s) == {s} \cup (IF Sharing THEN EngineSteps(s) ELSE {})

(* An edit session on the focused context, then, unless the process is gone, *)
(* SyncCandidateList with the response r and the selection i.                *)
ShowAndSync(committed, composition, r, i) ==
  \E e \in RequestEditSession(text, focus, committed, composition) :
    /\ text' = e.text
    /\ alive' = ~e.crashed
    /\ list' \in IF e.crashed THEN {list} ELSE SyncCandidateList(list, r, i)

(* Mutant: shows the cached finished text and forgets to send Commit. *)
ShowUncommitted(s, composition, r, i) ==
  /\ srv' = s
  /\ outside' = FALSE
  /\ ShowAndSync(r.outputBuffer, composition, r, i)

(* Commit() from the engine state s, which others may change before it arrives. *)
CommitAndShow(s, composition, r, i) ==
  \E m \in Meanwhile(s) : \E d \in Commit(m) :
    /\ srv' = d.srv
    /\ outside' = (m # s)
    /\ ShowAndSync(d.output, composition, r, i)

-----------------------------------------------------------------------------
(* OnKeyDown, one action per kind of key that it handles. *)

(* A mapped character: Put, and Commit if the cache then has finished text. *)
OnCharKey ==
  /\ OnTestKeyDown("char") /\ RoomToType
  /\ \E c \in ExecutePut(srv) :
       /\ last' = c.last
       /\ IF IsOutputBufferEmpty(c.last)
            THEN /\ srv' = c.srv
                 /\ outside' = FALSE
                 /\ ShowAndSync(<<>>, Composition(c.last), c.last, sel)
            ELSE CommitAndShow(c.srv, Composition(c.last), c.last, sel)
  /\ UNCHANGED <<active, mode, focus, sel>>

(* A command, with its finished and pre-edit text; an exception is not caught. *)
CommandAndShow(command) ==
  \E c \in ExecuteCommand(command, srv) :
    /\ srv' = c.srv
    /\ outside' = FALSE
    /\ last' = c.last
    /\ IF c.threw
         THEN alive' = FALSE /\ UNCHANGED <<text, list>>
         ELSE ShowAndSync(c.last.outputBuffer, Composition(c.last), c.last, sel)

OnBackspace ==
  /\ OnTestKeyDown("back") /\ RoomToType
  /\ CommandAndShow("backspace")
  /\ UNCHANGED <<active, mode, focus, sel>>

Convert ==
  /\ OnTestKeyDown("space") /\ RoomToType
  /\ ~HasCandidates(last)
  /\ CommandAndShow("convert")
  /\ UNCHANGED <<active, mode, focus, sel>>

(* Mutant: NextCandidate without the window. *)
NextCandidateUnseen ==
  /\ OnTestKeyDown("space") /\ HasCandidates(last) /\ sel < MaxSel
  /\ sel' = sel + 1
  /\ UNCHANGED <<alive, active, mode, focus, srv, outside, last, list, text>>

(* Space on a list of candidates: the next one, whether there is one or not. *)
NextCandidate ==
  /\ OnTestKeyDown("space")
  /\ HasCandidates(last)
  /\ sel < MaxSel
  /\ sel' = sel + 1
  /\ list' \in SyncCandidateList(list, last, sel')
  /\ UNCHANGED <<alive, active, mode, focus, srv, outside, last, text>>

Moved(k) ==
  CASE k \in {"down", "right"} -> sel + 1
    [] k \in {"up", "left"} -> sel - 1
    [] k = "next" -> sel + PageSize
    [] k = "prior" -> sel - PageSize

(* Mutant: Clamp without its lower bound. *)
ClampAbove(i, n) == IF i >= n THEN n - 1 ELSE i

Clamp(i, n) == IF i < 0 THEN 0 ELSE IF i >= n THEN n - 1 ELSE i

MoveSelection(k) ==
  /\ OnTestKeyDown(k)
  /\ HasCandidates(last)
  /\ sel' = Clamp(Moved(k), Len(last.candidates))
  /\ list' \in SyncCandidateList(list, last, sel')
  /\ UNCHANGED <<alive, active, mode, focus, srv, outside, last, text>>

(* Left and Right without candidates: the key mark goes with the finished *)
(* text, and the window does not follow.                                  *)
MoveInflection(k) ==
  /\ OnTestKeyDown(k) /\ RoomToType
  /\ ~HasCandidates(last)
  /\ \E c \in ExecuteCommand(k, srv) :
       /\ srv' = c.srv
       /\ outside' = FALSE
       /\ last' = c.last
       /\ IF c.threw
            THEN alive' = FALSE /\ UNCHANGED text
            ELSE \E e \in RequestEditSession(text, focus, c.last.outputBuffer \o GetLastKey(c.last),
                                             c.last.buffer) :
                   text' = e.text /\ alive' = ~e.crashed
  /\ UNCHANGED <<active, mode, focus, sel, list>>

(* Return: Select, then Commit if it succeeded. *)
AcceptCandidate ==
  /\ OnTestKeyDown("return") /\ RoomToType
  /\ \E c \in Select(sel, srv) :
       /\ last' = c.last
       /\ IF c.last.commandSucceed
            THEN CommitAndShow(c.srv, <<>>, c.last, 0)
            ELSE /\ srv' = c.srv
                 /\ outside' = FALSE
                 /\ list' \in SyncCandidateList(list, c.last, 0)
                 /\ UNCHANGED <<alive, text>>
  /\ sel' = 0
  /\ UNCHANGED <<active, mode, focus>>

(* Ctrl+/ *)
ToggleToTcode ==
  /\ OnTestKeyDown("ctrlslash")
  /\ mode = "Direct"
  /\ mode' = "Tcode"
  /\ UNCHANGED <<alive, active, focus, srv, outside, last, sel, list, text>>

(* Mutant: ToggleToDirect with a Reset that leaves m_lastResponse alone. *)
ToggleToDirectStale ==
  /\ OnTestKeyDown("ctrlslash") /\ RoomToType
  /\ mode = "Tcode"
  /\ mode' = "Direct"
  /\ \E e \in RequestEditSession(text, focus, <<>>, <<>>) : text' = e.text
  /\ \E c \in Reset(srv) : srv' = c.srv
  /\ outside' = FALSE
  /\ list' = HideCandidateList(list)
  /\ UNCHANGED <<alive, active, focus, last, sel>>

ToggleToDirect ==
  /\ OnTestKeyDown("ctrlslash") /\ RoomToType
  /\ mode = "Tcode"
  /\ mode' = "Direct"
  /\ IF text.composition = NoComposition
       THEN UNCHANGED text
       ELSE \E e \in RequestEditSession(text, focus, <<>>, <<>>) : text' = e.text
  /\ \E c \in Reset(srv) : srv' = c.srv /\ last' = c.last
  /\ outside' = FALSE
  /\ list' = HideCandidateList(list)
  /\ UNCHANGED <<alive, active, focus, sel>>

-----------------------------------------------------------------------------
(* The user's other gestures and the application's callbacks. *)

(* ToggleInputMode, from the language bar button (only shown while active). *)
ToggleInputMode ==
  /\ alive /\ active
  /\ mode' = IF mode = "Tcode" THEN "Direct" ELSE "Tcode"
  /\ UNCHANGED <<alive, active, focus, srv, outside, last, sel, list, text>>

(* Mutant: Deactivate without HideCandidateList. *)
DeactivateOnly ==
  /\ alive /\ active
  /\ active' = FALSE
  /\ UNCHANGED <<alive, mode, focus, srv, outside, last, sel, list, text>>

Deactivate ==
  /\ alive /\ active
  /\ active' = FALSE
  /\ list' = HideCandidateList(list)
  /\ UNCHANGED <<alive, mode, focus, srv, outside, last, sel, text>>

ActivateEx ==
  /\ alive /\ ~active
  /\ active' = TRUE
  /\ mode' = "Direct"
  /\ UNCHANGED <<alive, focus, srv, outside, last, sel, list, text>>

FocusMoves ==
  /\ alive
  /\ focus' \in Contexts \ {focus}
  /\ UNCHANGED <<alive, active, mode, srv, outside, last, sel, list, text>>

AppTerminatesComposition ==
  /\ alive /\ RoomToType
  /\ text.composition # NoComposition
  /\ text' = OnCompositionTerminated(text)
  /\ UNCHANGED <<alive, active, mode, focus, srv, outside, last, sel, list>>

AppTerminatesOrphan ==
  /\ alive /\ RoomToType
  /\ \E c \in text.orphans : text' = OnOrphanTerminated(text, c)
  /\ UNCHANGED <<alive, active, mode, focus, srv, outside, last, sel, list>>

(* ITfUIElement::Show, called by the application on a registered element. *)
AppShowsList ==
  /\ alive /\ list.elem
  /\ list' = [list EXCEPT !.shown = ~@]
  /\ UNCHANGED <<alive, active, mode, focus, srv, outside, last, sel, text>>

(* Any request of another program that types through the engine. *)
OtherProgram ==
  /\ Sharing
  /\ srv' \in EngineSteps(srv) \ {srv}
  /\ outside' = TRUE
  /\ UNCHANGED <<alive, active, mode, focus, last, sel, list, text>>

Next ==
  \/ OnCharKey \/ OnBackspace \/ Convert \/ NextCandidate
  \/ \E k \in Arrows \cup {"next", "prior"} : MoveSelection(k)
  \/ \E k \in {"left", "right"} : MoveInflection(k)
  \/ AcceptCandidate \/ ToggleToTcode \/ ToggleToDirect
  \/ ToggleInputMode \/ Deactivate \/ ActivateEx
  \/ FocusMoves \/ AppTerminatesComposition \/ AppTerminatesOrphan \/ AppShowsList
  \/ OtherProgram

Spec == Init /\ [][Next]_vars

-----------------------------------------------------------------------------
(* Every variable keeps its type: no callback leaves a malformed cache,     *)
(* window, selection or document behind.                                    *)
TypeOK ==
  /\ alive \in BOOLEAN
  /\ active \in BOOLEAN
  /\ mode \in Modes
  /\ focus \in Contexts
  /\ srv \in EngineState
  /\ outside \in BOOLEAN
  /\ last \in Response
  /\ sel \in Nat
  /\ list \in ListState
  /\ text \in TextState

(* As long as the process lives, a registered candidate element shows the   *)
(* candidates of the LAST answer and the selection Return will send, on the *)
(* page of that selection: every handler that changes m_lastResponse or     *)
(* m_selectedIndex synchronises the window (or, for Left and Right, cannot  *)
(* have one open).                                                          *)
CandidateWindowCurrent ==
  alive /\ list.elem =>
    /\ list.cands = Visible(last.candidates)
    /\ list.cands # <<>>
    /\ list.sel = sel
    /\ list.page = sel \div PageSize

(* HideCandidateList dereferences _pThreadMgr without a test when an element *)
(* is registered, and Deactivate clears _pThreadMgr: an element never        *)
(* outlives it.  Nor is a window visible without an element to end.          *)
ElementHasThreadMgr == (list.elem => active) /\ (list.shown => list.elem)

(* OnTestKeyDown and OnKeyDown decide from the cache.  Whatever request got  *)
(* lost, the cache is empty or agrees with the engine, unless another        *)
(* program used the engine since.  (outputBuffer is left out: Commit empties *)
(* the engine's and not the cache's.)                                        *)
CacheCoherent ==
  ~outside /\ last # NoResponse =>
    /\ last.buffer = srv.buffer
    /\ last.candidates = srv.cands
    /\ (last.lastCharAsKey = "Some") <=> srv.key

(* The selection Return sends names the candidate the window highlights.     *)
HighlightedIsSelected ==
  alive /\ list.elem /\ ~outside /\ sel + 1 \in 1 .. Len(list.cands) =>
    /\ sel + 1 \in 1 .. Len(srv.cands)
    /\ srv.cands[sel + 1] = list.cands[sel + 1]

(* Pre-edit text on the screen stands for something the engine still holds.  *)
PreeditIsLive == text.composition # NoComposition => srv.key \/ srv.buffer # <<>>

(* The promise about finished text, and when no piece gets lost on the way. *)
Delivery == INSTANCE TextDelivery WITH
  Docs <- Contexts,
  Lossless <- Faults = {} /\ \A c, d \in Contexts : c = d,
  made <- srv.made,
  doc <- text.doc

(* A finished piece reaches at most one document, at most once, and in the   *)
(* order the engine made it: Put/Commit and Select/Commit never hand one out *)
(* twice or late, whatever the edit sessions do with it.  (Of an engine that *)
(* hands out finished text at Commit only, see ConvertEmits.)                *)
TypedInOrder == Delivery!InOrder

(* ... and between two callbacks every finished piece has reached one.       *)
NothingLost == Delivery!Complete

(* The core implements TextDelivery: a callback that writes text writes at   *)
(* the end, writes what it has just been given by the engine and nothing     *)
(* older, and keeps whatever was written before.                             *)
ImplementsDelivery == Delivery!Spec

(* The calls on the candidate list *)
Calls == INSTANCE ListCalls

(* The core drives the list as CandidateWindow takes it to be driven: from   *)
(* OnKeyDown and Deactivate, and whatever fails on the way, no call gives it *)
(* a negative selection, an empty list, or half of a HideCandidateList.      *)
DrivesList == Calls!Spec

(* EditSession.cpp:229: "Clear out the old composition layout entirely to    *)
(* prevent sticky/frozen states".                                            *)
NoOrphans == text.orphans = {}

(* A composition is left open in the document that has the focus only when   *)
(* the application ends another one that was left open before.               *)
OrphansComeFromFocusMoves ==
  [][\A c \in text.orphans' \ text.orphans : c # focus \/ ~(text.orphans \subseteq text.orphans')]_vars

-----------------------------------------------------------------------------
(* What comments in the code say and the code does not do. *)

(* TCodeIME.cpp:564: "Bound checking: Protect your index bounds against      *)
(* crashes or off-screen states".                                            *)
SelectionInRange == alive /\ list.elem => list.sel \in 0 .. Len(list.cands) - 1

(* TCodeIME.cpp:380: "Cancel active composition when switching back to       *)
(* direct layout".                                                           *)
DirectModeIsClean == [][mode = "Tcode" /\ mode' = "Direct" => text'.composition = NoComposition]_vars
=============================================================================
