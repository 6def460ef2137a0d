# Verification of T-Code IME for Windows

TLA+ models of the text service (`src/src`) and of the tray proxy
(`src/proxy/TCodeProxy`), the TLC configurations that check them on small
instances, and TLAPS proofs of the properties that matter most, for every value
of the constants.

1. [The system](#1-the-system)
2. [Modules](#2-modules)
3. [Modelling decisions](#3-modelling-decisions)
4. [Runs, bounds and what they show](#4-runs)
5. [Fairness](#5-fairness)
6. [Proofs](#6-proofs)
7. [Disagreements between code and comments](#7-disagreements)
8. [What is not modelled](#8-not-modelled)
9. [Plan](#9-plan)

## 1. The system

An application that the user types in loads `TCodeIME.dll`, a text service of
the Text Services Framework. The service does not know T-Code: it sends every
key to an **engine**, an HTTP server on `127.0.0.1:57001` that is started by a
**proxy** in the notification area, and puts what the engine answers into the
document.

```
 user -> application -- key events, focus, documents --> CTCodeIME --HTTP--> engine (java)
              ^                                             |                    ^
              |   edit sessions, compositions, UI elements  |                    | cmd, script
              +---------------------------------------------+                  proxy
```

### Components

| component | state | operations | interacts with |
|---|---|---|---|
| Engine client (`EngineClient.cpp`, `GlazeClient.hpp`) | the last answer, `m_lastResponse`; one HTTP client per process, `g_glazeClient` | `ExecutePut`, `ExecuteCommand`, `Select`, `Commit`, `Reset`, and the getters that read the cache | a blocking HTTP request for each |
| Engine (a submodule, not in the repository) | stroke, pre-edit buffer, finished text, candidates | `/put /backspace /convert /left /right /select /commit /reset` | ONE state for all programs that type: no request names its sender |
| Text service (`TCodeIME.cpp`) | mode, selection, thread manager, pointers to all below | `OnTestKeyDown`, `OnKeyDown`, `ToggleInputMode`, `ActivateEx`, `Deactivate`, `OnCompositionTerminated`, `OnSetThreadFocus` | everything |
| Edit session (`EditSession.cpp`) | `_pComposition` | `DoEditSession` | runs under the lock of one document, which may refuse it |
| Candidate list (`CTCodeCandidateListUI.cpp`) | candidates, selection, pages, update flags, the UI element's id, the window | `SetCandidates`, `Show`, `SyncCandidateList`, `UpdateCandidateList`, `HideCandidateList`, painting, `GetUpdatedFlags` ... `SetPageIndex` | the UI element manager, the application, the window manager |
| Language bar button (`CTCodeModeButton.cpp`) | a counted pointer to its owner, the bar's sink | constructor, `OnClick`, `AdviseSink`, `UpdateIcon`, `GetText`, `GetIcon`, `Release` | the language bar |
| Class factory and DLL (`ClassFactory.cpp`, `dllmain.cpp`, `Globals.cpp`) | `g_cRefDll` | `CreateInstance`, `LockServer`, `DllGetClassObject`, `DllCanUnloadNow` | COM and the loader |
| Compartments (`Compartment.cpp`, `CompartmentEventSink.cpp`) | mode and open/close values kept by the framework | get, set, `OnChange` | button, other writers of the compartments |
| Proxy (`proxy.cpp`) | job object, child process id | start, message loop, Exit | the interpreter, the engine and other proxies |
| Registration (`Registry.cpp`) | registry, profiles, categories | register, unregister | the installer |

### What is hard

* **A cache decides.** `OnTestKeyDown` and `OnKeyDown` decide each from
  `m_lastResponse`, which a lost request, another program's request or a handler
  that does not synchronise leaves behind the engine or the window.
* **Two requests make one keystroke.** Put or Select, then Commit. Other programs'
  requests, a failed Commit, or an application that refuses the edit session fall
  in between.
* **The focus moves during a composition.** An edit session has the lock of one
  document and the composition may live in another.
* **References make a cycle.** The IME holds its button, the button its owner, and
  sinks are given back with cookies that another document issued.
* **The DLL goes and comes back.** What it left in the process does not.
* **Processes are killed by snapshot and by job.** The interpreter starts the engine
  at any moment before, between or after the calls of the proxy, and every proxy
  of the session opens the same job.
* **The window is told late.** Where the caret is comes with an edit session or
  with a notification that may be owed for long; painting is a message; the window
  is destroyed with the application's; an application may show, hide or read the
  list between two keys.
* **The mode belongs to everybody.** It is the value of a compartment that other
  programs write; the button learns of it through sinks that may be refused.
* **Every UI thread makes its IME**, and all of them make one HTTP client.

Each of these is listed with its line under `hazards` in `PROJECT.json`.

### What makes each part correct

* cache: empty, or equal to the engine unless another program used it;
* window: shows the last answer and the selection that Return will send;
* documents: each finished piece once, in order, in one document, none lost as long
  as nothing fails; compositions left open only where a focus move left them;
* candidate window: visible when the list is, draws what is stored, stays beside the
  composition; a reader of the flags misses no update;
* button: shows the mode the next key meets, and the bar always gets its new button;
* HTTP client: there is one whenever a request begins, and it is not deleted;
* objects: a button has a live owner; a released IME goes away, up to a known list
  of late holders; the DLL is unloaded only when none of its objects is left;
* proxy: a process outlives Exit only if it slipped through both of its nets, the
  job and the kill of the tree, and the last proxy only if it slipped through the job.

## 2. Modules

```
 Engine <- EngineClient <-+- CandidateList <-+
                          +- EditSession  <--+- TCodeIME <- MCTCodeIME
                                                ^ |  ^----- TCodeIMEProofs <- TCodeIMETextProofs
                                     implements | |                                |
                                     TextDelivery <------- TextDeliveryProofs <----+
 CandidateList <- CandidateWindow <- MCCandidateWindow, CandidateWindowProofs
 CandidateList <- ListCalls, implemented by TCodeIME and by CandidateWindow
 Lifetime   <- MCLifetime, LifetimeProofs
 Proxy      <- MCProxy,    ProxyProofs
 ClientInit <- ClientInitProofs
 InputMode  <- InputModeProofs
```

`Engine`, `EngineClient`, `CandidateList` and `EditSession` define the operations
of their component as operators; an operation is the *set of its outcomes*.
`TCodeIME` declares the variables and composes the operators to whole callbacks.

| variable of `TCodeIME` | in the code |
|---|---|
| `alive` | the host process: an exception or a null pointer ends it |
| `active` | `_pThreadMgr != nullptr` |
| `mode` | the conversion-mode compartment |
| `focus` | the document whose keys arrive (`pic`) |
| `srv`, `outside` | the engine; whether another program used it since (history) |
| `last` | `m_lastResponse` |
| `sel` | `m_selectedIndex` |
| `list` | `_pCandidateList`, `_dwCandidateListUIElementId` |
| `text` | `_pComposition` and its document, what the IME typed into each document, compositions nobody ends (`orphans`, history) |

| action of `TCodeIME` | code |
|---|---|
| `OnCharKey`, `OnBackspace`, `Convert`, `NextCandidate`, `MoveSelection`, `MoveInflection`, `AcceptCandidate`, `ToggleToTcode`, `ToggleToDirect` | the branches of `OnKeyDown`; the guard is `OnTestKeyDown`, since the framework passes on only what that claims |
| `ToggleInputMode` | the button's `OnClick` |
| `ActivateEx`, `Deactivate` | the methods of that name, without what `Lifetime` has of them |
| `AppTerminatesComposition`, `AppTerminatesOrphan` | `OnCompositionTerminated`, for the current composition and for another |
| `AppShowsList` | `ITfUIElement::Show` |
| `FocusMoves`, `OtherProgram` | the application; another program's request |

`Lifetime` has a record for the objects of each UI thread and the globals of the
DLL. A reference count is the **set of its holders**: `inst[i].holders` for the IME,
`.button[b]` for a mode button, `.list` for the candidate list, `.layout[c]` for the
registrations of the layout sink; `.composing` and `.orphans` are the documents with
an open composition, whose sink is the IME (`EditSession.cpp:254`), and `.leaked` is a
sink whose removal failed. `mishaps` is history: was a removal refused, and did the
focus ever leave a document that had a sink or a composition. Every action ends in `Becomes`, which runs the
destructors (`Settle`) and adjusts `g_cRefDll`.

`TextDelivery` is what the core promises about finished text and nothing else: the
engine makes pieces 1, 2, 3, ..., documents only grow, and a piece is written at
the moment it is made, into one document, at the end, or (unless the delivery is
`Lossless`) never. `TCodeIME!ImplementsDelivery` is that specification with
`made <- srv.made`, `doc <- text.doc`; a delivery is lossless with one document and
no faults. The promises `TypedInOrder` and `NothingLost` are its invariants
`InOrder` and `Complete`, seen through the mapping.

`ListCalls` is the list between its two users: an update with the visible candidates
of an answer and a selection, a hide as a whole, a `Show` from the application, and
nothing else. `TCodeIME!DrivesList` and `CandidateWindow!FollowsCalls` say that both
implement it: the calls that the core makes are of the kind that `CandidateWindow`
takes its keys to make, which is why the two can be checked apart.

`CandidateWindow` takes the operators of `CandidateList` for the list and adds what is
seen of it.

| variable of `CandidateWindow` | in the code |
|---|---|
| `list` | `_candidates`, `_selectedIndex`, `_currentPage`, `_isShown`, the element's id |
| `pages`, `flags` | `_pageIndex`, `_updatedFlags` |
| `copy` | what an application has got from `GetString`, `GetSelection`, `GetPageIndex`, `GetCurrentPage` |
| `wnd` | the window behind `_hCandidateWnd`: exists, visible, invalid, what is drawn, where; `reused` is history |
| `doc` | the composition of the focused document, where its caret is, whether the application owes a layout notification |

| action of `CandidateWindow` | code |
|---|---|
| `OnKeyDown`, `MoveInflection` | the end of every handler: an edit session (`EditSession`, part 3 of `DoEditSession`), then `SyncCandidateList` (`Sync`) or, for Left and Right, nothing |
| `Hide` | `HideCandidateList` from Ctrl+/ and `Deactivate` |
| `OnLayoutChange` | `OnLayoutChange`, `TriggerPositionUpdate`, `CTrackLayoutEditSession` |
| `AppShows`, `AppReads`, `AppSetsPages` | `Show`, `GetUpdatedFlags` with the getters it names, `SetPageIndex` |
| `OnPaint` | `WM_PAINT` in `CandidateWndProc` |
| `CaretMoves`, `OwnerDestroyed` | the user and the window manager |

`InputMode` has the two compartments (`open`, `conv`), the compartments that call
`OnChange` (`sinks`) and the button with what the language bar makes of it (`bar`).
`ActivateEx`, `Deactivate` and `Toggle` are the methods with every call they make to
the framework free to fail; `OthersSetMode` and `OthersOpenOrClose` are the other
writers; `BarAsks` is the bar, calling `GetText`, `GetTooltipString` and `GetIcon`.

`ClientInit` has a program counter for each thread and the constructor of
`CEngineClient` one load or store at a time: test, make, and the assignment to the
`unique_ptr` as read of the old pointer, write of the new, delete of the old; then
requests through the pointer.

`Proxy` has a program counter for each proxy (`pc`), the interpreter it started
(`cmd`), the engine below it (`java`), the job (`handles` to it, the processes in it,
and whether it `kills` on close) and what the snapshot of `KillProcessTree` saw. One
action is one system call of the proxy, with its failure. `failed` is history: what
went wrong for each proxy; no guard reads it.

## 3. Modelling decisions

*Core.* A callback runs on the UI thread and blocks until engine and application
have answered, so it is one action; another program's requests fall between two
callbacks (`OtherProgram`) and between the two requests of one (`Meanwhile`). The
restart of the engine is a reset by somebody else. Text is a sequence of pieces: a
finished piece is the number the engine made it with, so that it can be followed
into a document. Keys that the service does not claim, what the user types past
the service, colours and positions are left out. `GetLastKey` of an
empty string reads out of bounds: the outcome is some character, `BadMark`. Faults:
`refused` and `lostReply` of a request; `editDenied`, `noRange` and `appRejects` of an
edit session. Every request may meet one; only `ExecuteCommand` lets the exception out.
With `noRange` a session runs, but GetSelection finds no caret for the committed text
(`EditSession.cpp:202`), which is then dropped, or the composition is not started (247,
251, 254), and nothing is displayed; the code goes on after both. That the range of an
existing composition can be had (`GetRange`, 196, 235, 257) is assumed.

*Engine.* Its source is in a submodule that is not there. Which stroke completes
what, and which candidates an answer offers, is a choice. Whether `convert` finishes
text by itself is the constant `ConvertEmits`: the run `faults` allows it; `clean`
and `contexts` do not, because the handlers of Backspace, Convert, Left and Right
insert the finished text of the answer without Commit, and a later Commit would
return it again.

*Lifetime.* Each registration in `ActivateEx` may be refused, and each removal in
`Deactivate` may fail or be skipped for want of an interface, which the code ignores:
the framework then keeps the sink, until it drops it (`SinkDropped`), which may be
never. A composition holds the IME until it ends; it ends in an edit session on
its document, by the application, or with the document. The framework
deactivates a service before it releases it. The language bar may release the
button later than `RemoveItem`. A cookie is good only in the document that issued
it; a document that is closed releases the sinks it has. `UnadviseSink` with a
foreign cookie fails and the code forgets the cookie all the same. A slot creates
its next IME when the last one is gone; the list may be held by the application
for longer, which is what the second counter of `Counted` is for.

*Proxy.* The installer starts a proxy at logon and puts the same program into the
Start menu. A process inherits the job of its parent when it is created; closing
the last handle kills what is in the job if a proxy has set the limit. Everything
that may fail does: `CreateJobObject`, `SetInformationJobObject` (`proxy.cpp:120`) and
`AssignProcessToJobObject` (189), whose results are ignored; the snapshot, without which
`KillProcessTree` returns at once (24), and its enumeration (29); the calls that
terminate (43, 45), and for a child the snapshot of its own.
`KillProcessTree` calls itself for every child; there is one level of children here,
the engine, whose own snapshot finds none. `ConsoleCtrlHandler` is left out: a program
without a console does not get its events. A process id is not reused while the proxy
has the handle of the process.

*Candidate window.* Every handler leaves the list as `SyncCandidateList` does or
alone, so the keys are taken together: any candidates, any selection. The early
returns of `UpdateCandidateList` need a missing focus or context, which a key event
has. `GetTextExt` without a lock normally fails and may succeed: both are outcomes. A
document that has no layout yet (`TS_E_NOLAYOUT`) owes a notification, which may never
come. Which sink is registered where is the subject of `Lifetime`; here it is there.
Sizes, fonts and colours are left out, and so is a second window that gets the number
of a destroyed one.

*Input mode.* A compartment that is there can be read; everything else may fail, and
`SetInputMode` stops at the first failure. A bar that is told of a change asks at once
or later. A value that is set to what it was may or may not be told. After `Deactivate`
the old button is out of the model: a click on it finds no thread manager and changes
nothing.

*Client.* `std::unique_ptr` is assigned in the order reset prescribes, and a pointer
is loaded and stored whole on x64 and ARM64. A client is named after its maker, which
`OnePerThread` justifies; that a new client may get the address of a deleted one is
left out. A request reads the client's members until it returns. The destruction of
the global at unload is guarded by `g_cRefDll`, see `Lifetime`.

Definitions whose comment begins with "Mutant" are not part of the model. Each is a
plausible bug of the definition after it, and shows that a property notices.

## 4. Runs

Distinct states found; each run ends within three minutes with two workers.

| run | instance | properties | states |
|---|---|---|---|
| `faults` | one document, all faults, other programs, `ConvertEmits`; lists `<<>>`, `<<a>>`, `<<b, a>>` | `TypeOK` `CandidateWindowCurrent` `ElementHasThreadMgr` `CacheCoherent` `HighlightedIsSelected` | 625,225 |
| `clean` | one document, no fault, nobody else | `PreeditIsLive` `NothingLost` `ImplementsDelivery` `DrivesList` | 91,188 |
| `contexts` | two documents; edit sessions denied, texts without a place, compositions rejected | `TypedInOrder` `OrphansComeFromFocusMoves` `ImplementsDelivery` | 666,908 |
| `candidate_window` | page size 2, two places, selections to 2; lists `<<>>`, `<<a, Blank, b>>`, `<<a, b, c>>` | `TypeOK` `VisibleIsShown` `PaintedIsCurrent` `FollowsCaret` `ListenerMirrors` `SameRows` `FollowsCalls` | 44,744 |
| `input_mode` | no constants | `TypeOK` `ButtonShowsMode` `NeverRefused` `ModeIsShown` | 361 |
| `client_init` | three threads | `TypeOK` `GlobalIsLive` `AlwaysAClient` `HarmTakesARace` `OnePerThread` | 7,207 |
| `lifetime` | one thread, two documents, two buttons, two addresses | `TypeOK` `ButtonHasOwner` `UnloadSafe` `ReleasedIsDestroyed` | 1,572,782 |
| `proxies` | two proxies, all faults | `TypeOK` `ExitStopsEngine` `JobStopsEngine` `LeftForGood` `ExitEndsOwnEngine` | 673,439 |
| `selection_in_range`, `direct_mode_clean`, `no_orphans`, `class_code_mapped` | | one each, violated: section 7 | |

**`faults`** asks whether the window, the cache and the engine agree after every
callback when anything may fail. **`clean`** asks what the user gets when nothing
does: all text arrives, what is displayed as pre-edit is still in the engine, and the
candidate list gets only calls of `ListCalls`. **`contexts`** asks what focus moves
and refusals can do to text and compositions. Both show that the core implements `TextDelivery`, lossless in
the first. **`candidate_window`** asks whether what is on the screen can be anything
but the present list beside the present composition, and whether an application that
draws the list itself could draw other rows. **`input_mode`** asks whether the
button can show another mode than the one the next key meets (if the conversion
compartment refused its sink, only after a change by the service itself: what others
set is then not shown). **`client_init`** asks
what the race of the constructors can do: a client that was seen may be deleted under
a request, but none is deleted while it is the global, and none twice by two threads.
**`lifetime`** asks who can hold what after whatever failed, and whether the
count is right when the host unloads. A released IME may be kept by an open
composition or a late language bar; by a sink only after a removal was refused or the
focus left the document that has it. **`proxies`** asks which failures it takes for
a process to be left behind by Exit, a kill or a failed start. One net is enough
unless two calls fail, one of each, or a failed way into the job meets an engine that
the script starts after the snapshot (`BothMiss`).

*Bounds.* `MaxBuffer`, `MaxMade` and `MaxDoc` bound the pre-edit, the pieces the
engine makes and the glyphs in a document. In `clean` they are 2, 3 and 4: three
pieces in a row, with a stroke or a buffer pending between them, show a lost,
doubled or swapped piece. `faults` needs one piece, since its properties compare
states of one moment. In `contexts` two pieces show an order. `MaxSel = 2` is one
past the longest list, which the selection has to reach to miss; `PageSize = 2`
puts it on a second page. The lists of `faults` make an index that fits one answer
and misses the next. `MaxSinks = 2` lets a document have one registration too many.
Two buttons are the old one that the language bar still holds and the new one of
the next activation. Two addresses are a load and a reload elsewhere. Two proxies
are the logon entry and the Start menu.

In `candidate_window` the lists are one full page (with a candidate that is left
out) and two pages, the last not full, so that a page changes by selection and by
list; the selection goes past the shorter. Two places tell a window that followed from one that did not.
`client_init` has three threads because a client is deleted twice only by two that
both replace the one of a third. `input_mode` has no constants and no bounds: the run
is the whole state space.

*Deadlock* is not checked for the core, where the host may die and the bounds stop
typing, nor for the proxies, which end. It is checked everywhere else, where somebody
can always go on.

*Symmetry* is used in the run `lifetime`, all of whose properties are
invariants that treat threads, documents, buttons and addresses alike.

## 5. Fairness

The core, `CandidateWindow`, `ClientInit` and `Lifetime` wait for the user, the
application and the framework, none of which has to do anything: their
specifications have no fairness and there is no liveness claimed. In `InputMode`,
`FairSpec` has weak fairness of `BarAsks` only: `OnUpdate` "forces the OS to re-call
GetIcon, GetText, GetTooltipString and GetStatus" (`CTCodeModeButton.cpp:190`). Under
it `ModeIsShown` says that a mode which is left alone is shown in the end, however many
calls failed before. In `Proxy`, `FairSpec` has weak fairness of `ProxyStep(p)`, the
steps that a proxy takes without waiting for anybody: the system runs every process.
Starting a proxy, picking Exit, the kill and everything that the script and the
engine do have none. `ExitEndsOwnEngine` holds under it: wherever the script is when
Exit is picked, in the end neither interpreter nor engine of that proxy runs, for
good, unless both nets missed one of them, another proxy has the job open or the proxy
is killed meanwhile. What that
property says without fairness is `LeftForGood`: once such a proxy has left, nothing
of it comes back.

## 6. Proofs

| theorem | for every | inductive invariant |
|---|---|---|
| `InputModeProofs`: `TypeCorrect`, `ButtonFollowsMode`, `AlwaysWelcome` | (no constants) | `ButtonShowsMode` with: the bar has given its sink to every button in it (`HasSink`), and a service that is not active has a button no bar has seen (`FreshButton`) |
| `TCodeIMEProofs`: `DrivesTheList` | as below | the one below; each handler is a call of `ListCalls` or leaves the list alone |
| `TCodeIMEProofs`: `TypeCorrect`, `WindowIsCurrent`, `ElementOutlived`, `CacheIsCoherent`, `ReturnSelectsHighlighted` | set of documents, candidate lists and faults, with or without other programs | `TypeOK`; while alive, a registered element has the visible candidates of `last`, the selection `sel` and its page (`Current`); an element only while active; unless somebody else used the engine, the cache is empty or fits it (`Fits`) |
| `TCodeIMETextProofs`: `RefinesTextDelivery`, `TextInOrder` | set of documents; an engine that answers, is not shared and does not finish text in convert (`Reliable`); any denied session, dropped text or rejected composition | `TypeOK`; between two callbacks the engine holds no finished text and the pre-edit no piece (`DeliveryInv`), and an edit session appends to one document |
| ... `TextNotLost` | the same, one document, no fault (`Lossless`) | `Complete` of the abstract specification |
| ... `OrphansAreElsewhere` | set of documents, all faults | `TypeOK`; what one edit session does to the orphans |
| ... `ShownPreeditIsLive` | set of documents, rejected compositions, nobody else on the engine | itself: every handler shows what it has just been answered |
| `TextDeliveryProofs`: `PiecesInOrder`, `NoPieceIsLost` | set of documents and glyphs | themselves |
| `CandidateWindowProofs`: `TypeCorrect`, `ListDecidesVisibility`, `PaintKeepsUp`, `StaysBesideCaret`, `ReaderKeepsUp`, `ReaderDrawsTheSame`, `FollowsTheCalls` | set of lists, page size, set of places | `Fits(wnd, doc, list)`: each operation on windows leaves one that fits; the list is on the page of its selection |
| `ClientInitProofs`: `TypeCorrect`, `GlobalStaysLive`, `ClientIsThere`, `RaceBehindHarm`, `MakesOnce` | number of threads | who can still name a client: `MakersAreKnown`, `PointersWereThere`, `DeletesAreLate` |
| `LifetimeProofs`: `TypeCorrect`, `ButtonsHaveOwners`, `UnloadsSafely`, `NoOtherLeak` | number of threads, documents, buttons | `Good(o)` of each slot: a button is held if and only if it holds its owner, the IME holds at most one, sinks are held only while active (`Owned`), and as long as there was no mishap there is no orphan, no leaked sink, and the layout sink and the composition are in the focused document (`Calm`); `CountInv`: `g_cRefDll` is the number of living objects, of held lists, the factory and the locks |
| `ProxyProofs`: `TypeCorrect`, `ExitLeavesNothing`, `JobLeavesNothing`, `LeavesForGood` | number of proxies, set of faults | `TypeOK`, the order of the calls (`Started`); who is in the job unless a call failed or the engine was late (`InterpreterInJob`, `EngineInJob`), and that the job kills (`JobKills`) and is gone with its last handle (`JobEmpty`); what the tree kill has done (`TreeKilled`) and its snapshot has seen (`TreeSees`), unless a call of it failed |

Why they have to be strengthened: `CandidateWindowCurrent` alone says nothing about
a window without an element, to which the next `BeginUIElement` gives one; that the
page follows the selection needs the page to be set in each call. `CacheCoherent` is
inductive only with `NoResponse` as an escape for each failed request. What a proxy
leaves behind depends on *when* the engine was born: in the job, or before the
interpreter was assigned, and then the snapshot, taken later, has seen it. A failing
call takes away one of the two, and `failed` remembers which.
`ReturnSelectsHighlighted` has the hypothesis that no candidate is blank: with a
blank one it is false (the line is among the hazards).

*The refinement.* The core does not take the text of a document from the cache: it
writes what the answer to the request of the same callback reported. `DeliveryInv`
says that nothing finished is left in the engine between two callbacks, so that
what an edit session writes was made in this step; each handler is then one of three
steps (nothing, pre-edit text only, one piece at the end of one document). The
invariants of `TextDelivery` are proved once in `TextDeliveryProofs` and carried over.
Without `Reliable` the refinement is false: an engine that reports finished text to
Backspace returns it again at the next Commit (section 7).

*The count.* `UnloadSafe` needs `g_cRefDll` to be a sum over all threads. `CountInv`
writes it as the cardinality of the set of slots with a living object plus that of
the slots with a held list; an action changes one slot, and the cardinalities of two
sets that differ in one element differ by one at most (`FiniteSetTheorems`).

*The window.* `FollowsCaret` is inductive only together with the others: that a
window shown again is where it was has to be remembered (`reused`), and a destroyed
window must not count as visible. A window that is drawn shows the present page
because the list is on the page of its selection after each `SetCandidates`.
`ReaderDrawsTheSame` rests on `PagesTile`: the starts that `SetCandidates` lays out
cover the list, the page of a selection in range is one of them, and the last ends
where the list does. It needs the division of naturals (`Division`, `Product`), one
fact at a time.

*The calls.* Both refinements to `ListCalls` map every handler to one call or to a
stutter. That a hide without an element is a stutter takes `ElementHasThreadMgr` (no
list is shown without its element); that the selection is no negative number and
the candidates are those of an answer takes `TypeOK` after the step as well.

*Left for good.* `LeftForGood` is a property of behaviours, proved without fairness: the
state it starts from (`Ended`: `p` has left, and neither its interpreter nor its engine
runs, which follows from the invariant when no other proxy is there and no process
slipped through both nets) is kept by every
step of the other proxies: a script is started by its own proxy only, and an engine by
a script that runs.

Assumptions: those named in the modules (`EngineAssumption`, `ClientAssumption`,
`PageAssumption`, `VisibleAssumption`, `ContextAssumption`, `BoundsAssumption`,
`LifetimeAssumption`, `FaultsAssumption`, `PlacesAssumption`, `ThreadsAssumption`).
`VisibleAssumption` says that filtering the empty list gives the empty list, and any
list a list of its members: `SelectSeq` is recursive and the provers do not unfold
it. TLC evaluates all of them.

*Only model-checked:* the liveness properties `ExitEndsOwnEngine` (its safety half
`LeftForGood` is proved) and `ModeIsShown`, because liveness under fairness is outside
the prover's reach. Every invariant and every action property of a passing run is a
theorem. Those about text and orphans, and `HighlightedIsSelected`, have the hypotheses
named in this section, which their runs satisfy too.

## 7. Disagreements

Four runs show where the code does not do what a comment or a message of it says.
`PROJECT.json` quotes both lines.

* `selection_in_range`: Space moves the selection past the last candidate (`TCodeIME.cpp:515`).
* `direct_mode_clean`: the mode button leaves the composition (in the run, the mark of
  a pending stroke) open in Direct mode (`:678`).
* `no_orphans`: after a focus move the old composition is dropped, not ended (`EditSession.cpp:238`).
* `class_code_mapped`: after a reload elsewhere, the window class has its procedure where the DLL was (`CTCodeCandidateListUI.cpp:25`).

Seen while modelling and kept in the models, without a run of their own: Page Up and
Page Down are handled and never claimed; Backspace is claimed before the first
answer; the mark of a pending stroke goes into the document with Left and Right; an
IME released before it was activated is never destroyed (`CTCodeModeButton.h` says
its owner is not owned); a Deactivate without a focused document keeps the cookie of
the layout sink, and the layout sink can be registered twice in one document; with two
proxies the exit of one leaves the other in the tray without an engine; a candidate
window that is hidden and shown again is at its old place until the next key or
notification; Backspace, Convert, Left and Right insert finished text that they do not
take from the engine; the README of the repository calls the proxy a C# program with a
named pipe, and it is a C++ program without one.

## 8. Not modelled

* Registration: two straight-line sequences of registry and profile calls, run once by
  the installer, with nothing concurrent and an outcome that no other code reads. A
  model would be a list of those calls.
* Display attributes, fonts, colours, sizes, icons, UTF conversion, the debug log.
* Requests without a time limit: nothing in the code bounds the wait.
* What undefined behaviour may do beyond one stray character (`GetLastKey`), a failed
  request or a deleted client that was still in use.
* `_SetCompartment`, `_GetCompartment`, `_IsKeyboardDisabled`, which nothing calls.
* Build, installer and packaging files, which are not part of the running program.

## 9. Plan

Done, in this order: the core (`Engine`, `EngineClient`, `CandidateList`,
`EditSession`, `TCodeIME`), `Lifetime` and `Proxy` with their invariants and first
theorems; `TextDelivery` and the refinement; `InputMode`; `CandidateWindow`;
`ClientInit`; the proofs of the remaining invariants, `InputModeProofs` among them;
`ListCalls` with its two refinements; `SameRows` and `LeftForGood` with their proofs;
the failing calls of `Proxy`, the refused removals and the compositions of `Lifetime`,
the texts without a place of `EditSession`, with the invariants these take.

What could follow:

1. Two applications with a `TCodeIME` each on one engine, in place of `OtherProgram`,
   to say which of two users of the engine gets a finished piece.
2. One module for the window and the layout sinks of `Lifetime`, to say which
   document the window follows after a sink was left behind.
3. The engine itself, if its source is added to the repository: `Reliable` and
   `ConvertEmits` would become theorems about it instead of assumptions.
