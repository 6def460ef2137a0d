----------------------------- MODULE InputMode -----------------------------
(***************************************************************************)
(* The input mode and the button that shows it.                            *)
(*                                                                         *)
(* The mode is the value of a compartment of the thread manager: the text  *)
(* service, the application and other text services of the thread all      *)
(* write it.  The button in the language bar shows what GetInputMode was   *)
(* when the bar last asked; the bar asks when it gets the button and after *)
(* OnUpdate, at once or when it next runs.                                 *)
(*                                                                         *)
(* Every call to the framework may fail, and no result is looked at.  A    *)
(* compartment that is there can be read.                                  *)
(***************************************************************************)

VARIABLES
  active,  \* between ActivateEx and Deactivate
  open,    \* ..._KEYBOARD_OPENCLOSE holds a value other than 0
  conv,    \* ..._INPUTMODE_CONVERSION: the mode of its value, "unset" before there is one
  sinks,   \* the compartments that call our OnChange
  bar,     \* the mode button and what the language bar makes of it
  by       \* history: who changed the mode, or tried to, last

vars == <<active, open, conv, sinks, bar, by>>

Modes == {"Direct", "Tcode"}
Compartments == {"openclose", "conversion"}

(***************************************************************************)
(* item:    the button is in the language bar                              *)
(* pSink:   its _pSink is set: the bar is told of changes                  *)
(* refused: history: AdviseSink turned the bar away                        *)
(* shown:   the mode the bar displays                                      *)
(* pending: OnUpdate was called and the bar has not asked yet              *)
(***************************************************************************)
Bar == [item: BOOLEAN, pSink: BOOLEAN, refused: BOOLEAN, shown: Modes \cup {"unset"}, pending: BOOLEAN]

NewButton == [item |-> FALSE, pSink |-> FALSE, refused |-> FALSE, shown |-> "unset", pending |-> FALSE]

GetInputMode(value) == IF value = "unset" THEN "Direct" ELSE value

Init ==
  /\ active = FALSE
  /\ open \in BOOLEAN
  /\ conv \in Modes \cup {"unset"}
  /\ sinks = {}
  /\ bar = NewButton
  /\ by = "others"

-----------------------------------------------------------------------------
(* GetText, GetTooltipString and GetIcon, called by the bar. *)
Asks(b, value) == [b EXCEPT !.shown = GetInputMode(value), !.pending = FALSE]

(* Mutant: _pSink is called without a test. *)
UpdateIconBlindly(b, value) == {Asks(b, value), [b EXCEPT !.pending = TRUE]}

(* The bar asks now or later; without a sink it is not told. *)
UpdateIcon(b, value) ==
  IF b.pSink THEN {Asks(b, value), [b EXCEPT !.pending = TRUE]} ELSE {b}

(* Mutant: a change of the conversion mode is not passed on to the button. *)
OnChangeOfOpenClose(guid, b, value) ==
  IF guid = "openclose" THEN UpdateIcon(b, value) ELSE {b}

OnChange(guid, b, value) == UpdateIcon(b, value)

(* SetValue by anybody.  A value that was there already need not be told.    *)
SetValue(to, guid, b, value, changed) ==
  (IF guid \in to THEN OnChange(guid, b, value) ELSE {b}) \cup (IF changed THEN {} ELSE {b})

SetOpenClose(to, b) == SetValue(to, "openclose", b, conv, ~open)

SetConversionMode(to, b, m) == SetValue(to, "conversion", b, m, conv # m)

(* _SetOpenClose(Open), then _SetConversionMode unless that failed.          *)
SetInputMode(to, b, m) ==
  {[open |-> open, conv |-> conv, bar |-> b]}
    \cup UNION {{[open |-> TRUE, conv |-> conv, bar |-> d]}
                  \cup {[open |-> TRUE, conv |-> m, bar |-> e] : e \in SetConversionMode(to, d, m)} :
                d \in SetOpenClose(to, b)}

(* The bar advises its sink, which a button takes once, and asks.            *)
AddItem(b) ==
  LET added == IF b.pSink THEN [b EXCEPT !.item = TRUE, !.refused = TRUE]
               ELSE [b EXCEPT !.item = TRUE, !.pSink = TRUE]
  IN  {b, Asks(added, conv), [added EXCEPT !.pending = TRUE]}

(* The compartments that call us afterwards: each may be refused, and is     *)
(* given back only if its compartment is found.                              *)
InitCompartmentEventSink == {sinks \cup granted : granted \in SUBSET Compartments}

UninitCompartmentEventSink == SUBSET sinks

-----------------------------------------------------------------------------
(* The button goes to the bar, the event sinks to the compartments, and the  *)
(* mode becomes Direct.                                                      *)
ActivateEx ==
  /\ ~active
  /\ active' = TRUE
  /\ sinks' \in InitCompartmentEventSink
  /\ \E b \in AddItem(bar) : \E o \in SetInputMode(sinks', b, "Direct") :
       open' = o.open /\ conv' = o.conv /\ bar' = o.bar
  /\ by' = "activation"

(* Mutant: the button is kept for the next activation. *)
DeactivateKeepsButton ==
  /\ active
  /\ active' = FALSE
  /\ sinks' \in UninitCompartmentEventSink
  /\ bar' \in {[NewButton EXCEPT !.pSink = p] : p \in {FALSE, bar.pSink}}
  /\ UNCHANGED <<open, conv, by>>

(* Whether the bar gives up its sink or not, the next activation has a new   *)
(* button.                                                                   *)
Deactivate ==
  /\ active
  /\ active' = FALSE
  /\ sinks' \in UninitCompartmentEventSink
  /\ bar' = [NewButton EXCEPT !.refused = bar.refused]
  /\ UNCHANGED <<open, conv, by>>

Other(m) == IF m = "Tcode" THEN "Direct" ELSE "Tcode"

(* Mutant: the button is left to the event sinks. *)
ToggleUntold ==
  /\ active
  /\ \E o \in SetInputMode(sinks, bar, Other(GetInputMode(conv))) :
       open' = o.open /\ conv' = o.conv /\ bar' = o.bar
  /\ by' = "toggle"
  /\ UNCHANGED <<active, sinks>>

(* Ctrl+/ or a click on the button: the button is updated even if the mode   *)
(* could not be set.                                                         *)
Toggle ==
  /\ active
  /\ \E o \in SetInputMode(sinks, bar, Other(GetInputMode(conv))) :
       /\ open' = o.open /\ conv' = o.conv
       /\ bar' \in UpdateIcon(o.bar, o.conv)
  /\ by' = "toggle"
  /\ UNCHANGED <<active, sinks>>

-----------------------------------------------------------------------------
(* The application, another text service or the switcher sets a compartment. *)
OthersSetMode ==
  /\ conv' \in Modes
  /\ bar' \in SetValue(sinks, "conversion", bar, conv', conv # conv')
  /\ by' = "others"
  /\ UNCHANGED <<active, open, sinks>>

OthersOpenOrClose ==
  /\ open' = ~open
  /\ bar' \in SetValue(sinks, "openclose", bar, conv, TRUE)
  /\ UNCHANGED <<active, conv, sinks, by>>

(* The bar gets to run and asks for icon, text and tooltip. *)
BarAsks ==
  /\ bar.pending
  /\ bar' = Asks(bar, conv)
  /\ UNCHANGED <<active, open, conv, sinks, by>>

Next ==
  \/ ActivateEx \/ Deactivate \/ Toggle
  \/ OthersSetMode \/ OthersOpenOrClose \/ BarAsks

Spec == Init /\ [][Next]_vars

(* OnUpdate obliges the bar to ask again. *)
FairSpec == Spec /\ WF_vars(BarAsks)

-----------------------------------------------------------------------------
(* Every variable keeps its type: nothing is shown but a mode, and a button  *)
(* that nobody listens to waits for nothing.                                 *)
TypeOK ==
  /\ active \in BOOLEAN /\ open \in BOOLEAN
  /\ conv \in Modes \cup {"unset"}
  /\ sinks \subseteq Compartments
  /\ bar \in Bar
  /\ by \in {"toggle", "activation", "others"}
  /\ bar.pending => bar.item /\ bar.pSink

(* The button shows the mode the next key will meet, unless the bar is about *)
(* to ask: always if the conversion compartment calls us, and otherwise at   *)
(* least after our own change of mode.  Calls that fail make no difference,  *)
(* nor does it matter that the bar may ask between the two SetValue, or that *)
(* the button is in the bar before the compartments call us.                 *)
ButtonShowsMode ==
  bar.item /\ ~bar.pending /\ ("conversion" \in sinks \/ by = "toggle")
    => bar.shown = GetInputMode(conv)

(* TCodeIME.cpp:196: a button that was in the bar before "can cause the      *)
(* language bar to fail re-registration because _pSink may still be set".    *)
(* No bar is ever turned away.                                               *)
NeverRefused == ~bar.refused

(* A mode that everybody leaves alone is the one that gets shown.            *)
ModeIsShown ==
  \A m \in Modes :
    (active /\ bar.item /\ "conversion" \in sinks /\ GetInputMode(conv) = m)
      ~> (bar.shown = m \/ ~(active /\ bar.item /\ GetInputMode(conv) = m))
=============================================================================
