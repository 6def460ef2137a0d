-------------------------- MODULE InputModeProofs --------------------------
(***************************************************************************)
(* The mode and its button, for any sequence of toggles, activations and   *)
(* changes by others, whatever calls fail.                                 *)
(*                                                                         *)
(* ButtonShowsMode says nothing of how the button hears of a change, so it *)
(* does not survive a step by itself: a button in the bar must have a sink *)
(* to be told through.  That it has one rests on the bar never turning one *)
(* away, and this on a service that is not active having a button nobody   *)
(* listens to, which is what Deactivate's new button is for.               *)
(***************************************************************************)
EXTENDS InputMode, TLAPS

HasSink == bar.item <=> bar.pSink
FreshButton == ~active => bar = NewButton

IInv == TypeOK /\ HasSink /\ NeverRefused /\ FreshButton /\ ButtonShowsMode

(***************************************************************************)
(* A button as good as IInv asks: what it shows is the mode, unless the    *)
(* bar is about to ask.                                                    *)
(***************************************************************************)
Sound(b) ==
  /\ b \in Bar /\ ~b.refused
  /\ b.item <=> b.pSink
  /\ b.pending => b.item

Shows(b, value) == b.item /\ ~b.pending => b.shown = GetInputMode(value)

LEMMA InvOfButton ==
  IInv <=> /\ active \in BOOLEAN /\ open \in BOOLEAN
           /\ conv \in Modes \cup {"unset"}
           /\ sinks \subseteq Compartments
           /\ by \in {"toggle", "activation", "others"}
           /\ Sound(bar)
           /\ ~active => bar = NewButton
           /\ "conversion" \in sinks \/ by = "toggle" => Shows(bar, conv)
BY DEF IInv, TypeOK, HasSink, NeverRefused, FreshButton, ButtonShowsMode, Sound, Shows, Bar

LEMMA GetInputModeType ==
  ASSUME NEW value \in Modes \cup {"unset"}
  PROVE  GetInputMode(value) \in Modes
BY DEF GetInputMode, Modes

(* Whatever the bar makes of OnUpdate, it shows the mode or will ask.        *)
LEMMA UpdateIconShows ==
  ASSUME NEW b, Sound(b), NEW value \in Modes \cup {"unset"}, NEW c \in UpdateIcon(b, value)
  PROVE  /\ Sound(c) /\ Shows(c, value)
         /\ c.item = b.item
         /\ ~b.item => c = b
<1>1. CASE b.pSink
  <2>1. c = Asks(b, value) \/ c = [b EXCEPT !.pending = TRUE]
    BY <1>1 DEF UpdateIcon
  <2>2. b \in Bar /\ b.item
    BY <1>1 DEF Sound
  <2>3. CASE c = Asks(b, value)
    BY <2>2, <2>3, GetInputModeType DEF Asks, Sound, Shows, Bar
  <2>4. CASE c = [b EXCEPT !.pending = TRUE]
    BY <2>2, <2>4 DEF Sound, Shows, Bar
  <2> QED
    BY <2>1, <2>3, <2>4
<1>2. CASE ~b.pSink
  <2>1. c = b
    BY <1>2 DEF UpdateIcon
  <2> QED
    BY <1>2, <2>1 DEF Sound, Shows
<1> QED
  BY <1>1, <1>2

(* Passed on or not, a SetValue that leaves the mode alone does no harm.     *)
LEMMA TouchedShows ==
  ASSUME NEW b, Sound(b), NEW value \in Modes \cup {"unset"},
         NEW c \in UpdateIcon(b, value) \cup {b}
  PROVE  /\ Sound(c) /\ c.item = b.item
         /\ ~b.item => c = b
         /\ Shows(b, value) => Shows(c, value)
BY UpdateIconShows

(* Our own SetValue of a compartment, and everybody else's.                  *)
LEMMA OpenCloseTouches ==
  ASSUME NEW to, NEW b, NEW c \in SetOpenClose(to, b)
  PROVE  c \in UpdateIcon(b, conv) \cup {b}
BY DEF SetOpenClose, SetValue, OnChange

LEMMA ConversionTouches ==
  ASSUME NEW to, NEW b, NEW m, NEW c \in SetConversionMode(to, b, m)
  PROVE  /\ c \in UpdateIcon(b, m) \cup {b}
         /\ "conversion" \in to /\ conv # m => c \in UpdateIcon(b, m)
BY DEF SetConversionMode, SetValue, OnChange

(* _SetInputMode, whether the calls succeed or fail, with the bar asking in  *)
(* between or later.                                                         *)
LEMMA SetInputModeShows ==
  ASSUME open \in BOOLEAN, conv \in Modes \cup {"unset"},
         NEW to, NEW b, Sound(b), NEW m \in Modes, NEW o \in SetInputMode(to, b, m)
  PROVE  /\ o.open \in BOOLEAN /\ o.conv \in Modes \cup {"unset"}
         /\ Sound(o.bar) /\ o.bar.item = b.item
         /\ "conversion" \in to /\ Shows(b, conv) => Shows(o.bar, o.conv)
<1>1. CASE o = [open |-> open, conv |-> conv, bar |-> b]
  BY <1>1
<1>2. ASSUME NEW d \in SetOpenClose(to, b)
      PROVE  Sound(d) /\ d.item = b.item /\ (Shows(b, conv) => Shows(d, conv))
  BY <1>2, TouchedShows, OpenCloseTouches
<1>3. ASSUME NEW d \in SetOpenClose(to, b), o = [open |-> TRUE, conv |-> conv, bar |-> d]
      PROVE  /\ o.open \in BOOLEAN /\ o.conv \in Modes \cup {"unset"}
             /\ Sound(o.bar) /\ o.bar.item = b.item
             /\ "conversion" \in to /\ Shows(b, conv) => Shows(o.bar, o.conv)
  BY <1>2, <1>3
<1>4. ASSUME NEW d \in SetOpenClose(to, b), NEW e \in SetConversionMode(to, d, m),
             o = [open |-> TRUE, conv |-> m, bar |-> e]
      PROVE  /\ o.open \in BOOLEAN /\ o.conv \in Modes \cup {"unset"}
             /\ Sound(o.bar) /\ o.bar.item = b.item
             /\ "conversion" \in to /\ Shows(b, conv) => Shows(o.bar, o.conv)
  <2>1. Sound(d) /\ d.item = b.item /\ (Shows(b, conv) => Shows(d, conv))
    BY <1>2
  <2>2. /\ Sound(e) /\ e.item = d.item
        /\ Shows(d, m) => Shows(e, m)
        /\ "conversion" \in to /\ conv # m => Shows(e, m)
    BY <1>4, <2>1, TouchedShows, UpdateIconShows, ConversionTouches
  <2> QED
    BY <1>4, <2>1, <2>2
<1> QED
  BY <1>1, <1>3, <1>4 DEF SetInputMode

(* A button nobody listens to goes to the bar, or the call fails. *)
LEMMA AddItemShows ==
  ASSUME conv \in Modes \cup {"unset"}, NEW c \in AddItem(NewButton)
  PROVE  Sound(c) /\ Shows(c, conv)
<1> DEFINE added == [NewButton EXCEPT !.item = TRUE, !.pSink = TRUE]
<1>1. NewButton \in Bar /\ ~NewButton.item /\ ~NewButton.pSink /\ ~NewButton.refused /\ ~NewButton.pending
  BY DEF NewButton, Bar
<1>2. added \in Bar /\ added.item /\ added.pSink /\ ~added.refused
  BY DEF NewButton, Bar
<1>3. c \in {NewButton, Asks(added, conv), [added EXCEPT !.pending = TRUE]}
  BY <1>1 DEF AddItem
<1> HIDE DEF added
<1>4. CASE c = NewButton
  BY <1>1, <1>4 DEF Sound, Shows
<1>5. CASE c = Asks(added, conv)
  BY <1>2, <1>5, GetInputModeType DEF Asks, Sound, Shows, Bar
<1>6. CASE c = [added EXCEPT !.pending = TRUE]
  BY <1>2, <1>6 DEF Sound, Shows, Bar
<1> QED
  BY <1>3, <1>4, <1>5, <1>6

-----------------------------------------------------------------------------
LEMMA InitIInv == Init => IInv
<1> SUFFICES ASSUME Init PROVE IInv
  OBVIOUS
<1>1. Sound(bar) /\ Shows(bar, conv)
  BY DEF Init, Sound, Shows, NewButton, Bar
<1> QED
  BY <1>1, InvOfButton DEF Init

LEMMA NextKeepsIInv ==
  ASSUME IInv, [Next]_vars
  PROVE  IInv'
<1>1. /\ active \in BOOLEAN /\ open \in BOOLEAN
      /\ conv \in Modes \cup {"unset"}
      /\ sinks \subseteq Compartments
      /\ by \in {"toggle", "activation", "others"}
      /\ Sound(bar)
      /\ ~active => bar = NewButton
      /\ "conversion" \in sinks \/ by = "toggle" => Shows(bar, conv)
  BY InvOfButton
<1>2. SUFFICES /\ active' \in BOOLEAN /\ open' \in BOOLEAN
               /\ conv' \in Modes \cup {"unset"}
               /\ sinks' \subseteq Compartments
               /\ by' \in {"toggle", "activation", "others"}
               /\ Sound(bar')
               /\ ~active' => bar' = NewButton
               /\ "conversion" \in sinks' \/ by' = "toggle" => Shows(bar', conv')
  BY DEF IInv, TypeOK, HasSink, NeverRefused, FreshButton, ButtonShowsMode, Sound, Shows, Bar
<1>3. CASE ActivateEx
  <2>1. /\ ~active /\ active' = TRUE /\ by' = "activation" /\ sinks' \subseteq Compartments
    BY <1>1, <1>3 DEF ActivateEx, InitCompartmentEventSink
  <2>2. PICK b \in AddItem(bar) :
          \E o \in SetInputMode(sinks', b, "Direct") : open' = o.open /\ conv' = o.conv /\ bar' = o.bar
    BY <1>3 DEF ActivateEx
  <2>3. PICK o \in SetInputMode(sinks', b, "Direct") : open' = o.open /\ conv' = o.conv /\ bar' = o.bar
    BY <2>2
  <2>4. Sound(b) /\ Shows(b, conv)
    BY <1>1, <2>1, <2>2, AddItemShows
  <2>5. "Direct" \in Modes
    BY DEF Modes
  <2>6. /\ o.open \in BOOLEAN /\ o.conv \in Modes \cup {"unset"}
        /\ Sound(o.bar)
        /\ "conversion" \in sinks' => Shows(o.bar, o.conv)
    BY <1>1, <2>3, <2>4, <2>5, SetInputModeShows
  <2> QED
    BY <2>1, <2>3, <2>6
<1>4. CASE Deactivate
  <2>1. bar' = NewButton
    <3>1. bar.refused = FALSE
      BY <1>1 DEF Sound, Bar
    <3> QED
      BY <1>4, <3>1 DEF Deactivate, NewButton
  <2>2. Sound(bar') /\ Shows(bar', conv')
    BY <2>1 DEF Sound, Shows, NewButton, Bar
  <2>3. sinks' \subseteq Compartments
    BY <1>1, <1>4 DEF Deactivate, UninitCompartmentEventSink
  <2> QED
    BY <1>1, <1>4, <2>1, <2>2, <2>3 DEF Deactivate
<1>5. CASE Toggle
  <2>1. Other(GetInputMode(conv)) \in Modes
    BY DEF Other, Modes
  <2>2. PICK o \in SetInputMode(sinks, bar, Other(GetInputMode(conv))) :
          open' = o.open /\ conv' = o.conv /\ bar' \in UpdateIcon(o.bar, o.conv)
    BY <1>5 DEF Toggle
  <2>3. o.open \in BOOLEAN /\ o.conv \in Modes \cup {"unset"} /\ Sound(o.bar)
    BY <1>1, <2>1, <2>2, SetInputModeShows
  <2>4. Sound(bar') /\ Shows(bar', conv')
    BY <2>2, <2>3, UpdateIconShows
  <2> QED
    BY <1>1, <1>5, <2>2, <2>3, <2>4 DEF Toggle
<1>6. CASE OthersSetMode
  <2>1. /\ conv' \in Modes /\ bar' \in SetValue(sinks, "conversion", bar, conv', conv # conv')
        /\ by' = "others" /\ UNCHANGED <<active, open, sinks>>
    BY <1>6 DEF OthersSetMode
  <2>2. /\ Sound(bar')
        /\ ~bar.item => bar' = bar
        /\ Shows(bar, conv') => Shows(bar', conv')
        /\ "conversion" \in sinks /\ conv # conv' => Shows(bar', conv')
    <3>1. /\ bar' \in UpdateIcon(bar, conv') \cup {bar}
          /\ "conversion" \in sinks /\ conv # conv' => bar' \in UpdateIcon(bar, conv')
      BY <2>1 DEF SetValue, OnChange
    <3> QED
      BY <1>1, <2>1, <3>1, TouchedShows, UpdateIconShows
  <2>3. ~active => bar' = NewButton
    BY <1>1, <2>2 DEF NewButton
  <2> QED
    BY <1>1, <2>1, <2>2, <2>3
<1>7. CASE OthersOpenOrClose
  <2>1. /\ open' = ~open /\ bar' \in SetValue(sinks, "openclose", bar, conv, TRUE)
        /\ UNCHANGED <<active, conv, sinks, by>>
    BY <1>7 DEF OthersOpenOrClose
  <2>2. /\ Sound(bar')
        /\ ~bar.item => bar' = bar
        /\ Shows(bar, conv) => Shows(bar', conv)
    <3>1. bar' \in UpdateIcon(bar, conv) \cup {bar}
      BY <2>1 DEF SetValue, OnChange
    <3> QED
      BY <1>1, <2>1, <3>1, TouchedShows
  <2>3. ~active => bar' = NewButton
    BY <1>1, <2>2 DEF NewButton
  <2> QED
    BY <1>1, <2>1, <2>2, <2>3
<1>8. CASE BarAsks
  <2>1. bar.pending /\ bar' = Asks(bar, conv) /\ UNCHANGED <<active, open, conv, sinks, by>>
    BY <1>8 DEF BarAsks
  <2>2. Sound(bar') /\ Shows(bar', conv)
    BY <1>1, <2>1, GetInputModeType DEF Asks, Sound, Shows, Bar
  <2>3. active
    BY <1>1, <2>1 DEF NewButton
  <2> QED
    BY <1>1, <2>1, <2>2, <2>3
<1>9. CASE UNCHANGED vars
  BY <1>1, <1>9 DEF vars
<1> QED
  BY <1>3, <1>4, <1>5, <1>6, <1>7, <1>8, <1>9 DEF Next

LEMMA Invariance == Spec => []IInv
  BY InitIInv, NextKeepsIInv, PTL DEF Spec

-----------------------------------------------------------------------------
(* Every variable has its type, and a button waits for the bar only while it *)
(* is in the bar and the bar is told.                                        *)
THEOREM TypeCorrect == Spec => []TypeOK
  BY Invariance, PTL DEF IInv

(* Unless the bar is about to ask, the button shows the mode the next key    *)
(* will meet: at all times if the conversion compartment calls us, and after *)
(* our own toggle even if it does not.                                       *)
THEOREM ButtonFollowsMode == Spec => []ButtonShowsMode
  BY Invariance, PTL DEF IInv

(* TCodeIME.cpp:196: with a new button for every activation, none meets a    *)
(* sink that is still set.                                                   *)
THEOREM AlwaysWelcome == Spec => []NeverRefused
  BY Invariance, PTL DEF IInv
=============================================================================
