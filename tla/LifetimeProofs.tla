--------------------------- MODULE LifetimeProofs ---------------------------
(***************************************************************************)
(* Who may still hold a released CTCodeIME, why its button never outlives  *)
(* it, and why nothing of the DLL is in use when it is unloaded, for any   *)
(* number of threads, documents and buttons.                               *)
(***************************************************************************)
EXTENDS Lifetime, FiniteSetTheorems, TLAPS

(***************************************************************************)
(* What is true of the objects of one slot between two calls: a button     *)
(* exists exactly while it holds its owner; at most one is _pModeButton,   *)
(* and none is after Deactivate; the framework's sinks are held only while *)
(* the service is active, and then its client holds it too.  Without a     *)
(* mishap the composition and the one layout sink are in the document that *)
(* has the focus, and the sink only while the service is active.           *)
(***************************************************************************)
Owned(o) ==
  /\ o \in Objects
  /\ \A b \in Buttons : o.button[b] # {} <=> b \in o.holders
  /\ \A b, d \in Buttons : "ime" \in o.button[b] /\ "ime" \in o.button[d] => b = d
  /\ o.active => o.activated /\ "client" \in o.holders
  /\ ~o.active => o.holders \cap Sinks = {}
  /\ ~o.active /\ o.activated => \A b \in Buttons : "ime" \notin o.button[b]

Calm(o) == o.mishaps = {} =>
  /\ ~o.leaked /\ o.orphans = {} /\ o.composing \in {NoContext, o.focus}
  /\ \A c \in Contexts : o.layout[c] > 0 => o.active /\ o.cookie = c /\ o.focus = c /\ o.layout[c] = 1

Good(o) == Owned(o) /\ Calm(o)

IInv == inst \in [Instances -> Objects] /\ \A i \in Instances : Good(inst[i])

(* The destructor of a CTCodeIME finds no button left to release. *)
LEMMA SettleGood ==
  ASSUME NEW o, Good(o)
  PROVE  Good(Settle(o))
<1>1. CASE Live(o)
  BY <1>1 DEF Settle
<1>2. CASE ~Live(o)
  <2>1. o.holders = {} /\ o \in Objects
    BY <1>2 DEF Live, Good, Owned
  <2>2. \A b \in Buttons : o.button[b] = {}
    BY <2>1 DEF Good, Owned
  <2>3. [b \in Buttons |-> o.button[b] \ {"ime"}] = [b \in Buttons |-> {}]
    BY <2>2
  <2> DEFINE n == Nothing(o.focus)
             l == o.list \ {"ime"}
  <2>4. Settle(o) = [n EXCEPT !.list = l]
    <3>1. n.button = [b \in Buttons |-> {}]
      BY DEF Nothing
    <3> QED
      BY <1>2, <2>3, <3>1 DEF Settle, Nothing
  <2>5. l \in SUBSET {"ime", "app"} /\ o.focus \in Contexts \cup {NoContext}
    BY <2>1 DEF Objects
  <2> HIDE DEF l
  <2>6. [n EXCEPT !.list = l] \in Objects
    BY <2>5 DEF Objects, Nothing
  <2>7. Owned([n EXCEPT !.list = l])
    BY <2>6 DEF Owned, Nothing
  <2>8. Calm([n EXCEPT !.list = l])
    BY <2>6 DEF Calm, Nothing
  <2> QED
    BY <2>4, <2>7, <2>8 DEF Good
<1> QED
  BY <1>1, <1>2

(* Every action on a slot leaves good objects in it. *)
LEMMA BecomesGood ==
  ASSUME IInv, NEW i \in Instances, NEW o, Good(o), Becomes(i, o)
  PROVE  IInv'
<1>1. Good(Settle(o)) /\ Settle(o) \in Objects
  BY SettleGood DEF Good, Owned
<1>2. inst' = [inst EXCEPT ![i] = Settle(o)]
  BY DEF Becomes
<1> QED
  BY <1>1, <1>2 DEF IInv

(* The first button of a slot, or the one it has. *)
LEMMA EnsureGood ==
  ASSUME NEW o \in Objects,
         \A b \in Buttons : o.button[b] # {} <=> b \in o.holders,
         \A b, d \in Buttons : "ime" \in o.button[b] /\ "ime" \in o.button[d] => b = d,
         NEW p \in EnsureButton(o)
  PROVE  /\ p \in Objects
         /\ \A b \in Buttons : p.button[b] # {} <=> b \in p.holders
         /\ \A b, d \in Buttons : "ime" \in p.button[b] /\ "ime" \in p.button[d] => b = d
         /\ o.holders \subseteq p.holders /\ p.holders \subseteq o.holders \cup Buttons
         /\ p.active = o.active /\ p.activated = o.activated
         /\ p.leaked = o.leaked /\ p.layout = o.layout /\ p.cookie = o.cookie /\ p.composing = o.composing
         /\ p.orphans = o.orphans /\ p.focus = o.focus /\ p.mishaps = o.mishaps
<1>1. CASE p = o
  BY <1>1
<1>2. CASE p # o
  <2>1. ModeButtons(o) = {}
    BY <1>2 DEF EnsureButton
  <2>2. PICK b \in Buttons : o.button[b] = {} /\ p = NewButton(o, b)
    BY <1>2, <2>1 DEF EnsureButton
  <2>3. \A d \in Buttons : "ime" \notin o.button[d]
    BY <2>1 DEF ModeButtons
  <2>4. p = [o EXCEPT !.button = [o.button EXCEPT ![b] = {"ime"}], !.holders = @ \cup {b}]
    BY <2>2 DEF NewButton, Objects
  <2>5. p \in Objects /\ p.button = [o.button EXCEPT ![b] = {"ime"}] /\ p.holders = o.holders \cup {b}
    BY <2>4 DEF Objects, Holders
  <2> QED
    BY <2>3, <2>4, <2>5 DEF Objects
<1> QED
  BY <1>1, <1>2

(* The layout sink changes nothing but its registrations and its cookie. *)
LEMMA InitSinkGood ==
  ASSUME NEW o, Good(o), NEW c \in Contexts, o.active, o.focus = c, NEW p \in InitContextSink(o, c)
  PROVE  Good(p)
<1>1. CASE p = o
  BY <1>1
<1>2. CASE o.cookie = NoContext /\ p = [o EXCEPT !.layout[c] = @ + 1, !.cookie = c]
  <2> DEFINE l == [o.layout EXCEPT ![c] = @ + 1]
  <2>1. p = [o EXCEPT !.layout = l, !.cookie = c]
    BY <1>2 DEF Good, Owned, Objects
  <2>2. l \in [Contexts -> Nat] /\ l[c] = o.layout[c] + 1 /\ \A d \in Contexts \ {c} : l[d] = o.layout[d]
    BY DEF Good, Owned, Objects
  <2> HIDE DEF l
  <2>3. p \in Objects /\ p.layout = l /\ p.cookie = c
    BY <2>1, <2>2 DEF Good, Owned, Objects
  <2>4. Owned(p)
    BY <2>1, <2>3 DEF Good, Owned, Objects
  <2>5. /\ p.mishaps = o.mishaps /\ p.leaked = o.leaked /\ p.orphans = o.orphans
        /\ p.composing = o.composing /\ p.focus = o.focus /\ p.active = o.active
    BY <2>1 DEF Good, Owned, Objects
  <2>6. o.mishaps = {} => \A d \in Contexts : ~(o.layout[d] > 0)
    BY <1>2, LifetimeAssumption DEF Good, Calm
  <2>7. \A d \in Contexts : o.layout[d] \in Nat
    BY DEF Good, Owned, Objects
  <2>8. o.mishaps = {} => \A d \in Contexts : l[d] > 0 => d = c /\ l[d] = 1
    BY <2>2, <2>6, <2>7
  <2>9. Calm(p)
    BY <2>3, <2>5, <2>8 DEF Good, Calm
  <2> QED
    BY <2>4, <2>9 DEF Good
<1> QED
  BY <1>1, <1>2 DEF InitContextSink

LEMMA UninitSinkGood ==
  ASSUME NEW o, Good(o), NEW c \in Contexts, o.focus = c, NEW p \in UninitContextSink(o, c)
  PROVE  /\ Good(p)
         /\ p.holders = o.holders /\ p.button = o.button /\ p.active = o.active /\ p.activated = o.activated
         /\ p.focus = o.focus
         /\ p.mishaps = {} => \A d \in Contexts : ~(p.layout[d] > 0)
<1> DEFINE l == [o.layout EXCEPT ![c] = @ - 1]
<1>1. o \in Objects /\ \A d \in Contexts : o.layout[d] \in Nat
  BY DEF Good, Owned, Objects
<1>2. CASE (o.cookie # c \/ o.layout[c] = 0) /\ p = [o EXCEPT !.cookie = NoContext]
  <2>1. /\ p \in Objects /\ p.holders = o.holders /\ p.button = o.button /\ p.active = o.active
        /\ p.activated = o.activated /\ p.focus = o.focus /\ p.layout = o.layout /\ p.mishaps = o.mishaps
        /\ p.leaked = o.leaked /\ p.orphans = o.orphans /\ p.composing = o.composing
    BY <1>1, <1>2 DEF Objects
  <2>2. o.mishaps = {} => \A d \in Contexts : ~(o.layout[d] > 0)
    BY <1>1, <1>2 DEF Good, Calm
  <2>3. Owned(p)
    BY <2>1 DEF Good, Owned
  <2>4. Calm(p)
    BY <2>1, <2>2 DEF Good, Calm
  <2> QED
    BY <2>1, <2>2, <2>3, <2>4 DEF Good
<1>3. CASE o.cookie = c /\ o.layout[c] # 0 /\ p = [[o EXCEPT !.cookie = NoContext] EXCEPT !.layout[c] = @ - 1]
  <2>1. l \in [Contexts -> Nat] /\ l[c] = o.layout[c] - 1 /\ \A d \in Contexts \ {c} : l[d] = o.layout[d]
    BY <1>1, <1>3 DEF Objects
  <2>2. p = [o EXCEPT !.cookie = NoContext, !.layout = l]
    BY <1>1, <1>3 DEF Objects
  <2> HIDE DEF l
  <2>3. /\ p \in Objects /\ p.holders = o.holders /\ p.button = o.button /\ p.active = o.active
        /\ p.activated = o.activated /\ p.focus = o.focus /\ p.layout = l /\ p.mishaps = o.mishaps
        /\ p.leaked = o.leaked /\ p.orphans = o.orphans /\ p.composing = o.composing
    BY <1>1, <2>1, <2>2 DEF Objects
  <2>4. o.mishaps = {} => \A d \in Contexts : ~(l[d] > 0)
    <3>1. o.mishaps = {} => o.layout[c] = 1 /\ \A d \in Contexts \ {c} : ~(o.layout[d] > 0)
      BY <1>1, <1>3 DEF Good, Calm
    <3> QED
      BY <2>1, <3>1
  <2>5. Owned(p)
    BY <2>3 DEF Good, Owned
  <2>6. Calm(p)
    BY <2>3, <2>4 DEF Good, Calm
  <2> QED
    BY <2>3, <2>4, <2>5, <2>6 DEF Good
<1>4. CASE p = [[o EXCEPT !.cookie = NoContext] EXCEPT !.mishaps = @ \cup {"refused"}]
  <2>1. /\ p \in Objects /\ p.holders = o.holders /\ p.button = o.button /\ p.active = o.active
        /\ p.activated = o.activated /\ p.focus = o.focus /\ p.mishaps = o.mishaps \cup {"refused"}
    BY <1>1, <1>4 DEF Objects
  <2>2. Owned(p) /\ Calm(p)
    BY <2>1 DEF Good, Owned, Calm
  <2> QED
    BY <2>1, <2>2 DEF Good
<1> QED
  BY <1>2, <1>3, <1>4 DEF UninitContextSink

(* The compositions change nothing that holds a button or a sink.            *)
LEMMA ForgetsGood ==
  ASSUME NEW o, Good(o), NEW c \in Contexts, NEW k \in {NoContext, o.focus}
  PROVE  LET p == [Forgets(o, c) EXCEPT !.composing = k]
         IN  /\ p \in Objects /\ Owned(p) /\ (o.focus = c => Calm(p))
<1> DEFINE r == IF o.composing \in {c, NoContext} THEN o.orphans ELSE o.orphans \cup {o.composing}
           p == [Forgets(o, c) EXCEPT !.composing = k]
<1>1. o \in Objects
  BY DEF Good, Owned
<1>2. p = [o EXCEPT !.orphans = r, !.composing = k]
  BY <1>1 DEF Forgets, Objects
<1>3. r \in SUBSET Contexts /\ (o.composing \in {c, NoContext} => r = o.orphans)
  BY <1>1 DEF Objects
<1> HIDE DEF r, p
<1>4. /\ p \in Objects /\ p.orphans = r /\ p.composing = k /\ p.holders = o.holders /\ p.button = o.button
      /\ p.active = o.active /\ p.activated = o.activated /\ p.leaked = o.leaked /\ p.layout = o.layout
      /\ p.cookie = o.cookie /\ p.focus = o.focus /\ p.mishaps = o.mishaps
  BY <1>1, <1>2, <1>3 DEF Objects
<1>5. Owned(p)
  BY <1>4 DEF Good, Owned
<1>6. o.focus = c => Calm(p)
  BY <1>3, <1>4 DEF Good, Calm
<1> QED
  BY <1>4, <1>5, <1>6 DEF p

LEMMA TerminatedGood ==
  ASSUME NEW o, Good(o), NEW c \in Contexts
  PROVE  /\ Good(Terminated(o, c))
         /\ Terminated(o, c).focus = o.focus
         /\ o.mishaps = {} => Terminated(o, c).composing # c
<1> DEFINE r == (IF o.composing \in {c, NoContext} THEN o.orphans ELSE o.orphans \cup {o.composing}) \ {c}
           p == Terminated(o, c)
<1>1. o \in Objects
  BY DEF Good, Owned
<1>2. CASE c \notin o.orphans \cup {o.composing}
  BY <1>2 DEF Terminated
<1>3. CASE c \in o.orphans \cup {o.composing}
  <2>1. p = [o EXCEPT !.orphans = r, !.composing = NoContext]
    BY <1>1, <1>3 DEF Terminated, Forgets, Objects
  <2>2. r \in SUBSET Contexts /\ (o.mishaps = {} => r = {})
    BY <1>1, <1>3 DEF Objects, Good, Calm
  <2> HIDE DEF r, p
  <2>3. /\ p \in Objects /\ p.orphans = r /\ p.composing = NoContext /\ p.holders = o.holders /\ p.button = o.button
        /\ p.active = o.active /\ p.activated = o.activated /\ p.leaked = o.leaked /\ p.layout = o.layout
        /\ p.cookie = o.cookie /\ p.focus = o.focus /\ p.mishaps = o.mishaps
    BY <1>1, <2>1, <2>2 DEF Objects
  <2>4. Owned(p) /\ Calm(p)
    BY <2>2, <2>3 DEF Good, Owned, Calm
  <2> QED
    BY <2>3, <2>4, LifetimeAssumption DEF Good, p
<1> QED
  BY <1>2, <1>3

(* The language bar, or the service, lets go of a button. *)
LEMMA ReleaseButtonGood ==
  ASSUME NEW o \in Objects, NEW b \in Buttons, NEW hs,
         \A d \in Buttons : o.button[d] # {} <=> d \in o.holders,
         \A d, e \in Buttons : "ime" \in o.button[d] /\ "ime" \in o.button[e] => d = e,
         o.active => o.activated /\ "client" \in o.holders,
         ~o.active => o.holders \cap Sinks = {},
         ~o.active /\ o.activated => \A d \in Buttons : "ime" \in o.button[d] => d = b /\ "ime" \in hs,
         Calm(o)
  PROVE  Good(ReleaseButton(o, b, hs))
<1> DEFINE p == [o EXCEPT !.button[b] = @ \ hs]
           q == ReleaseButton(o, b, hs)
<1>1. p = [o EXCEPT !.button = [o.button EXCEPT ![b] = @ \ hs]]
  BY DEF Objects
<1>2. p.button = [o.button EXCEPT ![b] = @ \ hs] /\ p \in Objects
  BY <1>1 DEF Objects
<1>3. b \notin Sinks /\ b # "client"
  BY LifetimeAssumption DEF Sinks
<1>4. q = IF p.button[b] = {} THEN [p EXCEPT !.holders = @ \ {b}] ELSE p
  BY DEF ReleaseButton, Release
<1>5. /\ q \in Objects
      /\ q.button = p.button
      /\ q.holders = IF p.button[b] = {} THEN o.holders \ {b} ELSE o.holders
      /\ q.active = o.active /\ q.activated = o.activated
      /\ q.leaked = o.leaked /\ q.layout = o.layout /\ q.cookie = o.cookie /\ q.composing = o.composing
      /\ q.orphans = o.orphans /\ q.focus = o.focus /\ q.mishaps = o.mishaps
  <2>1. /\ p.holders = o.holders /\ p.active = o.active /\ p.activated = o.activated
        /\ p.leaked = o.leaked /\ p.layout = o.layout /\ p.cookie = o.cookie /\ p.composing = o.composing
        /\ p.orphans = o.orphans /\ p.focus = o.focus /\ p.mishaps = o.mishaps
    BY <1>1 DEF Objects
  <2> HIDE DEF p, q
  <2>2. CASE p.button[b] = {}
    BY <1>2, <1>4, <2>1, <2>2 DEF Objects
  <2>3. CASE p.button[b] # {}
    BY <1>2, <1>4, <2>1, <2>3
  <2> QED
    BY <2>2, <2>3
<1> HIDE DEF p, q
<1>6. p.button[b] = o.button[b] \ hs /\ \A d \in Buttons \ {b} : p.button[d] = o.button[d]
  BY <1>2 DEF Objects
<1>7. \A d \in Buttons : q.button[d] # {} <=> d \in q.holders
  BY <1>5, <1>6
<1>8. \A d \in Buttons : "ime" \in q.button[d] => "ime" \in o.button[d] /\ (d = b => "ime" \notin hs)
  BY <1>5, <1>6
<1>9. Owned(q)
  BY <1>3, <1>5, <1>7, <1>8 DEF Owned
<1>10. Calm(q)
  BY <1>5 DEF Calm
<1> QED
  BY <1>9, <1>10 DEF Good, q

-----------------------------------------------------------------------------
LEMMA CreateGood ==
  ASSUME IInv, NEW i \in Instances, CreateInstance(i)
  PROVE  IInv'
<1>1. PICK client \in {{}, {"client"}} :
        \E o \in EnsureButton([Nothing(inst[i].focus) EXCEPT !.holders = client, !.list = {"ime"}]) :
          Becomes(i, o)
  BY DEF CreateInstance
<1> DEFINE n == [Nothing(inst[i].focus) EXCEPT !.holders = client, !.list = {"ime"}]
<1>2. PICK o \in EnsureButton(n) : Becomes(i, o)
  BY <1>1
<1>3. /\ n \in Objects /\ n.holders = client /\ n.button = [b \in Buttons |-> {}]
      /\ n.active = FALSE /\ n.activated = FALSE /\ n.leaked = FALSE /\ n.orphans = {}
      /\ n.composing = NoContext /\ n.layout = [c \in Contexts |-> 0]
  BY DEF IInv, Good, Owned, Objects, Nothing, Holders
<1>4. \A b \in Buttons : b \notin n.holders /\ n.button[b] = {}
  BY <1>3, LifetimeAssumption
<1> HIDE DEF n
<1>5. /\ o \in Objects
      /\ \A b \in Buttons : o.button[b] # {} <=> b \in o.holders
      /\ \A b, d \in Buttons : "ime" \in o.button[b] /\ "ime" \in o.button[d] => b = d
      /\ o.holders \subseteq client \cup Buttons
      /\ o.active = FALSE /\ o.activated = FALSE /\ o.leaked = FALSE /\ o.orphans = {}
      /\ o.composing = NoContext /\ o.layout = [c \in Contexts |-> 0]
  BY <1>2, <1>3, <1>4, EnsureGood
<1>6. o.holders \cap Sinks = {}
  BY <1>5, LifetimeAssumption DEF Sinks
<1>7. Owned(o) /\ Calm(o)
  BY <1>5, <1>6 DEF Owned, Calm
<1> QED
  BY <1>2, <1>7, BecomesGood DEF Good

LEMMA ClientReleasesGood ==
  ASSUME IInv, NEW i \in Instances, ClientReleases(i)
  PROVE  IInv'
<1> DEFINE o == inst[i]  p == Release(o, {"client"})
<1>1. Good(o) /\ ~o.active /\ o \in Objects
  BY DEF IInv, Good, Owned, ClientReleases
<1>2. p = [o EXCEPT !.holders = @ \ {"client"}] /\ "client" \notin Buttons
  BY LifetimeAssumption DEF Release
<1>3. p \in Objects /\ p.holders = o.holders \ {"client"}
  BY <1>1, <1>2 DEF Objects
<1>4. Owned(p) /\ Calm(p)
  BY <1>1, <1>2, <1>3 DEF Good, Owned, Calm, Objects
<1> QED
  BY <1>4, BecomesGood DEF Good, ClientReleases

LEMMA ActivateGood ==
  ASSUME IInv, NEW i \in Instances, ActivateEx(i)
  PROVE  IInv'
<1> DEFINE Registered(o, advised, bar) ==
             [o EXCEPT !.holders = @ \cup advised, !.active = TRUE, !.activated = TRUE,
                       !.button = [b \in Buttons |-> IF b \in ModeButtons(o) THEN @[b] \cup bar ELSE @[b]]]
           Startup(o) == IF o.focus = NoContext THEN {o} ELSE InitContextSink(o, o.focus)
<1>1. PICK advised \in SUBSET Sinks, bar \in SUBSET {"langbar"}, o \in EnsureButton(inst[i]) :
        \E p \in Startup(Registered(o, advised, bar)) : Becomes(i, p)
  BY DEF ActivateEx
<1> DEFINE r == Registered(o, advised, bar)
<1>2. Good(inst[i]) /\ "client" \in inst[i].holders /\ inst[i] \in Objects /\ ~inst[i].active
  BY DEF IInv, Good, Owned, ActivateEx
<1>3. /\ o \in Objects
      /\ \A b \in Buttons : o.button[b] # {} <=> b \in o.holders
      /\ \A b, d \in Buttons : "ime" \in o.button[b] /\ "ime" \in o.button[d] => b = d
      /\ "client" \in o.holders /\ Calm(o) /\ ~o.active
  <2> HIDE DEF Calm
  <2>1. Owned(inst[i]) /\ Calm(inst[i])
    BY <1>2 DEF Good
  <2> QED
    BY <1>2, <2>1, EnsureGood DEF Owned, Calm
<1> DEFINE shown == [b \in Buttons |-> IF b \in ModeButtons(o) THEN o.button[b] \cup bar ELSE o.button[b]]
<1>4. shown \in [Buttons -> SUBSET {"ime", "langbar"}]
  BY <1>3 DEF Objects
<1>5. /\ r \in Objects /\ r.button = shown /\ r.holders = o.holders \cup advised
      /\ r.active = TRUE /\ r.activated = TRUE
      /\ r.leaked = o.leaked /\ r.layout = o.layout /\ r.cookie = o.cookie /\ r.composing = o.composing
      /\ r.orphans = o.orphans /\ r.focus = o.focus /\ r.mishaps = o.mishaps
  BY <1>3, <1>4 DEF Objects, Holders
<1>6. \A b \in Buttons : /\ b \notin advised
                         /\ r.button[b] # {} <=> o.button[b] # {}
                         /\ "ime" \in r.button[b] <=> "ime" \in o.button[b]
  BY <1>5, LifetimeAssumption DEF ModeButtons, Sinks
<1> HIDE DEF r, shown
<1>7. Good(r)
  BY <1>3, <1>5, <1>6 DEF Good, Owned, Calm
<1>8. PICK p \in Startup(r) : Becomes(i, p)
  BY <1>1 DEF r
<1>9. Good(p)
  <2>1. CASE r.focus = NoContext
    BY <1>7, <1>8, <2>1
  <2>2. CASE r.focus # NoContext
    BY <1>5, <1>7, <1>8, <2>2, InitSinkGood DEF Objects
  <2> QED
    BY <2>1, <2>2
<1> QED
  BY <1>8, <1>9, BecomesGood

(* What Deactivate has done when it comes to the button.                     *)
LEMMA UnregisteredGood ==
  ASSUME NEW o, Good(o), o.active, NEW u \in Unregistered(o)
  PROVE  /\ u \in Objects /\ u.holders = o.holders \ Sinks /\ u.button = o.button
         /\ u.active = FALSE /\ u.activated = o.activated /\ Calm(u)
<1>1. PICK p \in (IF o.focus = NoContext THEN {o} ELSE UninitContextSink(o, o.focus)),
           refused \in SUBSET (o.holders \cap Sinks) :
        u = Unadvised(p, refused)
  BY SMTT(30) DEF Unregistered
<1>2. o \in Objects /\ o.focus \in Contexts \cup {NoContext}
  BY DEF Good, Owned, Objects
<1>3. /\ Good(p) /\ p.holders = o.holders /\ p.button = o.button /\ p.activated = o.activated
      /\ p.mishaps = {} => \A d \in Contexts : ~(p.layout[d] > 0)
  <2>1. CASE o.focus = NoContext
    BY <1>1, <2>1, LifetimeAssumption DEF Good, Calm
  <2>2. CASE o.focus # NoContext
    BY <1>1, <1>2, <2>2, UninitSinkGood
  <2> QED
    BY <2>1, <2>2
<1>4. p \in Objects
  BY <1>3 DEF Good, Owned
<1> DEFINE hs == p.holders \ Sinks
           k == p.leaked \/ refused # {}
           m == p.mishaps \cup (IF refused # {} THEN {"refused"} ELSE {})
<1>5. u = [p EXCEPT !.holders = hs, !.active = FALSE, !.leaked = k, !.mishaps = m]
  BY <1>1, <1>4 DEF Unadvised, Release, Objects
<1>6. hs \in SUBSET Holders /\ k \in BOOLEAN /\ m \in SUBSET {"refused", "strayed"}
  BY <1>4 DEF Objects
<1>7. m = {} => p.mishaps = {} /\ k = p.leaked
  <2>1. p.leaked \in BOOLEAN
    BY <1>4 DEF Objects
  <2> QED
    BY <2>1
<1>8. hs = o.holders \ Sinks
  BY <1>3
<1> HIDE DEF hs, k, m
<1>9. /\ u \in Objects /\ u.holders = hs /\ u.button = p.button /\ u.active = FALSE
      /\ u.activated = p.activated /\ u.leaked = k /\ u.mishaps = m /\ u.layout = p.layout
      /\ u.orphans = p.orphans /\ u.composing = p.composing /\ u.focus = p.focus
  BY <1>4, <1>5, <1>6 DEF Objects
<1>10. Calm(u)
  BY <1>3, <1>7, <1>9 DEF Good, Calm
<1> QED
  BY <1>3, <1>8, <1>9, <1>10

LEMMA DeactivateGood ==
  ASSUME IInv, NEW i \in Instances, Deactivate(i)
  PROVE  IInv'
<1> DEFINE o == inst[i]
<1>1. Good(o) /\ o.active /\ o \in Objects
  BY DEF IInv, Good, Owned, Deactivate
<1>2. PICK b \in ModeButtons(o), released \in {{"ime"}, {"ime", "langbar"}}, u \in Unregistered(o) :
        Becomes(i, ReleaseButton(u, b, released))
  BY DEF Deactivate
<1>3. /\ u \in Objects /\ u.holders = o.holders \ Sinks /\ u.button = o.button
      /\ u.active = FALSE /\ u.activated = o.activated /\ Calm(u)
  BY <1>1, <1>2, UnregisteredGood
<1>4. \A d \in Buttons : d \notin Sinks
  BY LifetimeAssumption DEF Sinks
<1>5. b \in Buttons /\ "ime" \in o.button[b] /\ "ime" \in released
  BY <1>2 DEF ModeButtons
<1>6. \A d \in Buttons : "ime" \in u.button[d] => d = b
  BY <1>1, <1>3, <1>5 DEF Good, Owned
<1>7. /\ \A d \in Buttons : u.button[d] # {} <=> d \in u.holders
      /\ \A d, e \in Buttons : "ime" \in u.button[d] /\ "ime" \in u.button[e] => d = e
  BY <1>1, <1>3, <1>4 DEF Good, Owned
<1>8. Good(ReleaseButton(u, b, released))
  BY <1>3, <1>5, <1>6, <1>7, ReleaseButtonGood
<1> QED
  BY <1>2, <1>8, BecomesGood

LEMMA ThreadFocusGood ==
  ASSUME IInv, NEW i \in Instances, OnSetThreadFocus(i)
  PROVE  IInv'
<1> DEFINE o == inst[i]
<1>1. Good(o) /\ o.focus \in Contexts /\ o.active
  BY DEF IInv, OnSetThreadFocus, Good, Owned, Objects
<1>2. PICK p \in UninitContextSink(o, o.focus) : \E q \in InitContextSink(p, o.focus) : Becomes(i, q)
  BY DEF OnSetThreadFocus
<1>3. Good(p) /\ p.active /\ p.focus = o.focus
  BY <1>1, <1>2, UninitSinkGood
<1>4. PICK q \in InitContextSink(p, o.focus) : Becomes(i, q)
  BY <1>2
<1>5. Good(q)
  BY <1>1, <1>3, <1>4, InitSinkGood
<1> QED
  BY <1>4, <1>5, BecomesGood

LEMMA EditSessionGood ==
  ASSUME IInv, NEW i \in Instances, DoEditSession(i)
  PROVE  IInv'
<1> DEFINE o == inst[i]
<1>1. Good(o) /\ o.focus \in Contexts
  BY DEF IInv, DoEditSession, Good, Owned, Objects
<1>2. PICK c \in {NoContext, o.focus} : Becomes(i, [Forgets(o, o.focus) EXCEPT !.composing = c])
  BY DEF DoEditSession
<1>3. Good([Forgets(o, o.focus) EXCEPT !.composing = c])
  BY <1>1, <1>2, ForgetsGood DEF Good
<1> QED
  BY <1>2, <1>3, BecomesGood

(* What the application and the framework do on their own. *)
LEMMA EnvironmentGood ==
  ASSUME IInv, NEW i \in Instances,
         \/ FocusMoves(i) \/ SinkDropped(i) \/ AppTakesList(i) \/ AppDropsList(i) \/ LangBarReleases(i)
         \/ \E c \in Contexts : CompositionEnds(i, c) \/ ContextCloses(i, c)
  PROVE  IInv'
<1> DEFINE o == inst[i]
<1>1. Good(o) /\ Owned(o) /\ Calm(o) /\ o \in Objects
  BY DEF IInv, Good, Owned
<1>2. CASE FocusMoves(i)
  <2> DEFINE left == IF o.cookie = NoContext /\ o.composing = NoContext THEN {} ELSE {"strayed"}
  <2>1. PICK f \in Contexts \cup {NoContext} : Becomes(i, [o EXCEPT !.focus = f, !.mishaps = @ \cup left])
    BY <1>2 DEF FocusMoves
  <2> DEFINE p == [o EXCEPT !.focus = f, !.mishaps = @ \cup left]
  <2>2. left \in SUBSET {"refused", "strayed"} /\ (left = {} => o.cookie = NoContext /\ o.composing = NoContext)
    OBVIOUS
  <2> HIDE DEF left
  <2>3. /\ p \in Objects /\ p.mishaps = o.mishaps \cup left /\ p.focus = f /\ p.holders = o.holders
        /\ p.button = o.button /\ p.active = o.active /\ p.activated = o.activated /\ p.leaked = o.leaked
        /\ p.layout = o.layout /\ p.cookie = o.cookie /\ p.orphans = o.orphans /\ p.composing = o.composing
    BY <1>1, <2>1, <2>2 DEF Objects
  <2>4. Owned(p)
    BY <1>1, <2>3 DEF Owned
  <2>5. Calm(p)
    <3>1. left = {} /\ o.mishaps = {} => \A c \in Contexts : ~(o.layout[c] > 0)
      BY <1>1, <2>2, LifetimeAssumption DEF Calm
    <3> QED
      BY <1>1, <2>2, <2>3, <3>1 DEF Calm
  <2> QED
    BY <2>1, <2>4, <2>5, BecomesGood DEF Good
<1>3. CASE AppTakesList(i)
  <2>1. Good([o EXCEPT !.list = @ \cup {"app"}])
    BY <1>1 DEF Good, Owned, Calm, Objects
  <2> QED
    BY <1>3, <2>1, BecomesGood DEF AppTakesList
<1>4. CASE AppDropsList(i)
  <2>1. Good([o EXCEPT !.list = @ \ {"app"}])
    BY <1>1 DEF Good, Owned, Calm, Objects
  <2> QED
    BY <1>4, <2>1, BecomesGood DEF AppDropsList
<1>5. CASE LangBarReleases(i)
  <2>1. PICK b \in Buttons : o.button[b] = {"langbar"} /\ Becomes(i, ReleaseButton(o, b, {"langbar"}))
    BY <1>5 DEF LangBarReleases
  <2>2. Good(ReleaseButton(o, b, {"langbar"}))
    BY <1>1, <2>1, ReleaseButtonGood DEF Owned
  <2> QED
    BY <2>1, <2>2, BecomesGood
<1>6. CASE SinkDropped(i)
  <2>1. Good([o EXCEPT !.leaked = FALSE])
    BY <1>1 DEF Good, Owned, Calm, Objects
  <2> QED
    BY <1>6, <2>1, BecomesGood DEF SinkDropped
<1>7. CASE \E c \in Contexts : CompositionEnds(i, c)
  BY <1>1, <1>7, TerminatedGood, BecomesGood DEF CompositionEnds
<1>8. CASE \E c \in Contexts : ContextCloses(i, c)
  <2>1. PICK c \in Contexts :
          Becomes(i, [Terminated(o, c) EXCEPT !.layout[c] = 0, !.focus = IF @ = c THEN NoContext ELSE @])
    BY <1>8 DEF ContextCloses
  <2> DEFINE t == Terminated(o, c)
             f == IF t.focus = c THEN NoContext ELSE t.focus
             l == [t.layout EXCEPT ![c] = 0]
             p == [t EXCEPT !.layout[c] = 0, !.focus = IF @ = c THEN NoContext ELSE @]
  <2>2. Good(t) /\ Owned(t) /\ Calm(t) /\ t \in Objects
    BY <1>1, TerminatedGood DEF Good, Owned
  <2>3. t.mishaps = {} => t.composing # c
    BY <1>1, TerminatedGood DEF Terminated, Forgets, Objects
  <2> HIDE DEF t
  <2>4. p = [t EXCEPT !.layout = l, !.focus = f]
    BY <2>2 DEF Objects
  <2>5. /\ l \in [Contexts -> Nat] /\ l[c] = 0 /\ \A d \in Contexts \ {c} : l[d] = t.layout[d]
        /\ f \in Contexts \cup {NoContext}
    BY <2>2 DEF Objects
  <2>6. \A d \in Contexts \ {c} : t.focus = d => f = d
    OBVIOUS
  <2>7. t.composing \in {NoContext, t.focus} /\ t.composing # c => t.composing \in {NoContext, f}
    OBVIOUS
  <2> HIDE DEF f, l, p
  <2>8. /\ p \in Objects /\ p.layout = l /\ p.focus = f /\ p.holders = t.holders /\ p.button = t.button
        /\ p.active = t.active /\ p.activated = t.activated /\ p.leaked = t.leaked /\ p.cookie = t.cookie
        /\ p.orphans = t.orphans /\ p.composing = t.composing /\ p.mishaps = t.mishaps
    BY <2>2, <2>4, <2>5 DEF Objects
  <2>9. Owned(p)
    BY <2>2, <2>8 DEF Owned
  <2>10. Calm(p)
    BY <2>2, <2>3, <2>5, <2>6, <2>7, <2>8 DEF Calm
  <2> QED
    BY <2>1, <2>9, <2>10, BecomesGood DEF Good, p, t
<1> QED
  BY <1>2, <1>3, <1>4, <1>5, <1>6, <1>7, <1>8

-----------------------------------------------------------------------------
(* The objects of every slot are good after every call, in any order and     *)
(* whatever registrations are refused.                                       *)
THEOREM Invariance == Spec => []IInv
<1>1. Init => IInv
  <2> SUFFICES ASSUME Init PROVE IInv
    OBVIOUS
  <2>1. \A f \in Contexts \cup {NoContext} : Good(Nothing(f))
    BY DEF Good, Owned, Calm, Objects, Nothing
  <2>2. \A i \in Instances : \E f \in Contexts \cup {NoContext} : inst[i] = Nothing(f)
    BY DEF Init
  <2>3. \A i \in Instances : Good(inst[i]) /\ inst[i] \in Objects
    BY <2>1, <2>2 DEF Good, Owned
  <2>4. inst = [i \in Instances |-> inst[i]]
    BY DEF Init
  <2> QED
    BY <2>3, <2>4 DEF IInv
<1>2. IInv /\ [Next]_vars => IInv'
  <2> SUFFICES ASSUME IInv, [Next]_vars PROVE IInv'
    OBVIOUS
  <2>1. CASE UNCHANGED inst
    BY <2>1 DEF IInv
  <2>2. ASSUME NEW i \in Instances, CreateInstance(i) PROVE IInv'
    BY <2>2, CreateGood
  <2>3. ASSUME NEW i \in Instances, ClientReleases(i) PROVE IInv'
    BY <2>3, ClientReleasesGood
  <2>4. ASSUME NEW i \in Instances, ActivateEx(i) PROVE IInv'
    BY <2>4, ActivateGood
  <2>5. ASSUME NEW i \in Instances, Deactivate(i) PROVE IInv'
    BY <2>5, DeactivateGood
  <2>6. ASSUME NEW i \in Instances, OnSetThreadFocus(i) PROVE IInv'
    BY <2>6, ThreadFocusGood
  <2>7. ASSUME NEW i \in Instances,
               \/ FocusMoves(i) \/ SinkDropped(i) \/ AppTakesList(i) \/ AppDropsList(i) \/ LangBarReleases(i)
               \/ \E c \in Contexts : CompositionEnds(i, c) \/ ContextCloses(i, c)
        PROVE  IInv'
    BY <2>7, EnvironmentGood
  <2>9. ASSUME NEW i \in Instances, DoEditSession(i) PROVE IInv'
    BY <2>9, EditSessionGood
  <2>8. CASE DllLoaded \/ DllUnloaded \/ DllGetClassObject \/ FactoryReleased \/ \E fLock \in BOOLEAN : LockServer(fLock)
    BY <2>1, <2>8 DEF DllLoaded, DllUnloaded, DllGetClassObject, FactoryReleased, LockServer
  <2> QED
    BY <2>1, <2>2, <2>3, <2>4, <2>5, <2>6, <2>7, <2>8, <2>9 DEF Next, vars
<1> QED
  BY <1>1, <1>2, PTL DEF Spec

(* Whoever holds a mode button and calls it finds its owner alive. *)
THEOREM ButtonsHaveOwners == Spec => []ButtonHasOwner
<1>1. IInv => ButtonHasOwner
  BY DEF IInv, Good, Owned, ButtonHasOwner, Live
<1> QED
  BY <1>1, Invariance, PTL

(* A released IME that was ever active holds no button and no sink, and      *)
(* without a mishap is kept by its open composition or the language bar.     *)
THEOREM NoOtherLeak == Spec => []ReleasedIsDestroyed
<1>1. IInv => ReleasedIsDestroyed
  <2> SUFFICES ASSUME IInv, NEW i \in Instances, inst[i].activated, "client" \notin inst[i].holders
               PROVE  /\ inst[i].holders \subseteq Buttons
                      /\ \A b \in Buttons : inst[i].button[b] \subseteq {"langbar"}
                      /\ inst[i].mishaps = {} /\ Live(inst[i]) =>
                           inst[i].composing # NoContext \/ \E b \in Buttons : inst[i].button[b] = {"langbar"}
    BY DEF ReleasedIsDestroyed
  <2> DEFINE o == inst[i]
  <2>1. Owned(o) /\ Calm(o) /\ ~o.active
    BY DEF IInv, Good, Owned
  <2>2. o.holders \subseteq Buttons /\ \A b \in Buttons : o.button[b] \subseteq {"langbar"}
    BY <2>1 DEF Owned, Objects, Holders
  <2>3. ASSUME o.mishaps = {}, Live(o), o.composing = NoContext
        PROVE  \E b \in Buttons : o.button[b] = {"langbar"}
    <3>1. o.holders # {}
      BY <2>1, <2>3 DEF Calm, Live
    <3> QED
      BY <2>1, <2>2, <3>1 DEF Owned
  <2> QED
    BY <2>2, <2>3
<1> QED
  BY <1>1, Invariance, PTL

-----------------------------------------------------------------------------
(***************************************************************************)
(* g_cRefDll is what there is to count: the slots with an IME, those with  *)
(* a candidate list, the factory and the locks.                            *)
(***************************************************************************)
Alive == {i \in Instances : Live(inst[i])}
Listed == {i \in Instances : inst[i].list # {}}

CountInv ==
  /\ IsFiniteSet(Alive) /\ IsFiniteSet(Listed)
  /\ locks \in Nat /\ factory \in BOOLEAN
  /\ dllRefs = Cardinality(Alive) + Cardinality(Listed) + (IF factory THEN 1 ELSE 0) + locks
  /\ image = NoAddress => dllRefs = 0

(* One element comes or goes. *)
LEMMA CountChanges ==
  ASSUME NEW S, NEW T, NEW i, IsFiniteSet(S), S \ {i} = T \ {i}
  PROVE  /\ IsFiniteSet(T) /\ Cardinality(S) \in Nat /\ Cardinality(T) \in Nat
         /\ Cardinality(T) = Cardinality(S) + (IF i \in T THEN 1 ELSE 0) - (IF i \in S THEN 1 ELSE 0)
<1>1. Cardinality(S) \in Nat
  BY FS_CardinalityType
<1>2. CASE T = S
  BY <1>1, <1>2
<1>3. CASE i \in T /\ i \notin S
  <2>1. T = S \cup {i}
    BY <1>3
  <2> QED
    BY <1>1, <1>3, <2>1, FS_AddElement
<1>4. CASE i \notin T /\ i \in S
  <2>1. T = S \ {i}
    BY <1>4
  <2>2. IsFiniteSet(T) /\ Cardinality(T) = Cardinality(S) - 1
    BY <1>4, <2>1, FS_RemoveElement
  <2>3. Cardinality(T) \in Nat
    BY <2>2, FS_CardinalityType
  <2> QED
    BY <1>1, <1>4, <2>2, <2>3
<1> QED
  BY <1>2, <1>3, <1>4

LEMMA BecomesCounts ==
  ASSUME IInv, CountInv, NEW i \in Instances, NEW o, Becomes(i, o),
         UNCHANGED <<factory, locks, image>>,
         image # NoAddress \/ Counted(Settle(o)) = Counted(inst[i])
  PROVE  CountInv'
<1> DEFINE p == Settle(o)
<1>1. /\ inst' = [inst EXCEPT ![i] = p] /\ DOMAIN inst = Instances
      /\ dllRefs' = (dllRefs + Counted(p)) - Counted(inst[i])
  BY DEF Becomes, IInv
<1> HIDE DEF p
<1>2. inst'[i] = p /\ \A k \in Instances \ {i} : inst'[k] = inst[k]
  BY <1>1
<1>3. Alive \ {i} = Alive' \ {i} /\ (i \in Alive <=> Live(inst[i])) /\ (i \in Alive' <=> Live(p))
  BY <1>2 DEF Alive
<1>4. Listed \ {i} = Listed' \ {i} /\ (i \in Listed <=> inst[i].list # {})
      /\ (i \in Listed' <=> p.list # {})
  BY <1>2 DEF Listed
<1>5. /\ IsFiniteSet(Alive') /\ Cardinality(Alive) \in Nat /\ Cardinality(Alive') \in Nat
      /\ Cardinality(Alive') = Cardinality(Alive) + (IF Live(p) THEN 1 ELSE 0)
                                 - (IF Live(inst[i]) THEN 1 ELSE 0)
  BY <1>3, CountChanges DEF CountInv
<1>6. /\ IsFiniteSet(Listed') /\ Cardinality(Listed) \in Nat /\ Cardinality(Listed') \in Nat
      /\ Cardinality(Listed') = Cardinality(Listed) + (IF p.list # {} THEN 1 ELSE 0)
                                  - (IF inst[i].list # {} THEN 1 ELSE 0)
  BY <1>4, CountChanges DEF CountInv
<1>7. dllRefs' = Cardinality(Alive') + Cardinality(Listed') + (IF factory' THEN 1 ELSE 0) + locks'
  BY <1>1, <1>5, <1>6 DEF Counted, CountInv
<1>8. image' = NoAddress => dllRefs' = 0
  <2> SUFFICES ASSUME image = NoAddress
               PROVE  dllRefs' = 0
    OBVIOUS
  <2>1. dllRefs = 0 /\ Counted(p) = Counted(inst[i]) /\ Counted(p) \in Nat
    BY DEF CountInv, Counted, p
  <2> QED
    BY <1>1, <2>1
<1> QED
  BY <1>5, <1>6, <1>7, <1>8 DEF CountInv

(* An unloaded DLL has nothing left. *)
LEMMA NothingIsLeft ==
  ASSUME IInv, CountInv, image = NoAddress
  PROVE  /\ ~factory /\ locks = 0
         /\ \A i \in Instances :
              ~Live(inst[i]) /\ inst[i].list = {} /\ \A b \in Buttons : inst[i].button[b] = {}
<1>1. Cardinality(Alive) \in Nat /\ Cardinality(Listed) \in Nat
  BY FS_CardinalityType DEF CountInv
<1> DEFINE f == IF factory THEN 1 ELSE 0
<1>6. f \in Nat /\ (f = 0 => ~factory)
  BY DEF CountInv
<1>7. 0 = Cardinality(Alive) + Cardinality(Listed) + f + locks /\ locks \in Nat
  BY DEF CountInv
<1> HIDE DEF f
<1>2. Cardinality(Alive) = 0 /\ Cardinality(Listed) = 0 /\ ~factory /\ locks = 0
  BY <1>1, <1>6, <1>7
<1>3. Alive = {} /\ Listed = {}
  BY <1>2, FS_EmptySet DEF CountInv
<1>4. \A i \in Instances : ~Live(inst[i]) /\ inst[i].list = {}
  BY <1>3 DEF Alive, Listed
<1>5. \A i \in Instances, b \in Buttons : inst[i].button[b] = {}
  BY <1>4 DEF IInv, Good, Owned, Live
<1> QED
  BY <1>2, <1>4, <1>5

SlotStep(i) ==
  \/ CreateInstance(i) \/ ClientReleases(i) \/ ActivateEx(i) \/ Deactivate(i)
  \/ OnSetThreadFocus(i) \/ DoEditSession(i) \/ FocusMoves(i) \/ SinkDropped(i)
  \/ AppTakesList(i) \/ AppDropsList(i) \/ LangBarReleases(i)
  \/ \E c \in Contexts : CompositionEnds(i, c) \/ ContextCloses(i, c)

(* Nothing happens to the objects of a slot that are not there.              *)
LEMMA SlotStepBecomes ==
  ASSUME IInv, NEW i \in Instances, SlotStep(i)
  PROVE  /\ \E o : Becomes(i, o)
         /\ UNCHANGED <<factory, locks, image>>
         /\ factory \/ Live(inst[i]) \/ inst[i].list # {} \/ FocusMoves(i)
<1>1. CASE CreateInstance(i)
  BY <1>1 DEF CreateInstance
<1>2. CASE ClientReleases(i)
  BY <1>2 DEF ClientReleases, Live, dll
<1>3. CASE ActivateEx(i)
  BY <1>3 DEF ActivateEx, Live, dll
<1>4. CASE Deactivate(i)
  BY <1>4 DEF Deactivate, IInv, Good, Owned, Live, dll
<1>5. CASE OnSetThreadFocus(i)
  BY <1>5 DEF OnSetThreadFocus, IInv, Good, Owned, Live, dll
<1>6. CASE FocusMoves(i)
  BY <1>6 DEF FocusMoves, dll
<1>7. CASE AppTakesList(i)
  BY <1>7 DEF AppTakesList, IInv, Good, Owned, Live, dll
<1>8. CASE AppDropsList(i)
  BY <1>8 DEF AppDropsList, dll
<1>9. CASE LangBarReleases(i)
  BY <1>9 DEF LangBarReleases, IInv, Good, Owned, Live, dll
<1>10. CASE \E c \in Contexts : CompositionEnds(i, c) \/ ContextCloses(i, c)
  <2>1. PICK c \in Contexts : CompositionEnds(i, c) \/ ContextCloses(i, c)
    BY <1>10
  <2>2. inst[i].layout[c] > 0 \/ c \in inst[i].orphans \/ c = inst[i].composing
    BY <2>1 DEF CompositionEnds, ContextCloses
  <2>3. Live(inst[i])
    BY <2>2, LifetimeAssumption DEF Live
  <2> QED
    BY <2>1, <2>3 DEF CompositionEnds, ContextCloses, dll
<1>11. CASE DoEditSession(i)
  BY <1>11 DEF DoEditSession, IInv, Good, Owned, Live, dll
<1>12. CASE SinkDropped(i)
  BY <1>12 DEF SinkDropped, Live, dll
<1> QED
  BY <1>1, <1>2, <1>3, <1>4, <1>5, <1>6, <1>7, <1>8, <1>9, <1>10, <1>11, <1>12 DEF SlotStep

LEMMA SlotStepCounts ==
  ASSUME IInv, CountInv, NEW i \in Instances, SlotStep(i)
  PROVE  CountInv'
<1>1. CASE image # NoAddress
  BY <1>1, SlotStepBecomes, BecomesCounts
<1>2. CASE image = NoAddress
  <2>1. ~factory /\ ~Live(inst[i]) /\ inst[i].list = {}
    BY <1>2, NothingIsLeft
  <2>2. FocusMoves(i)
    BY <2>1, SlotStepBecomes
  <2> DEFINE left == IF inst[i].cookie = NoContext /\ inst[i].composing = NoContext THEN {} ELSE {"strayed"}
  <2>3. PICK f \in Contexts \cup {NoContext} : Becomes(i, [inst[i] EXCEPT !.focus = f, !.mishaps = @ \cup left])
    BY <2>2 DEF FocusMoves
  <2> DEFINE o == [inst[i] EXCEPT !.focus = f, !.mishaps = @ \cup left]
  <2>4. /\ o.holders = inst[i].holders /\ o.layout = inst[i].layout /\ o.list = {} /\ o.leaked = inst[i].leaked
        /\ o.composing = inst[i].composing /\ o.orphans = inst[i].orphans
    <3>1. inst[i] \in Objects
      BY DEF IInv, Good, Owned
    <3> QED
      BY ONLY <2>1, <3>1 DEF Objects
  <2> HIDE DEF o, left
  <2>5. ~Live(o)
    BY <2>1, <2>4 DEF Live
  <2>6. ~Live(Settle(o)) /\ Settle(o).list = {}
    BY <2>4, <2>5 DEF Settle, Live, Nothing
  <2>7. Counted(Settle(o)) = Counted(inst[i])
    BY <2>1, <2>6 DEF Counted
  <2> QED
    BY <2>2, <2>3, <2>7, SlotStepBecomes, BecomesCounts DEF o, left
<1> QED
  BY <1>1, <1>2

(* The loader, the factory and the locks. *)
LEMMA ServerCounts ==
  ASSUME IInv, CountInv,
         \/ DllLoaded \/ DllUnloaded \/ DllGetClassObject \/ FactoryReleased
         \/ \E fLock \in BOOLEAN : LockServer(fLock)
  PROVE  CountInv'
<1>1. Cardinality(Alive) \in Nat /\ Cardinality(Listed) \in Nat
  BY FS_CardinalityType DEF CountInv
<1>2. UNCHANGED inst => Alive' = Alive /\ Listed' = Listed
  BY DEF Alive, Listed
<1>3. CASE DllLoaded
  <2>1. image' # NoAddress /\ dllRefs' = dllRefs /\ UNCHANGED <<inst, factory, locks>>
    BY <1>3, LifetimeAssumption DEF DllLoaded, CountInv
  <2> QED
    BY <1>2, <2>1 DEF CountInv
<1>4. CASE DllUnloaded
  BY <1>2, <1>4 DEF DllUnloaded, DllCanUnloadNow, CountInv
<1>5. CASE DllGetClassObject
  BY <1>1, <1>2, <1>5 DEF DllGetClassObject, CountInv, dll
<1>6. image = NoAddress => ~factory
  BY NothingIsLeft
<1>7. CASE FactoryReleased
  <2>1. /\ factory /\ factory' = FALSE /\ dllRefs' = dllRefs - 1 /\ image # NoAddress
        /\ UNCHANGED <<inst, locks, image>>
    BY <1>6, <1>7 DEF FactoryReleased, dll
  <2>2. dllRefs = Cardinality(Alive) + Cardinality(Listed) + 1 + locks /\ locks \in Nat
    BY <2>1 DEF CountInv
  <2>3. dllRefs' = Cardinality(Alive) + Cardinality(Listed) + 0 + locks
    BY <1>1, <2>1, <2>2
  <2> QED
    BY <1>2, <2>1, <2>3 DEF CountInv
<1>8. CASE \E fLock \in BOOLEAN : LockServer(fLock)
  BY <1>1, <1>2, <1>6, <1>8 DEF LockServer, CountInv, dll
<1> QED
  BY <1>3, <1>4, <1>5, <1>7, <1>8

(* g_cRefDll counts what there is. *)
LEMMA CountInvariance == Spec => []CountInv
<1>1. Init => CountInv
  <2> SUFFICES ASSUME Init
               PROVE  CountInv
    OBVIOUS
  <2>1. \A f \in Contexts \cup {NoContext} : ~Live(Nothing(f)) /\ Nothing(f).list = {}
    BY DEF Live, Nothing
  <2>2. \A i \in Instances : \E f \in Contexts \cup {NoContext} : inst[i] = Nothing(f)
    BY DEF Init
  <2>3. Alive = {} /\ Listed = {}
    BY <2>1, <2>2 DEF Alive, Listed
  <2>4. IsFiniteSet({}) /\ Cardinality({}) = 0
    BY FS_EmptySet
  <2>5. factory = FALSE /\ locks = 0 /\ dllRefs = 0
    BY DEF Init
  <2>6. Cardinality(Alive) = 0 /\ Cardinality(Listed) = 0 /\ IsFiniteSet(Alive) /\ IsFiniteSet(Listed)
    BY <2>3, <2>4
  <2>7. (IF factory THEN 1 ELSE 0) = 0
    BY <2>5
  <2>8. dllRefs = Cardinality(Alive) + Cardinality(Listed) + (IF factory THEN 1 ELSE 0) + locks
    BY <2>5, <2>6, <2>7
  <2> QED
    BY <2>5, <2>6, <2>8 DEF CountInv
<1>2. IInv /\ CountInv /\ [Next]_vars => CountInv'
  <2> SUFFICES ASSUME IInv, CountInv, [Next]_vars
               PROVE  CountInv'
    OBVIOUS
  <2>1. CASE UNCHANGED vars
    BY <2>1 DEF vars, dll, CountInv, Alive, Listed
  <2>2. ASSUME NEW i \in Instances, SlotStep(i)
        PROVE  CountInv'
    BY <2>2, SlotStepCounts
  <2>3. CASE \/ DllLoaded \/ DllUnloaded \/ DllGetClassObject \/ FactoryReleased
             \/ \E fLock \in BOOLEAN : LockServer(fLock)
    BY <2>3, ServerCounts
  <2> QED
    BY <2>1, <2>2, <2>3 DEF Next, SlotStep
<1> QED
  BY <1>1, <1>2, Invariance, PTL DEF Spec

(* Nothing of the DLL is in use once the host has unloaded it                *)
(* (DllCanUnloadNow, DllAddRef and DllRelease of the IME, the candidate      *)
(* list, the factory and LockServer), for any number of threads.             *)
THEOREM UnloadsSafely == Spec => []UnloadSafe
<1>1. IInv /\ CountInv => UnloadSafe
  BY NothingIsLeft DEF UnloadSafe
<1> QED
  BY <1>1, Invariance, CountInvariance, PTL

(* Every variable has its type; in particular the count never goes below 0.  *)
THEOREM TypeCorrect == Spec => []TypeOK
<1> DEFINE Maps == {image, wndProc} \subseteq Addresses \cup {NoAddress} /\ classRegistered \in BOOLEAN
<1>1. Init => Maps
  BY DEF Init
<1>2. Maps /\ [Next]_vars => Maps'
  <2> SUFFICES ASSUME Maps, [Next]_vars
               PROVE  Maps'
    OBVIOUS
  <2>1. CASE UNCHANGED dll
    BY <2>1 DEF dll
  <2>2. ASSUME NEW i \in Instances, CreateInstance(i)
        PROVE  Maps'
    BY <2>2 DEF CreateInstance, RegisterCandidateClass
  <2>3. CASE DllLoaded \/ DllUnloaded
    BY <2>3 DEF DllLoaded, DllUnloaded
  <2> QED
    BY <2>1, <2>2, <2>3 DEF Next, vars, ClientReleases, ActivateEx, Deactivate, OnSetThreadFocus, DoEditSession,
       CompositionEnds, SinkDropped, FocusMoves, AppTakesList, AppDropsList, LangBarReleases, ContextCloses, DllGetClassObject,
       FactoryReleased, LockServer
<1>3. IInv /\ CountInv /\ Maps => TypeOK
  <2> SUFFICES ASSUME IInv, CountInv, Maps
               PROVE  TypeOK
    OBVIOUS
  <2>1. dllRefs \in Nat
    BY FS_CardinalityType DEF CountInv
  <2> QED
    BY <2>1 DEF IInv, Good, Owned, CountInv, TypeOK
<1> QED
  BY <1>1, <1>2, <1>3, Invariance, CountInvariance, PTL DEF Spec
=============================================================================
