------------------------------- MODULE Engine -------------------------------
(***************************************************************************)
(* The T-Code engine, as its client in src/ sees it through HTTP.          *)
(*                                                                         *)
(* The engine server is not part of the repository: this module is         *)
(* external.  It is written from the requests GlazeClient sends, the       *)
(* fields of BufferStatusResponse and CommitResponse, and what             *)
(* CTCodeIME::OnKeyDown does with them.  Whatever src/ leaves open (which  *)
(* candidates a request brings, which stroke completes what) is a choice.  *)
(*                                                                         *)
(* No request names its sender, so there is ONE state of the engine for    *)
(* every program that types through it.                                    *)
(*                                                                         *)
(* Text is a sequence of pieces.  Every finished piece the engine makes is *)
(* a new number, so that a piece can be followed into a document.          *)
(***************************************************************************)
EXTENDS Integers, Sequences

CONSTANTS
  CandidateLists, \* the candidate lists the engine may offer
  Kana,           \* a character of the pre-edit buffer
  ConvertEmits,   \* may "convert" finish the text by itself?
  MaxBuffer,      \* bound: characters in the pre-edit buffer
  MaxMade         \* bound: finished pieces the engine ever makes

ASSUME EngineAssumption ==
  /\ <<>> \in CandidateLists
  /\ \A l \in CandidateLists : Len(l) \in Nat /\ (l # <<>> => Len(l) > 0)
  /\ ConvertEmits \in BOOLEAN
  /\ MaxBuffer \in Nat
  /\ MaxMade \in Nat

(***************************************************************************)
(* key:    a first stroke waits for its second (lastCharAsKey)             *)
(* buffer: the pre-edit text, out: finished text nobody committed yet      *)
(* made:   how many finished pieces the engine has made so far             *)
(***************************************************************************)
EngineState ==
  [key: BOOLEAN, buffer: Seq({Kana}), out: Seq(Nat), cands: CandidateLists, made: Nat]

EmptyEngine(made) ==
  [key |-> FALSE, buffer |-> <<>>, out |-> <<>>, cands |-> <<>>, made |-> made]

(* An answer: the engine's next state and the flag commandSucceed. *)
Answer == [srv: EngineState, ok: BOOLEAN]

Bounded(S) == {t \in S : t.made <= MaxMade /\ Len(t.buffer) <= MaxBuffer}

(* The states of S, each with any list of candidates, as accepted answers. *)
Offer(S) ==
  {[srv |-> [t EXCEPT !.cands = l], ok |-> TRUE] : t \in Bounded(S), l \in CandidateLists}

Finish(s) == [s EXCEPT !.out = Append(@, s.made + 1), !.made = @ + 1]

ButLast(s) == SubSeq(s, 1, Len(s) - 1)

-----------------------------------------------------------------------------
(* POST /put: the first stroke waits, the second writes, buffers or fizzles. *)
EnginePut(s) ==
  LET stroked == [s EXCEPT !.key = FALSE]
  IN  Offer(IF s.key
              THEN {stroked, Finish(stroked), [stroked EXCEPT !.buffer = Append(@, Kana)]}
              ELSE {[s EXCEPT !.key = TRUE]})

(* POST /backspace: undo the stroke, else the buffer's end, else the output's. *)
EngineBackspace(s) ==
  Offer(IF s.key THEN {[s EXCEPT !.key = FALSE]}
        ELSE IF s.buffer # <<>> THEN {[s EXCEPT !.buffer = ButLast(@)]}
        ELSE IF s.out # <<>> THEN {s, [s EXCEPT !.out = ButLast(@)]}
        ELSE {s})

(* POST /left, /right: move the inflection position; only candidates change. *)
EngineInflect(s) == Offer({s})

(* POST /convert: offer candidates or, if ConvertEmits, finish the text. *)
EngineConvert(s) ==
  Offer({s} \cup {[Finish(s) EXCEPT !.buffer = <<>>] : e \in {ConvertEmits} \ {FALSE}})

(* POST /select: the n-th candidate (from 0) becomes finished text, or fails. *)
EngineSelect(n, s) ==
  IF n + 1 \in 1 .. Len(s.cands)
    THEN {[srv |-> [t EXCEPT !.buffer = <<>>, !.cands = <<>>], ok |-> TRUE] :
            t \in Bounded({Finish(s)})}
    ELSE {[srv |-> s, ok |-> FALSE]}

(* POST /reset: forget everything that is being typed. *)
EngineReset(s) == {[srv |-> EmptyEngine(s.made), ok |-> TRUE]}

(* POST /commit: hand the finished text over (the reply carries s.out). *)
EngineCommit(s) == [s EXCEPT !.out = <<>>]

(* Everything another program's requests may do to the engine in one step. *)
EngineSteps(s) ==
  {a.srv : a \in EnginePut(s) \cup EngineBackspace(s) \cup EngineConvert(s) \cup EngineReset(s)}
    \cup {EngineCommit(s)}
=============================================================================
