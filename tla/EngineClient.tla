---------------------------- MODULE EngineClient ----------------------------
(***************************************************************************)
(* CEngineClient and GlazeClient: one blocking HTTP request per call, and  *)
(* a cache of the last BufferStatusResponse (m_lastResponse) from which    *)
(* every key handler decides what to do next.                              *)
(*                                                                         *)
(* A call is modelled by the set of its outcomes: the engine's next state, *)
(* the response the client caches, and whether an exception leaves the     *)
(* call.                                                                   *)
(***************************************************************************)
EXTENDS Engine

CONSTANTS
  Faults,   \* what may go wrong, see FaultKinds
  KeyMark,  \* "(x)": how a pending first stroke is displayed
  BadMark   \* "(?)": the same, made from a character read out of bounds

(* refused:   the request never reaches the engine (no server, HTTP error)   *)
(* lostReply: the engine obeys, but no usable reply comes back               *)
(* editDenied:  the application refuses the synchronous edit session         *)
(* noRange:     an edit session does not get to the caret, or starts nothing *)
(* appRejects:  the application rejects a new composition (S_OK, null)       *)
FaultKinds == {"refused", "lostReply", "editDenied", "noRange", "appRejects"}

ASSUME ClientAssumption == Faults \subseteq FaultKinds

Response ==
  [outputBuffer: Seq(Nat), buffer: Seq({Kana}), candidates: CandidateLists,
   lastCharAsKey: {"None", "Some", ""}, commandSucceed: BOOLEAN]

(* BufferStatusResponse{}: its lastCharAsKey is "", which is not "None". *)
NoResponse ==
  [outputBuffer |-> <<>>, buffer |-> <<>>, candidates |-> <<>>,
   lastCharAsKey |-> "", commandSucceed |-> FALSE]

Reply(a) ==
  [outputBuffer |-> a.srv.out, buffer |-> a.srv.buffer, candidates |-> a.srv.cands,
   lastCharAsKey |-> IF a.srv.key THEN "Some" ELSE "None", commandSucceed |-> a.ok]

-----------------------------------------------------------------------------
(* The getters that read the cache. *)
HasCandidates(r) == r.candidates # <<>>
IsLastKeyEmpty(r) == r.lastCharAsKey = "None"
IsBufferEmpty(r) == r.buffer = <<>>
IsOutputBufferEmpty(r) == r.outputBuffer = <<>>

(* The 6th character of "Some(x)"; of "" it is whatever lies in memory there. *)
GetLastKey(r) ==
  IF IsLastKeyEmpty(r) THEN <<>>
  ELSE IF r.lastCharAsKey = "Some" THEN <<KeyMark>>
  ELSE <<BadMark>>

(* GetBuffer() + GetLastKey(): the text a handler wants on the screen. *)
Composition(r) == r.buffer \o GetLastKey(r)

(* Nothing is being typed, as far as the cache can tell. *)
Idle(r) == IsLastKeyEmpty(r) /\ IsBufferEmpty(r) /\ IsOutputBufferEmpty(r)

-----------------------------------------------------------------------------
Call == [srv: EngineState, last: Response, threw: BOOLEAN]

(* GlazeClient::Send*: a reply, or an exception with or without an effect. *)
Send(answers, s) ==
  {[srv |-> a.srv, last |-> Reply(a), threw |-> FALSE] : a \in answers}
    \cup {[srv |-> s, last |-> NoResponse, threw |-> TRUE] : f \in Faults \cap {"refused"}}
    \cup {[srv |-> a.srv, last |-> NoResponse, threw |-> TRUE] :
            a \in answers, f \in Faults \cap {"lostReply"}}

(* A call that catches every exception: the cache is then empty. *)
Caught(calls) == {[c EXCEPT !.threw = FALSE] : c \in calls}

ExecutePut(s) == Caught(Send(EnginePut(s), s))
Select(n, s) == Caught(Send(EngineSelect(n, s), s))
Reset(s) == Caught(Send(EngineReset(s), s))

(* ExecuteCommand clears the cache, then sends; it catches nothing. *)
ExecuteCommand(command, s) ==
  Send(CASE command = "backspace" -> EngineBackspace(s)
         [] command = "convert" -> EngineConvert(s)
         [] command \in {"left", "right"} -> EngineInflect(s), s)

(* Commit returns the finished text, "" when anything fails; no cache update. *)
Commit(s) ==
  {[srv |-> EngineCommit(s), output |-> s.out]}
    \cup {[srv |-> s, output |-> <<>>] : f \in Faults \cap {"refused"}}
    \cup {[srv |-> EngineCommit(s), output |-> <<>>] : f \in Faults \cap {"lostReply"}}
=============================================================================
