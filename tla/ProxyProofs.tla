---------------------------- MODULE ProxyProofs ----------------------------
(***************************************************************************)
(* Why the engine ends with the proxies, for any number of proxies and any *)
(* of the faults.                                                          *)
(***************************************************************************)
EXTENDS Proxy, TLAPS

Alive(p) == java[p] = "running"

(***************************************************************************)
(* Unless a call failed for its proxy, an interpreter that still runs is   *)
(* in the job or about to be put there, an engine is in it or late, and a  *)
(* job with either in it kills; without a handle the job is empty.  Unless *)
(* one of its calls failed, KillProcessTree leaves no interpreter, no      *)
(* engine that it saw, and sees every late one.                            *)
(***************************************************************************)
Started == \A p \in Proxies :
  /\ pc[p] = "off" => failed[p] = {}
  /\ pc[p] \in {"off", "limit", "job"} => cmd[p] = "none"
  /\ cmd[p] = "none" => java[p] = "none"
  /\ java[p] = "none" => <<p, "java">> \notin job /\ "late" \notin failed[p] /\ ~snapshot[p]
InterpreterInJob == \A p \in Proxies :
  cmd[p] = "running" /\ pc[p] # "created" /\ ~Torn(p) => <<p, "cmd">> \in job
EngineInJob == \A p \in Proxies :
  Alive(p) /\ <<p, "java">> \notin job => Torn(p) \/ "late" \in failed[p]
JobKills == \A p \in Proxies :
  ~Torn(p) /\ ((Running(p) /\ pc[p] # "limit") \/ <<p, "cmd">> \in job \/ <<p, "java">> \in job) => kills
JobEmpty == handles = {} => job = {}
TreeKilled == \A p \in Proxies :
  pc[p] \in {"quit", "left"} => cmd[p] # "running" \/ "tree" \in failed[p]
TreeSees == \A p \in Proxies : Alive(p) =>
  /\ pc[p] \in {"parent", "quit", "left"} => "tree" \in failed[p] \/ ~snapshot[p]
  /\ pc[p] \in {"children", "parent", "quit", "left"} /\ "late" \in failed[p] => "tree" \in failed[p] \/ snapshot[p]

IInv == /\ TypeOK /\ Started /\ InterpreterInJob /\ EngineInJob
        /\ JobKills /\ JobEmpty /\ TreeKilled /\ TreeSees

(* What a termination does to a process it is meant for, and to any other. *)
LEMMA Terminated ==
  ASSUME TypeOK, NEW xs, Terminate(xs)
  PROVE  /\ cmd' \in [Proxies -> {"none", "running", "dead"}]
         /\ java' \in [Proxies -> {"none", "running", "dead"}]
         /\ \A p \in Proxies :
              /\ cmd'[p] = "running" <=> cmd[p] = "running" /\ <<p, "cmd">> \notin xs
              /\ cmd'[p] = "none" <=> cmd[p] = "none"
              /\ java'[p] = "none" <=> java[p] = "none"
              /\ Alive(p)' <=> Alive(p) /\ <<p, "java">> \notin xs
BY DEF TypeOK, Terminate, Alive

(* A proxy ends, by whatever step, and goes to a place where it does not run. *)
LEMMA EndsGood ==
  ASSUME IInv, NEW p \in Proxies, Running(p), ClosesJob(p), UNCHANGED snapshot,
         NEW place \in {"left", "gone"}, Goto(p, place), place = "left" => pc[p] = "quit",
         NEW fs \in SUBSET Failures, failed' = [failed EXCEPT ![p] = @ \cup fs], "late" \notin fs, "job" \notin fs,
         pc[p] = "created" => "assign" \in fs
  PROVE  IInv'
<1>1. /\ pc' \in [Proxies -> Places] /\ failed' \in [Proxies -> SUBSET Failures]
      /\ \A q \in Proxies : pc'[q] = (IF q = p THEN place ELSE pc[q])
      /\ \A q \in Proxies : failed'[q] = (IF q = p THEN failed[p] \cup fs ELSE failed[q])
  BY DEF IInv, TypeOK, Goto, Places
<1>2. \A q \in Proxies :
        /\ Running(q)' <=> q # p /\ Running(q)
        /\ pc'[q] # "gone" => q # p \/ place = "left"
        /\ Torn(q) => Torn(q)'
        /\ q # p => (Torn(q)' <=> Torn(q))
        /\ "late" \in failed'[q] <=> "late" \in failed[q]
        /\ "job" \in failed'[q] <=> "job" \in failed[q]
        /\ "tree" \in failed[q] => "tree" \in failed'[q]
        /\ pc[q] = "created" => pc'[q] = "created" \/ Torn(q)'
  BY <1>1 DEF Running, Torn
<1>3. handles' = {q \in Proxies : Running(q)' /\ "job" \notin failed'[q]}
  <2>1. handles = {q \in Proxies : Running(q) /\ "job" \notin failed[q]} /\ handles' = handles \ {p}
    BY DEF IInv, TypeOK, ClosesJob
  <2> QED
    BY ONLY <1>2, <2>1
<1>4. /\ cmd' \in [Proxies -> {"none", "running", "dead"}]
      /\ java' \in [Proxies -> {"none", "running", "dead"}]
      /\ \A q \in Proxies :
           /\ cmd'[q] = "running" => cmd[q] = "running"
           /\ cmd'[q] = "none" <=> cmd[q] = "none"
           /\ java'[q] = "none" <=> java[q] = "none"
           /\ Alive(q)' => Alive(q)
      /\ kills' \in BOOLEAN /\ job' \in SUBSET job
  <2>1. CASE handles = {p}
    <3>1. Terminate(IF kills THEN job ELSE {}) /\ kills' = FALSE /\ job' = {}
      BY <2>1 DEF ClosesJob
    <3> QED
      BY <3>1, Terminated DEF IInv
  <2>2. CASE handles # {p}
    BY <2>2 DEF ClosesJob, IInv, TypeOK, Alive
  <2> QED
    BY <2>1, <2>2
<1>5. TypeOK'
  BY <1>1, <1>3, <1>4 DEF IInv, TypeOK
<1>6. Started'
  <2>1. Started /\ snapshot' = snapshot
    BY DEF IInv
  <2>2. \A q \in Proxies : pc'[q] \in {"off", "limit", "job"} => q # p /\ pc'[q] = pc[q] /\ failed'[q] = failed[q]
    BY <1>1
  <2> QED
    BY ONLY ZenonT(60), <1>2, <1>4, <2>1, <2>2 DEF Started
<1>7. TreeKilled' /\ TreeSees'
  <2>1. TreeKilled /\ TreeSees /\ snapshot' = snapshot
    BY DEF IInv
  <2>2. \A q \in Proxies : pc'[q] # pc[q] => pc'[q] = "gone" \/ (pc[q] = "quit" /\ pc'[q] = "left")
    BY <1>1
  <2> QED
    BY ONLY <1>2, <1>4, <2>1, <2>2 DEF TreeKilled, TreeSees
<1>8. InterpreterInJob' /\ EngineInJob' /\ JobKills' /\ JobEmpty'
  <2>1. InterpreterInJob /\ EngineInJob /\ JobKills /\ JobEmpty
    BY DEF IInv
  <2>2. \A q \in Proxies : pc'[q] = "created" => pc[q] = "created"
    BY <1>1
  <2>3. \A q \in Proxies : pc'[q] # "limit" /\ q # p => pc[q] # "limit"
    BY <1>1
  <2>4. CASE handles = {p}
    <3>1. Terminate(IF kills THEN job ELSE {}) /\ job' = {}
      BY <2>4 DEF ClosesJob
    <3>2. \A q \in Proxies :
            /\ cmd'[q] = "running" => cmd[q] = "running" /\ ~(kills /\ <<q, "cmd">> \in job)
            /\ Alive(q)' => Alive(q) /\ ~(kills /\ <<q, "java">> \in job)
      BY <3>1, Terminated DEF IInv
    <3>3. \A q \in Proxies : Running(q)' => Torn(q)
      BY <1>2, <2>4 DEF IInv, TypeOK, Torn
    <3>4. \A q \in Proxies : pc[q] = "created" => Torn(q)'
      <4>1. \A q \in Proxies : pc[q] = "created" => Running(q)
        BY DEF Running
      <4> QED
        BY <1>1, <1>2, <3>3, <4>1
    <3> QED
      BY ONLY <1>2, <2>1, <3>1, <3>2, <3>3, <3>4 DEF InterpreterInJob, EngineInJob, JobKills, JobEmpty
  <2>5. CASE handles # {p}
    <3>1. handles' # {} \/ handles = {}
      BY <2>5 DEF ClosesJob, IInv, TypeOK
    <3>2. kills' = kills /\ job' = job
      BY <2>5 DEF ClosesJob
    <3> QED
      BY ONLY <1>2, <1>4, <2>1, <2>2, <2>3, <3>1, <3>2 DEF InterpreterInJob, EngineInJob, JobKills, JobEmpty
  <2> QED
    BY <2>4, <2>5
<1> QED
  BY <1>5, <1>6, <1>7, <1>8 DEF IInv

-----------------------------------------------------------------------------
(* Steps that neither end a proxy nor terminate a process. *)
LEMMA StepGood ==
  ASSUME IInv, NEW p \in Proxies,
         \/ SetupJobObject(p) \/ SetInformationJobObject(p) \/ StartEngineProcess(p)
         \/ AssignProcessToJobObject(p) \/ ExitPicked(p) \/ TakeSnapshot(p)
         \/ ScriptRunsJava(p) \/ EngineDies(p) \/ ScriptEnds(p)
  PROVE  IInv'
<1> USE DEF Goto, Places, Running, Record, Failures, Torn
<1>1. CASE SetupJobObject(p)
  <2>1. pc[p] = "off" /\ failed[p] = {} /\ UNCHANGED <<kills, cmd, java, job, snapshot>>
    BY <1>1 DEF SetupJobObject, IInv, Started
  <2>2. CASE handles' = handles \cup {p} /\ Goto(p, "limit") /\ UNCHANGED failed
    BY <2>1, <2>2 DEF IInv, TypeOK, Started, InterpreterInJob, EngineInJob, JobKills, JobEmpty, TreeKilled, TreeSees, Alive
  <2>3. CASE Goto(p, "job") /\ Record(p, "job") /\ UNCHANGED handles
    BY <2>1, <2>3 DEF IInv, TypeOK, Started, InterpreterInJob, EngineInJob, JobKills, JobEmpty, TreeKilled, TreeSees, Alive
  <2> QED
    BY <1>1, <2>2, <2>3 DEF SetupJobObject
<1>2. CASE SetInformationJobObject(p)
  <2>1. pc[p] = "limit" /\ Goto(p, "job") /\ UNCHANGED <<handles, cmd, java, job, snapshot>>
    BY <1>2 DEF SetInformationJobObject
  <2>2. CASE kills' = TRUE /\ UNCHANGED failed
    BY <2>1, <2>2 DEF IInv, TypeOK, Started, InterpreterInJob, EngineInJob, JobKills, JobEmpty, TreeKilled, TreeSees, Alive
  <2>3. CASE Record(p, "limit") /\ UNCHANGED kills
    BY <2>1, <2>3 DEF IInv, TypeOK, Started, InterpreterInJob, EngineInJob, JobKills, JobEmpty, TreeKilled, TreeSees, Alive
  <2> QED
    BY <1>2, <2>2, <2>3 DEF SetInformationJobObject
<1>3. CASE StartEngineProcess(p)
  <2>1. pc[p] = "job" /\ UNCHANGED <<handles, kills, java, job, snapshot, failed>>
    BY <1>3 DEF StartEngineProcess
  <2>2. CASE cmd' = [cmd EXCEPT ![p] = "running"] /\ Goto(p, "created")
    BY <2>1, <2>2 DEF IInv, TypeOK, Started, InterpreterInJob, EngineInJob, JobKills, JobEmpty, TreeKilled, TreeSees, Alive
  <2>3. CASE Goto(p, "window") /\ UNCHANGED cmd
    BY <2>1, <2>3 DEF IInv, TypeOK, Started, InterpreterInJob, EngineInJob, JobKills, JobEmpty, TreeKilled, TreeSees, Alive
  <2> QED
    BY <1>3, <2>2, <2>3 DEF StartEngineProcess
<1>4. CASE AssignProcessToJobObject(p)
  <2>1. pc[p] = "created" /\ Goto(p, "window") /\ UNCHANGED <<handles, kills, cmd, java, snapshot>>
    BY <1>4 DEF AssignProcessToJobObject
  <2>2. CASE p \in handles /\ job' = job \cup (IF cmd[p] = "running" THEN {<<p, "cmd">>} ELSE {}) /\ UNCHANGED failed
    <3>1. TypeOK'
      BY <2>1, <2>2 DEF IInv, TypeOK, Processes
    <3> QED
      BY <2>1, <2>2, <3>1 DEF IInv, TypeOK, Started, InterpreterInJob, EngineInJob, JobKills, JobEmpty, TreeKilled, TreeSees, Alive
  <2>3. CASE p \notin handles /\ UNCHANGED <<job, failed>>
    BY <2>1, <2>3 DEF IInv, TypeOK, Started, InterpreterInJob, EngineInJob, JobKills, JobEmpty, TreeKilled, TreeSees, Alive
  <2>4. CASE Record(p, "assign") /\ UNCHANGED job
    BY <2>1, <2>4 DEF IInv, TypeOK, Started, InterpreterInJob, EngineInJob, JobKills, JobEmpty, TreeKilled, TreeSees, Alive
  <2> QED
    BY <1>4, <2>2, <2>3, <2>4 DEF AssignProcessToJobObject
<1>5. CASE ExitPicked(p)
  BY <1>5 DEF ExitPicked, IInv, TypeOK, Started, InterpreterInJob, EngineInJob, JobKills, JobEmpty, TreeKilled, TreeSees, Alive
<1>6. CASE TakeSnapshot(p)
  <2>1. pc[p] = "exit" /\ UNCHANGED <<handles, kills, cmd, java, job>>
    BY <1>6 DEF TakeSnapshot
  <2>2. CASE cmd[p] = "none" /\ Goto(p, "quit") /\ UNCHANGED <<snapshot, failed>>
    BY ZenonT(60), <2>1, <2>2 DEF IInv, TypeOK, Started, InterpreterInJob, EngineInJob, JobKills, JobEmpty, TreeKilled, TreeSees, Alive
  <2>3. CASE snapshot' = [snapshot EXCEPT ![p] = Lives(<<p, "java">>)] /\ Goto(p, "children") /\ UNCHANGED failed
    <3>1. snapshot' = [snapshot EXCEPT ![p] = Alive(p)]
      BY <2>3 DEF Lives, Alive
    <3> HIDE DEF Alive
    <3>2. TypeOK'
      BY <2>1, <2>3, <3>1 DEF IInv, TypeOK, Alive
    <3>3. (Alive(p) => java[p] # "none") /\ (snapshot'[p] <=> Alive(p))
      BY <3>1 DEF Alive, IInv, TypeOK
    <3>4. \A q \in Proxies : q # p => snapshot'[q] = snapshot[q]
      BY <3>1 DEF IInv, TypeOK
    <3>5. Started' /\ InterpreterInJob' /\ EngineInJob'
      BY <2>1, <2>3, <3>3, <3>4 DEF IInv, TypeOK, Started, InterpreterInJob, EngineInJob, Alive
    <3>6. JobKills' /\ JobEmpty' /\ TreeKilled'
      BY <2>1, <2>3 DEF IInv, TypeOK, JobKills, JobEmpty, TreeKilled
    <3>7. TreeSees'
      BY <2>1, <2>3, <3>3, <3>4 DEF IInv, TypeOK, TreeSees, Alive
    <3> QED
      BY <3>2, <3>5, <3>6, <3>7 DEF IInv
  <2>4. CASE (\E place \in {"children", "quit"} : Goto(p, place)) /\ Record(p, "tree") /\ UNCHANGED snapshot
    <3>1. PICK place \in {"children", "quit"} : Goto(p, place)
      BY <2>4
    <3>2. failed' = [failed EXCEPT ![p] = @ \cup {"tree"}] /\ snapshot' = snapshot
      BY <2>4
    <3> QED
      BY <2>1, <3>1, <3>2 DEF IInv, TypeOK, Started, InterpreterInJob, EngineInJob, JobKills, JobEmpty, TreeKilled, TreeSees, Alive
  <2> QED
    BY <1>6, <2>2, <2>3, <2>4 DEF TakeSnapshot
<1>7. CASE ScriptRunsJava(p)
  <2>1. /\ cmd[p] = "running" /\ java[p] = "none" /\ java' = [java EXCEPT ![p] = "running"]
        /\ job' = job \cup (IF <<p, "cmd">> \in job THEN {<<p, "java">>} ELSE {})
        /\ failed' = [failed EXCEPT ![p] = @ \cup (IF pc[p] = "created" THEN {"late"} ELSE {})]
        /\ UNCHANGED <<pc, handles, kills, cmd, snapshot>>
    BY <1>7 DEF ScriptRunsJava
  <2>2. TypeOK'
    BY <2>1 DEF IInv, TypeOK, Processes
  <2>3. pc[p] # "off" /\ ~snapshot[p] /\ "late" \notin failed[p]
    BY <2>1 DEF IInv, Started
  <2>4. \A q \in Proxies : Torn(q)' <=> Torn(q)
    BY <2>1 DEF IInv, TypeOK
  <2>5. Started' /\ InterpreterInJob' /\ EngineInJob' /\ JobEmpty'
    BY <2>1, <2>3, <2>4 DEF IInv, TypeOK, Started, InterpreterInJob, EngineInJob, JobEmpty, Alive
  <2>6. JobKills' /\ TreeKilled' /\ TreeSees'
    BY <2>1, <2>3, <2>4 DEF IInv, TypeOK, JobKills, TreeKilled, TreeSees, Alive
  <2> QED
    BY <2>2, <2>5, <2>6 DEF IInv
<1>8. CASE EngineDies(p)
  BY <1>8 DEF EngineDies, IInv, TypeOK, Started, InterpreterInJob, EngineInJob, JobKills, JobEmpty, TreeKilled, TreeSees, Alive
<1>9. CASE ScriptEnds(p)
  BY <1>9 DEF ScriptEnds, IInv, TypeOK, Started, InterpreterInJob, EngineInJob, JobKills, JobEmpty, TreeKilled, TreeSees, Alive
<1> QED
  BY <1>1, <1>2, <1>3, <1>4, <1>5, <1>6, <1>7, <1>8, <1>9

(* KillProcessTree goes from one place to the next: it terminates xs, or a   *)
(* call fails.                                                               *)
LEMMA KillGood ==
  ASSUME IInv, NEW p \in Proxies, NEW xs, UNCHANGED <<handles, kills, job, snapshot>>,
         \/ /\ pc[p] = "children" /\ Goto(p, "parent")
            /\ xs = (IF snapshot[p] THEN {<<p, "java">>} ELSE {})
         \/ pc[p] = "parent" /\ Goto(p, "quit") /\ xs = {<<p, "cmd">>},
         \/ Terminate(xs) /\ UNCHANGED failed
         \/ Record(p, "tree") /\ UNCHANGED <<cmd, java>>
  PROVE  IInv'
<1>1. \A q \in Proxies : /\ <<q, "java">> \in xs <=> q = p /\ pc[p] = "children" /\ snapshot[p]
                         /\ <<q, "cmd">> \in xs <=> q = p /\ pc[p] = "parent"
  OBVIOUS
<1>2. /\ pc' \in [Proxies -> Places] /\ failed' \in [Proxies -> SUBSET Failures]
      /\ \A q \in Proxies : pc'[q] = (IF q # p THEN pc[q] ELSE IF pc[p] = "children" THEN "parent" ELSE "quit")
      /\ \A q \in Proxies : failed'[q] = failed[q] \/ (q = p /\ failed'[q] = failed[q] \cup {"tree"})
  BY DEF IInv, TypeOK, Goto, Places, Record, Failures
<1>3. pc[p] \in {"children", "parent"}
  OBVIOUS
<1>4. /\ cmd' \in [Proxies -> {"none", "running", "dead"}]
      /\ java' \in [Proxies -> {"none", "running", "dead"}]
      /\ \A q \in Proxies :
           /\ cmd'[q] = "running" => cmd[q] = "running" /\ (<<q, "cmd">> \notin xs \/ "tree" \in failed'[q])
           /\ cmd'[q] = "none" <=> cmd[q] = "none"
           /\ java'[q] = "none" <=> java[q] = "none"
           /\ Alive(q)' => Alive(q) /\ (<<q, "java">> \notin xs \/ "tree" \in failed'[q])
  <2>1. CASE Terminate(xs)
    BY <2>1, Terminated DEF IInv
  <2>2. CASE Record(p, "tree") /\ UNCHANGED <<cmd, java>>
    <3>1. "tree" \in failed'[p]
      BY <2>2 DEF Record, IInv, TypeOK
    <3> QED
      BY <1>1, <2>2, <3>1 DEF IInv, TypeOK, Alive
  <2> QED
    BY <2>1, <2>2
<1>5. \A q \in Proxies :
        /\ Running(q)' <=> Running(q)
        /\ Torn(q)' <=> Torn(q)
        /\ "job" \in failed'[q] <=> "job" \in failed[q]
        /\ "late" \in failed'[q] <=> "late" \in failed[q]
        /\ "tree" \in failed[q] => "tree" \in failed'[q]
  BY <1>2, <1>3 DEF Running, Torn
<1>6. TypeOK'
  <2>1. handles = {q \in Proxies : Running(q) /\ "job" \notin failed[q]} /\ handles' = handles
    BY DEF IInv, TypeOK
  <2>2. handles' = {q \in Proxies : Running(q)' /\ "job" \notin failed'[q]}
    BY ONLY <1>5, <2>1
  <2> QED
    BY <1>2, <1>4, <2>2 DEF IInv, TypeOK
<1>7. Started'
  <2>1. Started /\ snapshot' = snapshot /\ job' = job
    BY DEF IInv
  <2>2. \A q \in Proxies : pc'[q] \in {"off", "limit", "job"} => q # p /\ pc'[q] = pc[q] /\ failed'[q] = failed[q]
    BY <1>2, <1>3
  <2> QED
    BY ONLY <1>4, <1>5, <2>1, <2>2 DEF Started
<1>8. InterpreterInJob' /\ EngineInJob' /\ JobKills' /\ JobEmpty'
  <2>1. InterpreterInJob /\ EngineInJob /\ JobKills /\ JobEmpty /\ job' = job /\ kills' = kills /\ handles' = handles
    BY DEF IInv
  <2>2. \A q \in Proxies : (pc'[q] = "created" <=> pc[q] = "created") /\ (pc'[q] = "limit" <=> pc[q] = "limit")
    BY <1>2, <1>3
  <2> QED
    BY ONLY <1>4, <1>5, <2>1, <2>2 DEF InterpreterInJob, EngineInJob, JobKills, JobEmpty
<1>9. TreeKilled' /\ TreeSees'
  <2>1. TreeKilled /\ TreeSees /\ snapshot' = snapshot
    BY DEF IInv
  <2> QED
    BY ONLY ZenonT(60), <1>1, <1>2, <1>3, <1>4, <1>5, <2>1 DEF TreeKilled, TreeSees
<1> QED
  BY <1>6, <1>7, <1>8, <1>9 DEF IInv

(* The invariant holds in every session. *)
THEOREM Invariance == Spec => []IInv
<1>1. Init => IInv
  BY DEF Init, IInv, TypeOK, Running, Places, Started, InterpreterInJob, EngineInJob, JobKills, JobEmpty, TreeKilled, TreeSees, Alive
<1>2. IInv /\ [Next]_vars => IInv'
  <2> SUFFICES ASSUME IInv, [Next]_vars PROVE IInv'
    OBVIOUS
  <2>1. CASE UNCHANGED vars
    BY <2>1 DEF vars, IInv, TypeOK, Running, Torn, Started, InterpreterInJob, EngineInJob, JobKills, JobEmpty, TreeKilled, TreeSees, Alive
  <2>2. ASSUME NEW p \in Proxies, CreateWindow(p) PROVE IInv'
    <3>1. CASE Goto(p, "tray") /\ UNCHANGED <<handles, kills, cmd, java, job>>
      BY <2>2, <3>1 DEF CreateWindow, Goto, IInv, TypeOK, Places, Running, Torn, Started, InterpreterInJob,
                        EngineInJob, JobKills, JobEmpty, TreeKilled, TreeSees, Alive
    <3>2. CASE Goto(p, "gone") /\ ClosesJob(p)
      <4> DEFINE fs == {}
      <4>1. Running(p) /\ pc[p] # "created" /\ failed' = [failed EXCEPT ![p] = @ \cup fs] /\ UNCHANGED snapshot
        BY <2>2 DEF CreateWindow, Running, IInv, TypeOK
      <4>2. fs \in SUBSET Failures /\ "late" \notin fs /\ "job" \notin fs
        OBVIOUS
      <4> HIDE DEF fs
      <4> QED
        BY <3>2, <4>1, <4>2, EndsGood
    <3> QED
      BY <2>2, <3>1, <3>2 DEF CreateWindow
  <2>3. ASSUME NEW p \in Proxies, TerminateChildren(p) \/ TerminateParent(p) PROVE IInv'
    BY <2>3, KillGood DEF TerminateChildren, TerminateParent
  <2>4. ASSUME NEW p \in Proxies, WinMainReturns(p) PROVE IInv'
    <3> DEFINE fs == {}
    <3>1. Running(p) /\ pc[p] = "quit" /\ failed' = [failed EXCEPT ![p] = @ \cup fs] /\ UNCHANGED snapshot
      BY <2>4 DEF WinMainReturns, Running, IInv, TypeOK
    <3>2. fs \in SUBSET Failures /\ "late" \notin fs /\ "job" \notin fs
      OBVIOUS
    <3> HIDE DEF fs
    <3>3. ClosesJob(p) /\ Goto(p, "left")
      BY <2>4 DEF WinMainReturns
    <3> QED
      BY <3>1, <3>2, <3>3, EndsGood
  <2>5. ASSUME NEW p \in Proxies, ProxyKilled(p) PROVE IInv'
    <3> DEFINE fs == IF pc[p] = "created" THEN {"assign"} ELSE {}
    <3>1. fs \in SUBSET Failures /\ "late" \notin fs /\ "job" \notin fs /\ (pc[p] = "created" => "assign" \in fs)
      BY DEF Failures
    <3>2. /\ Running(p) /\ ClosesJob(p) /\ Goto(p, "gone") /\ UNCHANGED snapshot
          /\ failed' = [failed EXCEPT ![p] = @ \cup fs]
      BY <2>5 DEF ProxyKilled
    <3> HIDE DEF fs
    <3> QED
      BY <3>1, <3>2, EndsGood
  <2> QED
    BY <2>1, <2>2, <2>3, <2>4, <2>5, StepGood DEF Next, ProxyStep
<1> QED
  BY <1>1, <1>2, PTL DEF Spec

(* Every variable keeps its type, and the job is open while a proxy runs. *)
THEOREM TypeCorrect == Spec => []TypeOK
BY Invariance, PTL DEF IInv

(* However the proxies end, the job catches all but what its three calls or  *)
(* a late assignment let through.                                            *)
THEOREM JobLeavesNothing == Spec => []JobStopsEngine
<1>1. IInv => JobStopsEngine
  <2> SUFFICES ASSUME IInv, \A p \in Proxies : ~Running(p), NEW x \in Processes, Lives(x)
               PROVE  JobMisses(x)
    BY DEF JobStopsEngine
  <2> PICK p \in Proxies, kind \in {"cmd", "java"} : x = <<p, kind>>
    BY DEF Processes
  <2>1. job = {}
    BY DEF IInv, TypeOK, JobEmpty
  <2>2. pc[p] # "created"
    BY DEF Running
  <2> QED
    BY <2>1, <2>2 DEF IInv, InterpreterInJob, EngineInJob, JobMisses, Lives, Alive
<1> QED
  BY <1>1, Invariance, PTL

(* What a proxy that left through Exit leaves when none runs, both nets miss. *)
LEMMA LeftMissed ==
  ASSUME IInv, \A p \in Proxies : ~Running(p), NEW p \in Proxies, pc[p] = "left",
         NEW kind \in {"cmd", "java"}, Lives(<<p, kind>>)
  PROVE  BothMiss(<<p, kind>>)
<1>1. job = {}
  BY DEF IInv, TypeOK, JobEmpty
<1>2. CASE kind = "cmd"
  BY <1>1, <1>2 DEF IInv, InterpreterInJob, TreeKilled, BothMiss, Lives
<1>3. CASE kind = "java"
  <2>1. Alive(p)
    BY <1>3 DEF Lives, Alive
  <2>2. Torn(p) \/ "late" \in failed[p]
    BY <1>1, <2>1 DEF IInv, EngineInJob
  <2>3. /\ "tree" \in failed[p] \/ ~snapshot[p]
        /\ "late" \in failed[p] => "tree" \in failed[p] \/ snapshot[p]
    BY <2>1 DEF IInv, TreeSees
  <2> QED
    BY <1>3, <2>2, <2>3 DEF BothMiss
<1> QED
  BY <1>2, <1>3

(* When no proxy runs, what is left of those that left through Exit has      *)
(* slipped through the tree kill and through the job.                        *)
THEOREM ExitLeavesNothing == Spec => []ExitStopsEngine
<1>1. IInv => ExitStopsEngine
  <2> SUFFICES ASSUME IInv, \A p \in Proxies : ~Running(p), NEW x \in Processes, pc[x[1]] = "left", Lives(x)
               PROVE  BothMiss(x)
    BY DEF ExitStopsEngine
  <2> PICK p \in Proxies, kind \in {"cmd", "java"} : x = <<p, kind>>
    BY DEF Processes
  <2> QED
    BY LeftMissed
<1> QED
  BY <1>1, Invariance, PTL

-----------------------------------------------------------------------------
(* Once it has left without an interpreter and an engine, p stays so.        *)
Ended(p) == pc[p] = "left" /\ cmd[p] # "running" /\ ~Alive(p)

(* Nothing that happens to other proxies starts anything of p again.         *)
LEMMA EndedForGood ==
  ASSUME TypeOK, NEW p \in Proxies, Ended(p), [Next]_vars
  PROVE  Ended(p)'
<1>1. CASE UNCHANGED vars
  BY <1>1 DEF vars, Ended, Alive
<1>2. CASE Next
  <2>1. PICK q \in Proxies :
          \/ SetupJobObject(q) \/ ProxyStep(q) \/ ExitPicked(q) \/ ProxyKilled(q)
          \/ ScriptRunsJava(q) \/ EngineDies(q) \/ ScriptEnds(q)
    BY <1>2 DEF Next
  <2>2. ASSUME NEW place, Goto(q, place), q # p
        PROVE  pc'[p] = "left"
    BY <2>2 DEF Goto, Ended, TypeOK
  <2>3. ASSUME NEW xs, Terminate(xs)
        PROVE  cmd'[p] # "running" /\ ~Alive(p)'
    BY <2>3, Terminated DEF Ended
  <2>4. ASSUME UNCHANGED <<cmd, java>>
        PROVE  cmd'[p] # "running" /\ ~Alive(p)'
    BY <2>4 DEF Ended, Alive
  <2>5. ASSUME ClosesJob(q)
        PROVE  cmd'[p] # "running" /\ ~Alive(p)'
    BY <2>3, <2>4, <2>5 DEF ClosesJob
  <2>6. CASE SetupJobObject(q) \/ SetInformationJobObject(q)
    BY <2>2, <2>4, <2>6 DEF SetupJobObject, SetInformationJobObject, Ended
  <2>7. CASE StartEngineProcess(q)
    <3>1. q # p /\ java' = java /\ pc[q] = "job"
      BY <2>7 DEF StartEngineProcess, Ended
    <3>2. cmd'[p] = cmd[p]
      BY <2>7, <3>1 DEF StartEngineProcess, TypeOK
    <3> QED
      BY <2>2, <2>7, <3>1, <3>2 DEF StartEngineProcess, Ended, Alive
  <2>8. CASE AssignProcessToJobObject(q) \/ ExitPicked(q)
    BY <2>2, <2>4, <2>8 DEF AssignProcessToJobObject, ExitPicked, Ended
  <2>9. CASE TakeSnapshot(q)
    BY <2>2, <2>4, <2>9 DEF TakeSnapshot, Ended
  <2>10. CASE CreateWindow(q)
    BY <2>2, <2>4, <2>5, <2>10 DEF CreateWindow, Ended
  <2>11. CASE TerminateChildren(q) \/ TerminateParent(q)
    BY <2>2, <2>3, <2>4, <2>11 DEF TerminateChildren, TerminateParent, Ended
  <2>12. CASE WinMainReturns(q) \/ ProxyKilled(q)
    BY <2>2, <2>5, <2>12 DEF WinMainReturns, ProxyKilled, Ended, Running
  <2>13. CASE ScriptRunsJava(q)
    BY <2>13 DEF ScriptRunsJava, Ended, Alive, TypeOK
  <2>14. CASE EngineDies(q) \/ ScriptEnds(q)
    BY <2>14 DEF EngineDies, ScriptEnds, Ended, Alive, TypeOK
  <2> QED
    BY <2>1, <2>6, <2>7, <2>8, <2>9, <2>10, <2>11, <2>12, <2>13, <2>14 DEF ProxyStep
<1> QED
  BY <1>1, <1>2

(* With nobody else in the job, both nets have done what they could.         *)
LEMMA EndedWhenAlone ==
  ASSUME IInv, NEW p \in Proxies, pc[p] = "left", \A q \in Proxies \ {p} : ~Running(q),
         \A x \in EngineOf(p) : ~BothMiss(x)
  PROVE  Ended(p)
<1>1. \A q \in Proxies : ~Running(q)
  BY DEF Running
<1>2. ~Lives(<<p, "cmd">>) /\ ~Lives(<<p, "java">>)
  BY <1>1, LeftMissed DEF EngineOf
<1> QED
  BY <1>2 DEF Ended, Lives, Alive

(* A proxy that left through Exit while no other ran leaves nothing that one *)
(* of the nets caught, and nothing of it ever comes back, for any number of  *)
(* later proxies.                                                            *)
THEOREM LeavesForGood == Spec => LeftForGood
<1> SUFFICES ASSUME NEW p \in Proxies
             PROVE  Spec => []( /\ pc[p] = "left" /\ \A q \in Proxies \ {p} : ~Running(q)
                                /\ \A x \in EngineOf(p) : ~BothMiss(x)
                                => [](\A x \in EngineOf(p) : ~Lives(x)))
  BY DEF LeftForGood
<1> DEFINE Alone == /\ pc[p] = "left" /\ \A q \in Proxies \ {p} : ~Running(q)
                    /\ \A x \in EngineOf(p) : ~BothMiss(x)
           Silent == \A x \in EngineOf(p) : ~Lives(x)
<1>1. IInv /\ Alone => Ended(p)
  BY EndedWhenAlone
<1>2. TypeOK /\ Ended(p) /\ [Next]_vars => Ended(p)'
  BY EndedForGood
<1>3. Ended(p) => Silent
  BY DEF Ended, EngineOf, Lives, Alive
<1> QED
  BY <1>1, <1>2, <1>3, Invariance, TypeCorrect, PTL DEF Spec
=============================================================================
