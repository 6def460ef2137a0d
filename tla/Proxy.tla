------------------------------- MODULE Proxy -------------------------------
(***************************************************************************)
(* TCodeProxy: the tray program that starts the engine and stops it.       *)
(*                                                                         *)
(* The installer starts one proxy at logon and puts another into the Start *)
(* menu, and nothing keeps a second one from running, so this is about     *)
(* several.  Each starts a command interpreter (cmd), which runs a script, *)
(* which runs the engine (java).  Only one engine gets the port.  All      *)
(* proxies open the same named job object; a child joins the job of its    *)
(* parent only when it is created, and the system kills what is in the job *)
(* when the last handle is closed, if any proxy got it to.                 *)
(*                                                                         *)
(* A step is what no other process can interrupt: one system call.  The    *)
(* code looks at the result of few of them; failed records what the others *)
(* answered, which no step reads.                                          *)
(***************************************************************************)
EXTENDS Naturals, FiniteSets

CONSTANTS
  Proxies,  \* the runs of TCodeProxy.exe in one session
  Faults    \* which of AllFaults may happen

(***************************************************************************)
(* noJob:      CreateJobObject fails                                       *)
(* noLimit:    SetInformationJobObject fails: the job does not kill        *)
(* noScript:   the script or the interpreter cannot be started             *)
(* noAssign:   AssignProcessToJobObject fails                              *)
(* noWindow:   CreateWindowEx fails                                        *)
(* noSnapshot: CreateToolhelp32Snapshot fails, or Process32First or Next   *)
(* noKill:     OpenProcess or TerminateProcess fails, or for a child the   *)
(*             snapshot that KillProcessTree takes first                   *)
(* taskkill:   the proxy is killed, as the uninstaller does                *)
(* javaDies:   the engine ends by itself                                   *)
(***************************************************************************)
AllFaults ==
  {"noJob", "noLimit", "noScript", "noAssign", "noWindow", "noSnapshot", "noKill", "taskkill", "javaDies"}

ASSUME FaultsAssumption == Faults \subseteq AllFaults

VARIABLES
  pc,       \* where each proxy is
  handles,  \* the proxies with a handle of the job
  kills,    \* JOB_OBJECT_LIMIT_KILL_ON_JOB_CLOSE is set on the job
  cmd,      \* g_childPid: the interpreter each proxy started
  java,     \* the engine below it
  job,      \* the processes in the job
  snapshot, \* did KillProcessTree see the engine?
  failed    \* history: what went wrong for each proxy

vars == <<pc, handles, kills, cmd, java, job, snapshot, failed>>

(***************************************************************************)
(* off, limit (CreateJobObject done), job (SetupJobObject done), created   *)
(* (CreateProcess done), window,                                           *)
(* tray (in the message loop), exit (in WM_DESTROY), children, parent,     *)
(* quit (KillJavaProcess done), left (through Exit), gone (otherwise)      *)
(***************************************************************************)
Places == {"off", "limit", "job", "created", "window", "tray", "exit", "children", "parent", "quit", "left", "gone"}
Processes == Proxies \X {"cmd", "java"}

(* job, limit, assign: a call by which the interpreter gets into a job that  *)
(* kills.  late: the engine was born before the last of them.  tree: a call  *)
(* of KillProcessTree.                                                       *)
Failures == {"job", "limit", "assign", "late", "tree"}

Running(p) == pc[p] \notin {"off", "left", "gone"}
Lives(x) == IF x[2] = "cmd" THEN cmd[x[1]] = "running" ELSE java[x[1]] = "running"
EngineOf(p) == {<<p, "cmd">>, <<p, "java">>}

Init ==
  /\ pc = [p \in Proxies |-> "off"]
  /\ handles = {}
  /\ cmd = [p \in Proxies |-> "none"]
  /\ java = [p \in Proxies |-> "none"]
  /\ job = {}
  /\ kills = FALSE
  /\ snapshot = [p \in Proxies |-> FALSE]
  /\ failed = [p \in Proxies |-> {}]

Goto(p, place) == pc' = [pc EXCEPT ![p] = place]
Record(p, f) == failed' = [failed EXCEPT ![p] = @ \cup {f}]

(* TerminateProcess on a set of processes. *)
Terminate(xs) ==
  /\ cmd' = [p \in Proxies |-> IF <<p, "cmd">> \in xs /\ cmd[p] = "running" THEN "dead" ELSE cmd[p]]
  /\ java' = [p \in Proxies |-> IF <<p, "java">> \in xs /\ java[p] = "running" THEN "dead" ELSE java[p]]

-----------------------------------------------------------------------------
(* WinMain of the proxy p. *)

(* CreateJobObject makes the job or opens the one another proxy has made. *)
SetupJobObject(p) ==
  /\ pc[p] = "off"
  /\ \/ handles' = handles \cup {p} /\ Goto(p, "limit") /\ UNCHANGED failed
     \/ "noJob" \in Faults /\ Goto(p, "job") /\ Record(p, "job") /\ UNCHANGED handles
  /\ UNCHANGED <<kills, cmd, java, job, snapshot>>

SetInformationJobObject(p) ==
  /\ pc[p] = "limit"
  /\ \/ kills' = TRUE /\ UNCHANGED failed
     \/ "noLimit" \in Faults /\ Record(p, "limit") /\ UNCHANGED kills
  /\ Goto(p, "job")
  /\ UNCHANGED <<handles, cmd, java, job, snapshot>>

(* EnsureEngineRunning starts one interpreter, or finds nothing to start. *)
StartEngineProcess(p) ==
  /\ pc[p] = "job"
  /\ \/ cmd' = [cmd EXCEPT ![p] = "running"] /\ Goto(p, "created")
     \/ "noScript" \in Faults /\ Goto(p, "window") /\ UNCHANGED cmd
  /\ UNCHANGED <<handles, kills, java, job, snapshot, failed>>

(* Mutant: the interpreter is left out of the job. *)
AssignNothing(p) ==
  /\ pc[p] = "created"
  /\ Goto(p, "window")
  /\ UNCHANGED <<handles, kills, cmd, java, job, snapshot, failed>>

(* Without a job there is nothing to do, and nothing checks that it worked. *)
AssignProcessToJobObject(p) ==
  /\ pc[p] = "created"
  /\ \/ p \in handles /\ job' = job \cup (IF cmd[p] = "running" THEN {<<p, "cmd">>} ELSE {}) /\ UNCHANGED failed
     \/ p \notin handles /\ UNCHANGED <<job, failed>>
     \/ p \in handles /\ "noAssign" \in Faults /\ Record(p, "assign") /\ UNCHANGED job
  /\ Goto(p, "window")
  /\ UNCHANGED <<handles, kills, cmd, java, snapshot>>

(* Mutant: the close of the last handle kills nothing. *)
ReleasesJob(p) ==
  /\ handles' = handles \ {p}
  /\ IF handles = {p} THEN kills' = FALSE /\ job' = {} ELSE UNCHANGED <<kills, job>>
  /\ UNCHANGED <<cmd, java>>

(* The end of a process closes its handle of the job.  With the last one the *)
(* name of the job is free: whoever creates it next gets a new, empty one.   *)
ClosesJob(p) ==
  /\ handles' = handles \ {p}
  /\ IF handles = {p}
       THEN Terminate(IF kills THEN job ELSE {}) /\ kills' = FALSE /\ job' = {}
       ELSE UNCHANGED <<kills, cmd, java, job>>

CreateWindow(p) ==
  /\ pc[p] = "window"
  /\ \/ Goto(p, "tray") /\ UNCHANGED <<handles, kills, cmd, java, job>>
     \/ "noWindow" \in Faults /\ Goto(p, "gone") /\ ClosesJob(p)
  /\ UNCHANGED <<snapshot, failed>>

(* The user picks Exit: WM_COMMAND, then WM_DESTROY. *)
ExitPicked(p) ==
  /\ pc[p] = "tray"
  /\ Goto(p, "exit")
  /\ UNCHANGED <<handles, kills, cmd, java, job, snapshot, failed>>

(* KillProcessTree: the children that the snapshot shows, then the parent.   *)
(* Without a snapshot it returns, with an empty one it goes on to the parent. *)
TakeSnapshot(p) ==
  /\ pc[p] = "exit"
  /\ \/ cmd[p] = "none" /\ Goto(p, "quit") /\ UNCHANGED <<snapshot, failed>>
     \/ /\ cmd[p] # "none"
        /\ snapshot' = [snapshot EXCEPT ![p] = Lives(<<p, "java">>)]
        /\ Goto(p, "children")
        /\ UNCHANGED failed
     \/ /\ cmd[p] # "none" /\ "noSnapshot" \in Faults
        /\ \E place \in {"children", "quit"} : Goto(p, place)
        /\ Record(p, "tree")
        /\ UNCHANGED snapshot
  /\ UNCHANGED <<handles, kills, cmd, java, job>>

TerminateChildren(p) ==
  /\ pc[p] = "children"
  /\ \/ Terminate(IF snapshot[p] THEN {<<p, "java">>} ELSE {}) /\ UNCHANGED failed
     \/ "noKill" \in Faults /\ snapshot[p] /\ Record(p, "tree") /\ UNCHANGED <<cmd, java>>
  /\ Goto(p, "parent")
  /\ UNCHANGED <<handles, kills, job, snapshot>>

TerminateParent(p) ==
  /\ pc[p] = "parent"
  /\ \/ Terminate({<<p, "cmd">>}) /\ UNCHANGED failed
     \/ "noKill" \in Faults /\ Record(p, "tree") /\ UNCHANGED <<cmd, java>>
  /\ Goto(p, "quit")
  /\ UNCHANGED <<handles, kills, job, snapshot>>

(* Mutant: the interpreter inherits the handle of the job. *)
LeavesJobOpen(p) ==
  /\ pc[p] = "quit"
  /\ Goto(p, "left")
  /\ UNCHANGED <<handles, kills, cmd, java, job, snapshot, failed>>

(* PostQuitMessage ends the loop. *)
WinMainReturns(p) ==
  /\ pc[p] = "quit"
  /\ ClosesJob(p)
  /\ Goto(p, "left")
  /\ UNCHANGED <<snapshot, failed>>

-----------------------------------------------------------------------------
(* The system, the script and the engine. *)

(* A proxy that is killed in time never assigns the interpreter. *)
ProxyKilled(p) ==
  /\ "taskkill" \in Faults /\ Running(p)
  /\ ClosesJob(p)
  /\ Goto(p, "gone")
  /\ failed' = [failed EXCEPT ![p] = @ \cup (IF pc[p] = "created" THEN {"assign"} ELSE {})]
  /\ UNCHANGED snapshot

ScriptRunsJava(p) ==
  /\ cmd[p] = "running" /\ java[p] = "none"
  /\ java' = [java EXCEPT ![p] = "running"]
  /\ job' = job \cup (IF <<p, "cmd">> \in job THEN {<<p, "java">>} ELSE {})
  /\ failed' = [failed EXCEPT ![p] = @ \cup (IF pc[p] = "created" THEN {"late"} ELSE {})]
  /\ UNCHANGED <<pc, handles, kills, cmd, snapshot>>

(* An engine ends by itself, and at once if another one has its port. *)
EngineDies(p) ==
  /\ java[p] = "running"
  /\ "javaDies" \in Faults \/ \E q \in Proxies \ {p} : java[q] = "running"
  /\ java' = [java EXCEPT ![p] = "dead"]
  /\ UNCHANGED <<pc, handles, kills, cmd, job, snapshot, failed>>

ScriptEnds(p) ==
  /\ cmd[p] = "running" /\ java[p] = "dead"
  /\ cmd' = [cmd EXCEPT ![p] = "dead"]
  /\ UNCHANGED <<pc, handles, kills, java, job, snapshot, failed>>

(* What the proxy does without waiting for anybody. *)
ProxyStep(p) ==
  \/ SetInformationJobObject(p) \/ StartEngineProcess(p) \/ AssignProcessToJobObject(p) \/ CreateWindow(p)
  \/ TakeSnapshot(p) \/ TerminateChildren(p) \/ TerminateParent(p) \/ WinMainReturns(p)

Next ==
  \E p \in Proxies :
    \/ SetupJobObject(p) \/ ProxyStep(p) \/ ExitPicked(p) \/ ProxyKilled(p)
    \/ ScriptRunsJava(p) \/ EngineDies(p) \/ ScriptEnds(p)

Spec == Init /\ [][Next]_vars

(* The system runs every process, so a proxy that can go on does; whether    *)
(* the user starts or exits one, and whether the engine starts, is open.     *)
FairSpec == Spec /\ \A p \in Proxies : WF_vars(ProxyStep(p))

-----------------------------------------------------------------------------
(* The variables keep their types, and a proxy that could create or open the *)
(* job holds it open exactly while it runs.                                  *)
TypeOK ==
  /\ pc \in [Proxies -> Places]
  /\ handles = {p \in Proxies : Running(p) /\ "job" \notin failed[p]}
  /\ kills \in BOOLEAN
  /\ cmd \in [Proxies -> {"none", "running", "dead"}]
  /\ java \in [Proxies -> {"none", "running", "dead"}]
  /\ job \in SUBSET Processes
  /\ snapshot \in [Proxies -> BOOLEAN]
  /\ failed \in [Proxies -> SUBSET Failures]

(* The job does not reach a process if one of the three calls failed for its *)
(* proxy, and an engine neither if it was born before the third.             *)
Torn(p) == failed[p] \cap {"job", "limit", "assign"} # {}
JobMisses(x) == Torn(x[1]) \/ (x[2] = "java" /\ "late" \in failed[x[1]])

(* KillProcessTree does not reach one if one of its calls failed, and an     *)
(* engine neither if it was born after the snapshot, as a late one was not.  *)
BothMiss(x) ==
  \/ Torn(x[1]) /\ ("tree" \in failed[x[1]] \/ (x[2] = "java" /\ ~snapshot[x[1]]))
  \/ x[2] = "java" /\ {"late", "tree"} \subseteq failed[x[1]]

(* However the proxies end, what outlives the last of them is a process for  *)
(* whose proxy CreateJobObject, SetInformationJobObject or                   *)
(* AssignProcessToJobObject failed, or an engine that the script started     *)
(* before AssignProcessToJobObject put the interpreter in the job.           *)
JobStopsEngine ==
  (\A p \in Proxies : ~Running(p)) => \A x \in Processes : Lives(x) => JobMisses(x)

(* What is left, when no proxy runs, of one that left through Exit has       *)
(* slipped through both nets: what the snapshot misses, because the script   *)
(* had not got that far, was born in the job, and what was born outside it   *)
(* was in the snapshot, so a single failing call leaves nothing behind       *)
(* except an engine born after the snapshot outside the job.                 *)
ExitStopsEngine ==
  (\A p \in Proxies : ~Running(p)) =>
    \A x \in Processes : pc[x[1]] = "left" /\ Lives(x) => BothMiss(x)

(* A proxy that has left through Exit while no other runs has left nothing   *)
(* that one of the nets caught, and nothing of it comes back: not when its   *)
(* script was about to start the engine, nor when further proxies are        *)
(* started, fail or are killed (OnDestroy, KillProcessTree, CloseHandle).    *)
LeftForGood ==
  \A p \in Proxies :
    []( /\ pc[p] = "left" /\ \A q \in Proxies \ {p} : ~Running(q)
        /\ \A x \in EngineOf(p) : ~BothMiss(x)
        => [](\A x \in EngineOf(p) : ~Lives(x)))

(* Once Exit is picked, a proxy stops its interpreter and its engine for     *)
(* good, wherever the script is at that moment, unless both nets miss one,   *)
(* another proxy has the job open or the proxy is killed before it is done.  *)
ExitEndsOwnEngine ==
  \A p \in Proxies :
    pc[p] = "exit" ~> \/ pc[p] = "gone"
                      \/ pc[p] = "left" /\ \E x \in EngineOf(p) : BothMiss(x)
                      \/ \E q \in Proxies \ {p} : Running(q)
                      \/ [](\A x \in EngineOf(p) : ~Lives(x))
=============================================================================
