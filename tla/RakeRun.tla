------------------------------ MODULE RakeRun ------------------------------
(***************************************************************************)
(* One run of a planned target chain: the main thread of                   *)
(* Rakefile::run_impl / run_steps / run_one / spawn_resolved (librake,     *)
(* rakefile.rs), the signal thread of signal.rs, the safety-net thread the *)
(* signal thread starts, the child process of the current command, and the *)
(* stream of lifecycle events the two threads emit.                        *)
(*                                                                         *)
(* A step of this specification is the code between two points at which    *)
(* another thread can be observed: an emitted event, an atomic, the mutex  *)
(* of RUN_STATE, a system call.  Time is left out (RakeTimed adds it): the *)
(* safety net may fire at any moment after it is armed.                    *)
(***************************************************************************)
EXTENDS Naturals, Sequences, FiniteSets

CONSTANTS
  Target, Command, Tool,  \* names in the Rakefile
  Signal,                 \* signal names; a name also stands for its 128+n code
  Jobs                    \* what a run is asked to do, see JobOK

\* How a child ended, as main sees it; "none" is Rust's None.  "failed" is any
\* non-zero code, "killed" an exit by signal, which has no code.
ChildEnd == {"ok", "failed", "killed"}
Status == {"none"} \cup ChildEnd \cup Signal

\* A job is a resolved plan with what the run reads of its targets and commands.
JobOK(j) ==
  /\ j.plan \in Seq([kind : {"Run", "Skip"}, target : Target])
  /\ j.targetTools \in [Target -> Seq(Tool)]
  /\ j.commandTools \in [Command -> Seq(Tool)]
  /\ j.commands \in [Target -> Seq(Command)]
  /\ j.silent \subseteq Target      \* events = false
  /\ j.untracked \subseteq Target   \* time_tracking = false
  /\ j.offHost \subseteq Command    \* platform/arch gate excludes the host
  /\ j.noVariant \subseteq Command  \* no body for the detected shell
  /\ j.tolerant \subseteq Command   \* skip_on_error = true
  /\ j.lifecycle \in BOOLEAN        \* a [lifecycle] table is configured
  /\ j.licensed \in BOOLEAN         \* the license grants `events`
  /\ j.dryRun \in BOOLEAN

ASSUME JobsAssumption == \A j \in Jobs : JobOK(j)
ASSUME SignalAssumption ==
  Signal \cap ({"none", "one", "error", "alive"} \cup ChildEnd) = {}

VARIABLES
  job,        \* the job of this run
  pc,         \* where the main thread is
  si, ti, ci, \* current step, tool, command (1-based; ci = 0 before the commands)
  ensured,    \* run_steps' HashSet of tools
  last, stop, \* run_one's `last` and the flag it returns
  status,     \* run_steps' `status`, then the status of the RunReport
  result,     \* "ok" | "error" (an Err) | "cancelled"
  updates,    \* number of UpdateRecords
  child,      \* the current command's process
  runActive,  \* RUN_STATE is Some
  events,     \* the lifecycle events sent, in order
  installed, pending,             \* handler installed, signals caught and not yet read
  hpc, handling, sig, snapshot,   \* the signal thread
  exitCode, cancel,               \* EXIT_CODE and CANCEL_REQUESTED
  net,                            \* a safety-net thread is waiting
  proc,                           \* "alive" or the process's exit code
  ran, ready, late                \* history: see below

cursor == <<si, ti, ci>>
books == <<ensured, last, stop, status, result, updates>>
mainVars == <<job, pc, cursor, books>>
sigVars == <<pending, hpc, handling, sig, snapshot, exitCode, cancel, net>>
world == <<job, child, runActive, installed, sigVars, proc>>
history == <<ran, ready, late>>
vars == <<mainVars, child, runActive, events, installed, sigVars, proc, history>>

-----------------------------------------------------------------------------
(* The job under the main thread's indexes.                                *)

Plan == job.plan
Runs(i) == i \in 1..Len(Plan) /\ Plan[i].kind = "Run"
CommandsAt(i) == job.commands[Plan[i].target]
CurTarget == Plan[si].target
CurCommand == CommandsAt(si)[ci]
CurTools ==
  IF ci = 0 THEN job.targetTools[CurTarget] ELSE job.commandTools[CurCommand]

\* The addresses run_impl hands to Emitter::new are non-empty.
Live == job.lifecycle /\ job.licensed /\ ~job.dryRun

Success(s) == s \in {"none", "ok"}
Code(s) == IF s = "killed" THEN "none" ELSE s
\* lib.rs exit_code, and main's exit(0) when nothing ran.
ExitOf(s) == CASE s = "none" -> "ok" [] s = "killed" -> "one" [] OTHER -> s

(* An event: its type, the target it belongs to ("run" for the whole run), *)
(* the command or tool it is about, exit_code, success and chain_stopped.  *)
Event(type, target, about, code, ok, stops) ==
  [type |-> type, target |-> target, about |-> about,
   code |-> code, ok |-> ok, stops |-> stops]
Plain(type, target, about) == Event(type, target, about, "none", TRUE, FALSE)

Emit(new) == events' = IF Live THEN events \o new ELSE events
\* Through the target's emitter, which events = false disables.
EmitFor(t, new) ==
  events' = IF Live /\ t \notin job.silent THEN events \o new ELSE events

Goto(label) == pc' = label
At(label) == pc = label /\ proc = "alive"

-----------------------------------------------------------------------------
Init ==
  /\ job \in Jobs
  /\ pc = "install" /\ si = 1 /\ ti = 1 /\ ci = 0
  /\ ensured = {} /\ last = "none" /\ stop = FALSE /\ status = "none"
  /\ result = "ok" /\ updates = 0 /\ child = "none"
  /\ runActive = FALSE /\ events = <<>>
  /\ installed = FALSE /\ pending = {} /\ hpc = "idle" /\ handling = FALSE
  /\ sig = "none" /\ snapshot = FALSE /\ exitCode = "none" /\ cancel = FALSE
  /\ net = FALSE /\ proc = "alive"
  /\ ran = <<>> /\ ready = {} /\ late = 0

(* run_impl up to run_steps. *)

Install ==
  /\ At("install") /\ Goto("beforeAll") /\ installed' = TRUE
  /\ UNCHANGED <<job, cursor, books, child, runActive, events, sigVars, proc,
                 history>>

BeforeAll ==
  /\ At("beforeAll") /\ Goto("begin") /\ Emit(<<Plain("BeforeAll", "run", "run")>>)
  /\ UNCHANGED <<cursor, books, world, history>>

BeginRun ==
  /\ At("begin") /\ Goto("step") /\ runActive' = TRUE
  /\ UNCHANGED <<job, cursor, books, child, events, installed, sigVars, proc,
                 history>>

(* run_steps: one plan step after another. *)

SkipStep ==
  /\ At("step") /\ si <= Len(Plan) /\ Plan[si].kind = "Skip"
  /\ EmitFor(CurTarget, <<Plain("TargetSkipped", CurTarget, "run")>>)
  /\ si' = si + 1
  /\ UNCHANGED <<pc, ti, ci, books, world, history>>

\* Fault: the tool index starts at 0, as a Rust slice's would.
EnterTargetZeroBased ==
  /\ At("step") /\ Runs(si) /\ Goto("tools")
  /\ ti' = 0 /\ ci' = 0 /\ last' = "none" /\ stop' = FALSE
  /\ UNCHANGED <<si, ensured, status, result, updates, world, events, history>>

EnterTarget ==
  /\ At("step") /\ Runs(si) /\ Goto("tools")
  /\ ti' = 1 /\ ci' = 0 /\ last' = "none" /\ stop' = FALSE
  /\ UNCHANGED <<si, ensured, status, result, updates, world, events, history>>

StepsDone ==
  /\ At("step") /\ si > Len(Plan) /\ Goto("check")
  /\ UNCHANGED <<cursor, books, world, events, history>>

(* The two tool loops: of the target (ci = 0) and of a command.            *)

ToolKnown ==
  /\ At("tools") /\ ti <= Len(CurTools) /\ CurTools[ti] \in ensured
  /\ ti' = ti + 1
  /\ UNCHANGED <<pc, si, ci, books, world, events, history>>

BeforeTool ==
  /\ At("tools") /\ ti <= Len(CurTools) /\ CurTools[ti] \notin ensured
  /\ ensured' = ensured \cup {CurTools[ti]}
  /\ EmitFor(CurTarget, <<Plain("BeforeTool", CurTarget, CurTools[ti])>>)
  /\ Goto("ensure")
  /\ UNCHANGED <<cursor, last, stop, status, result, updates, world, history>>

\* ToolTable::ensure returns Ok, with a record when it installed or updated.
ToolReady ==
  /\ At("ensure") /\ Goto("tools") /\ ti' = ti + 1
  /\ EmitFor(CurTarget, <<Plain("AfterTool", CurTarget, CurTools[ti])>>)
  /\ \E record \in IF job.dryRun THEN {0} ELSE {0, 1} : updates' = updates + record
  /\ ready' = ready \cup {CurTools[ti]}
  /\ UNCHANGED <<si, ci, ensured, last, stop, status, result, world, ran,
                 late>>

\* Fault: the `?` after `tools.ensure` is lost and the run goes on.
ToolFailsSilently ==
  /\ At("ensure") /\ ~job.dryRun /\ Goto("tools") /\ ti' = ti + 1
  /\ UNCHANGED <<si, ci, books, world, events, history>>

\* ... or an Err, which `?` hands up to run_impl at once.
ToolFails ==
  /\ At("ensure") /\ ~job.dryRun /\ Goto("check") /\ result' = "error"
  /\ UNCHANGED <<cursor, ensured, last, stop, status, updates, world, events,
                 history>>

BeforeTarget ==
  /\ At("tools") /\ ci = 0 /\ ti > Len(CurTools)
  /\ EmitFor(CurTarget,
       <<Plain("BeforeTarget", CurTarget, "run")>> \o
       IF CurTarget \in job.untracked
         THEN <<Plain("NoTimeTracking", CurTarget, "run")>> ELSE <<>>)
  /\ ci' = 1 /\ Goto("command")
  /\ UNCHANGED <<si, ti, books, world, history>>

(* run_one: one command after another. *)

SkipCommand ==
  /\ At("command") /\ ci <= Len(CommandsAt(si)) /\ CurCommand \in job.offHost
  /\ EmitFor(CurTarget, <<Plain("CommandSkipped", CurTarget, CurCommand)>>)
  /\ ci' = ci + 1
  /\ UNCHANGED <<pc, si, ti, books, world, history>>

\* Fault: the `continue` of the platform check is lost.
EnterCommandAnyHost ==
  /\ At("command") /\ ci <= Len(CommandsAt(si)) /\ ti' = 1 /\ Goto("tools")
  /\ UNCHANGED <<si, ci, books, world, events, history>>

EnterCommand ==
  /\ At("command") /\ ci <= Len(CommandsAt(si)) /\ CurCommand \notin job.offHost
  /\ ti' = 1 /\ Goto("tools")
  /\ UNCHANGED <<si, ci, books, world, events, history>>

CommandsDone ==
  /\ At("command") /\ ci > Len(CommandsAt(si)) /\ Goto("afterTarget")
  /\ UNCHANGED <<cursor, books, world, events, history>>

CommandToolsDone == At("tools") /\ ci > 0 /\ ti > Len(CurTools)

NoShellVariant ==
  /\ CommandToolsDone /\ CurCommand \in job.noVariant
  /\ Goto("check") /\ result' = "error"
  /\ UNCHANGED <<cursor, ensured, last, stop, status, updates, world, events,
                 history>>

DryCommand ==
  /\ CommandToolsDone /\ CurCommand \notin job.noVariant /\ job.dryRun
  /\ ci' = ci + 1 /\ Goto("command")
  /\ UNCHANGED <<si, ti, books, world, events, history>>

BeforeCommand ==
  /\ CommandToolsDone /\ CurCommand \notin job.noVariant /\ ~job.dryRun
  /\ EmitFor(CurTarget, <<Plain("BeforeCommand", CurTarget, CurCommand)>>)
  /\ Goto("spawn")
  /\ UNCHANGED <<cursor, books, world, history>>

(* spawn_resolved: launch, then poll until the child ends or is cancelled. *)

Attempt(end) == [step |-> si, index |-> ci, end |-> end]
AttemptEnds(end) == ran' = [ran EXCEPT ![Len(ran)].end = end]
AfterCommandEvent(code, ok, stops) ==
  EmitFor(CurTarget, <<Event("AfterCommand", CurTarget, CurCommand, code, ok, stops)>>)

SpawnFails ==
  /\ At("spawn") /\ Goto("check") /\ result' = "error"
  /\ AfterCommandEvent("none", FALSE, TRUE)
  /\ ran' = Append(ran, Attempt("error"))
  /\ UNCHANGED <<cursor, ensured, last, stop, status, updates, world, ready,
                 late>>

Spawn ==
  /\ At("spawn") /\ Goto("poll") /\ child' = "running"
  /\ ran' = Append(ran, Attempt("running"))
  /\ late' = IF cancel THEN late + 1 ELSE late
  /\ UNCHANGED <<job, cursor, books, runActive, events, installed, sigVars,
                 proc, ready>>

\* Fault: try_wait's status is dropped and the loop polls again.
PollIgnoresExit ==
  /\ At("poll") /\ child \in ChildEnd /\ Goto("sleep")
  /\ UNCHANGED <<cursor, books, world, events, history>>

PollExited ==
  /\ At("poll") /\ child \in ChildEnd /\ Goto("afterCommand")
  /\ UNCHANGED <<cursor, books, world, events, history>>

\* try_wait fails, or the wait after the kill: the child is gone and its status
\* is lost (ECHILD).
WaitFails ==
  /\ (At("poll") /\ child \in ChildEnd) \/ At("kill")
  /\ Goto("check") /\ result' = "error"
  /\ AfterCommandEvent("none", FALSE, TRUE)
  /\ AttemptEnds("error") /\ child' = "none"
  /\ UNCHANGED <<job, cursor, ensured, last, stop, status, updates, runActive,
                 installed, sigVars, proc, ready, late>>

PollCancelled ==
  /\ At("poll") /\ child = "running" /\ cancel /\ Goto("kill")
  /\ UNCHANGED <<cursor, books, world, events, history>>

\* Fault: the poll loop sleeps on without looking at the flag.
PollSleepsBlindly ==
  /\ At("poll") /\ child = "running" /\ Goto("sleep")
  /\ UNCHANGED <<cursor, books, world, events, history>>

PollSleeps ==
  /\ At("poll") /\ child = "running" /\ ~cancel /\ Goto("sleep")
  /\ UNCHANGED <<cursor, books, world, events, history>>

Wake ==
  /\ At("sleep") /\ Goto("poll")
  /\ UNCHANGED <<cursor, books, world, events, history>>

\* child.kill(), then child.wait(); the child may have ended before the kill.
Kill ==
  /\ At("kill") /\ Goto("afterCommand")
  /\ child' = IF child = "running" THEN "killed" ELSE child
  /\ UNCHANGED <<job, cursor, books, runActive, events, installed, sigVars,
                 proc, history>>

(* run_one after the child, run_steps after the target. *)

Tolerated == CurCommand \in job.tolerant

AfterCommand ==
  /\ At("afterCommand") /\ Goto("decide")
  /\ AfterCommandEvent(Code(child), Success(child), ~Success(child) /\ ~Tolerated)
  /\ last' = child /\ child' = "none" /\ AttemptEnds(child)
  /\ UNCHANGED <<job, cursor, ensured, stop, status, result, updates,
                 runActive, installed, sigVars, proc, ready, late>>

\* Fault: the check of the flag after a command is lost.
MustStopOnFailure == ~Success(last) /\ ~Tolerated

MustStop == cancel \/ (~Success(last) /\ ~Tolerated)

StopChain ==
  /\ At("decide") /\ MustStop /\ stop' = TRUE /\ Goto("afterTarget")
  /\ UNCHANGED <<cursor, ensured, last, status, result, updates, world,
                 events, history>>

ContinueChain ==
  /\ At("decide") /\ ~MustStop /\ ci' = ci + 1 /\ Goto("command")
  /\ UNCHANGED <<si, ti, books, world, events, history>>

\* Fault: `if stop { break }` is lost.
AfterTargetGoesOn ==
  /\ At("afterTarget")
  /\ EmitFor(CurTarget,
       <<Event("AfterTarget", CurTarget, "run", Code(last), Success(last), stop)>>)
  /\ status' = (IF last = "none" THEN status ELSE last)
  /\ Goto("step") /\ si' = si + 1
  /\ UNCHANGED <<ti, ci, ensured, last, stop, result, updates, world, history>>

\* Fault: a cancelled target breaks before the event is emitted.
AfterTargetBreaksFirst ==
  /\ At("afterTarget")
  /\ IF stop /\ cancel
       THEN events' = events
       ELSE EmitFor(CurTarget,
              <<Event("AfterTarget", CurTarget, "run", Code(last), Success(last), stop)>>)
  /\ status' = (IF last = "none" THEN status ELSE last)
  /\ IF stop THEN Goto("check") /\ si' = si ELSE Goto("step") /\ si' = si + 1
  /\ UNCHANGED <<ti, ci, ensured, last, stop, result, updates, world, history>>

AfterTarget ==
  /\ At("afterTarget")
  /\ EmitFor(CurTarget,
       <<Event("AfterTarget", CurTarget, "run", Code(last), Success(last), stop)>>)
  /\ status' = (IF last = "none" THEN status ELSE last)
  /\ IF stop THEN Goto("check") /\ si' = si ELSE Goto("step") /\ si' = si + 1
  /\ UNCHANGED <<ti, ci, ensured, last, stop, result, updates, world, history>>

(* run_impl after run_steps, then main's exit. *)

\* Fault: the synthesized status is lost, the last command's stays.
CheckCancelledKeepsStatus ==
  /\ At("check") /\ cancel /\ Goto("afterAll") /\ result' = "cancelled"
  /\ UNCHANGED <<cursor, ensured, last, stop, status, updates, world, events,
                 history>>

CheckCancelled ==
  /\ At("check") /\ cancel /\ Goto("afterAll")
  /\ result' = "cancelled" /\ status' = exitCode
  /\ UNCHANGED <<cursor, ensured, last, stop, updates, world, events, history>>

\* Fault: the cancelled branch is not the only one taken when the flag is set.
CheckFinishedRegardless ==
  /\ At("check") /\ Goto("afterAll")
  /\ UNCHANGED <<cursor, books, world, events, history>>

CheckFinished ==
  /\ At("check") /\ ~cancel /\ Goto("afterAll")
  /\ UNCHANGED <<cursor, books, world, events, history>>

AfterAllEvent ==
  CASE result = "ok" ->
         Event("AfterAll", "run", "run", Code(status), Success(status), FALSE)
    [] result = "error" -> Event("AfterAll", "run", "run", "none", TRUE, FALSE)
    [] result = "cancelled" -> Event("AfterAll", "run", "run", status, FALSE, FALSE)

AfterAll ==
  /\ At("afterAll") /\ Goto("end") /\ Emit(<<AfterAllEvent>>)
  /\ UNCHANGED <<cursor, books, world, history>>

EndRun ==
  /\ At("end") /\ Goto("exit") /\ runActive' = FALSE
  /\ UNCHANGED <<job, cursor, books, child, events, installed, sigVars, proc,
                 history>>

Exit ==
  /\ At("exit") /\ Goto("done")
  /\ proc' = IF result = "error" THEN "one" ELSE ExitOf(status)
  /\ UNCHANGED <<job, cursor, books, child, runActive, events, installed,
                 sigVars, history>>

-----------------------------------------------------------------------------
(* The world: the child ends by itself (or by the terminal's own signal to *)
(* the foreground group); a signal is caught once the handler is in place. *)

ChildExits ==
  /\ child = "running" /\ child' \in ChildEnd
  /\ UNCHANGED <<mainVars, runActive, events, installed, sigVars, proc,
                 history>>

Raise(s) ==
  /\ installed /\ proc = "alive" /\ pending' = pending \cup {s}
  /\ UNCHANGED <<mainVars, child, runActive, events, installed, hpc, handling,
                 sig, snapshot, exitCode, cancel, net, proc, history>>

(* signal.rs: `handle`, on the signal thread. *)

HandlerAt(label) == hpc = label /\ proc = "alive"

\* Only the first signal passes HANDLING.swap(true).
IgnoreSignal(s) ==
  /\ HandlerAt("idle") /\ s \in pending /\ handling /\ pending' = pending \ {s}
  /\ UNCHANGED <<mainVars, child, runActive, events, installed, hpc, handling,
                 sig, snapshot, exitCode, cancel, net, proc, history>>

\* Fault: the flag is raised before the code is stored.
HandleSignalFlagsFirst(s) ==
  /\ HandlerAt("idle") /\ s \in pending /\ ~handling /\ pending' = pending \ {s}
  /\ handling' = TRUE /\ sig' = s /\ hpc' = "code" /\ cancel' = TRUE
  /\ UNCHANGED <<mainVars, child, runActive, events, installed,
                 snapshot, exitCode, net, proc, history>>

HandleSignal(s) ==
  /\ HandlerAt("idle") /\ s \in pending /\ ~handling /\ pending' = pending \ {s}
  /\ handling' = TRUE /\ sig' = s /\ hpc' = "code"
  /\ UNCHANGED <<mainVars, child, runActive, events, installed, snapshot,
                 exitCode, cancel, net, proc, history>>

StoreCode ==
  /\ HandlerAt("code") /\ exitCode' = sig /\ hpc' = "snapshot"
  /\ UNCHANGED <<mainVars, child, runActive, events, installed, pending,
                 handling, sig, snapshot, cancel, net, proc, history>>

SnapshotRun ==
  /\ HandlerAt("snapshot") /\ snapshot' = runActive /\ hpc' = "emit"
  /\ UNCHANGED <<mainVars, child, runActive, events, installed, pending,
                 handling, sig, exitCode, cancel, net, proc, history>>

EmitCancelled ==
  /\ HandlerAt("emit") /\ hpc' = "flag"
  /\ Emit(IF snapshot
            THEN <<Event("Cancelled", "run", "run", sig, FALSE, FALSE)>> ELSE <<>>)
  /\ UNCHANGED <<mainVars, child, runActive, installed, pending, handling,
                 sig, snapshot, exitCode, cancel, net, proc, history>>

FlagCancel ==
  /\ HandlerAt("flag") /\ cancel' = TRUE /\ hpc' = "arm"
  /\ UNCHANGED <<mainVars, child, runActive, events, installed, pending,
                 handling, sig, snapshot, exitCode, net, proc, history>>

\* Fault: the safety-net thread is never spawned.
ArmNothing ==
  /\ HandlerAt("arm") /\ hpc' = "idle"
  /\ UNCHANGED <<mainVars, child, runActive, events, installed,
                 pending, handling, sig, snapshot, exitCode, cancel, net, proc, history>>

ArmSafetyNet ==
  /\ HandlerAt("arm") /\ net' = TRUE /\ hpc' = "idle"
  /\ UNCHANGED <<mainVars, child, runActive, events, installed, pending,
                 handling, sig, snapshot, exitCode, cancel, proc, history>>

\* The safety-net thread: process::exit(code).
SafetyNet ==
  /\ net /\ proc = "alive" /\ proc' = sig
  /\ UNCHANGED <<mainVars, child, runActive, events, installed, sigVars,
                 history>>

-----------------------------------------------------------------------------
Prepare == Install \/ BeforeAll \/ BeginRun
WalkPlan == SkipStep \/ EnterTarget \/ StepsDone \/ BeforeTarget \/ AfterTarget
EnsureTools == ToolKnown \/ BeforeTool
ToolReturns == ToolReady \/ ToolFails
PickCommand ==
  SkipCommand \/ EnterCommand \/ CommandsDone \/ NoShellVariant \/ DryCommand
RunCommand ==
  \/ BeforeCommand \/ SpawnFails \/ Spawn
  \/ PollExited \/ WaitFails \/ PollCancelled \/ PollSleeps \/ Wake \/ Kill
  \/ AfterCommand \/ StopChain \/ ContinueChain
Conclude == CheckCancelled \/ CheckFinished \/ AfterAll \/ EndRun \/ Exit

\* Everything main does by itself: all of it but waiting for a tool's ensure.
MainStep ==
  Prepare \/ WalkPlan \/ EnsureTools \/ PickCommand \/ RunCommand \/ Conclude

HandlerStep ==
  \/ \E s \in Signal : IgnoreSignal(s) \/ HandleSignal(s)
  \/ StoreCode \/ SnapshotRun \/ EmitCancelled \/ FlagCancel \/ ArmSafetyNet

Next ==
  \/ MainStep \/ ToolReturns \/ HandlerStep \/ SafetyNet
  \/ ChildExits \/ \E s \in Signal : Raise(s)

\* The operating system schedules every thread of a live process; nothing makes
\* a child exit, a tool's check or install return, or a signal arrive.
Fairness == WF_vars(MainStep) /\ WF_vars(HandlerStep) /\ WF_vars(SafetyNet)

Spec == Init /\ [][Next]_vars /\ Fairness

\* No part of Spec: every command and every tool check or install ends.
CommandsEnd == WF_vars(ChildExits) /\ WF_vars(ToolReturns)

-----------------------------------------------------------------------------
(* Properties.                                                             *)

Label ==
  {"install", "beforeAll", "begin", "step", "tools", "ensure", "command", "spawn",
   "poll", "sleep", "kill", "afterCommand", "decide", "afterTarget", "check",
   "afterAll", "end", "exit", "done"}
HandlerLabel == {"idle", "code", "snapshot", "emit", "flag", "arm"}
EventType ==
  {"BeforeAll", "AfterAll", "BeforeTarget", "AfterTarget", "NoTimeTracking",
   "TargetSkipped", "BeforeCommand", "AfterCommand", "CommandSkipped",
   "BeforeTool", "AfterTool", "Cancelled"}
EventRecord ==
  [type : EventType, target : Target \cup {"run"},
   about : Command \cup Tool \cup {"run"},
   code : Status, ok : BOOLEAN, stops : BOOLEAN]
AttemptRecord ==
  [step : Nat, index : Nat, end : ChildEnd \cup {"running", "error"}]

\* Every variable of the run holds a value of its kind.
TypeOK ==
  /\ job \in Jobs /\ pc \in Label
  /\ si \in Nat \ {0} /\ ti \in Nat \ {0} /\ ci \in Nat
  /\ ensured \subseteq Tool /\ last \in {"none"} \cup ChildEnd /\ stop \in BOOLEAN
  /\ status \in Status /\ result \in {"ok", "error", "cancelled"} /\ updates \in Nat
  /\ child \in {"none", "running"} \cup ChildEnd
  /\ runActive \in BOOLEAN /\ events \in Seq(EventRecord)
  /\ installed \in BOOLEAN /\ pending \subseteq Signal /\ hpc \in HandlerLabel
  /\ handling \in BOOLEAN /\ sig \in Signal \cup {"none"} /\ snapshot \in BOOLEAN
  /\ exitCode \in Signal \cup {"none"} /\ cancel \in BOOLEAN /\ net \in BOOLEAN
  /\ proc \in {"alive", "ok", "failed", "one"} \cup Signal
  /\ ran \in Seq(AttemptRecord) /\ ready \subseteq Tool /\ late \in Nat

\* The commands the plan asks for on this host, and their order.
Runnable(i, k) ==
  Runs(i) /\ k \in 1..Len(CommandsAt(i)) /\ CommandsAt(i)[k] \notin job.offHost
Precedes(i, k, j, l) == i < j \/ (i = j /\ k < l)
CommandOf(attempt) == CommandsAt(attempt.step)[attempt.index]
Passed(attempt) ==
  \/ attempt.end = "ok"
  \/ attempt.end \in {"failed", "killed"} /\ CommandOf(attempt) \in job.tolerant
Elements(seq) == {seq[n] : n \in 1..Len(seq)}

\* run_steps and run_one leave out no command and repeat none: what was started
\* before the n-th attempt is exactly what the plan puts before it.
RunsInPlanOrder ==
  \A n \in 1..Len(ran) :
    /\ Runnable(ran[n].step, ran[n].index)
    /\ \A i \in 1..Len(Plan) : \A k \in 1..Len(CommandsAt(i)) :
         Runnable(i, k) =>
           (Precedes(i, k, ran[n].step, ran[n].index)
              <=> \E m \in 1..(n - 1) : ran[m].step = i /\ ran[m].index = k)

\* Execution stops at the first command that fails without skip_on_error, or
\* that cannot be launched or waited for: nothing is started after it.
StopsAtFailure == \A n \in 1..(Len(ran) - 1) : Passed(ran[n])

\* No command starts before an ensure has succeeded, in this run, for each tool
\* its target and it name (ensured alone only says that the ensure was begun).
ToolsBeforeCommand ==
  \A n \in 1..Len(ran) :
    Elements(job.targetTools[Plan[ran[n].step].target])
      \cup Elements(job.commandTools[CommandOf(ran[n])]) \subseteq ready

\* Once CANCEL_REQUESTED is set at most one more command is started, the one
\* run_one was about to spawn: it never looks at the flag before a spawn.
OneLateSpawn == late <= 1

\* Every report of a cancellation names the signal that won HANDLING: the
\* Cancelled event, the AfterAll of a cancelled run, the status and exit code.
OneSignalEverywhere ==
  /\ result = "cancelled" => handling /\ status = sig
  /\ proc \in Signal => handling /\ proc = sig
  /\ \A n \in 1..Len(events) : events[n].code \in Signal => events[n].code = sig

\* The process's exit code tells what the chain did: 0 only when every command
\* the plan asks for was run and passed, a command's code or 1 only when the
\* last attempt ended so (or an error was returned).
ExitCodeExplained ==
  /\ proc = "ok" /\ ~job.dryRun =>
       \A i \in 1..Len(Plan) : \A k \in 1..Len(CommandsAt(i)) :
         Runnable(i, k) =>
           \E n \in 1..Len(ran) :
             ran[n].step = i /\ ran[n].index = k /\ Passed(ran[n])
  /\ proc = "failed" => ran # <<>> /\ ran[Len(ran)].end = "failed"
  /\ proc = "one" =>
       \/ result = "error"
       \/ ran # <<>> /\ ran[Len(ran)].end = "killed"

\* Events of the pair (opener, closer) pair up, one open at a time.
Opener ==
  [AfterAll |-> "BeforeAll", AfterTarget |-> "BeforeTarget",
   AfterCommand |-> "BeforeCommand", AfterTool |-> "BeforeTool"]
Opens(n, m) ==
  /\ events[n].type = Opener[events[m].type]
  /\ events[n].target = events[m].target /\ events[n].about = events[m].about
  /\ \A k \in (n + 1)..(m - 1) :
       events[k].type \notin {events[n].type, events[m].type}
Count(type) == Cardinality({n \in 1..Len(events) : events[n].type = type})

\* run_steps returns Ok when its loop over the plan is through or left by `stop`;
\* an Err leaves it by `?`, inside the plan and with no target stopped.
ReturnedOk == si > Len(Plan) \/ stop

\* What a listener may rely on: each After event closes the Before event of the
\* same target and command or tool; a command's events lie inside its target's;
\* and unless run_steps returned an error, whether the run was cancelled or not,
\* nothing is left open once AfterAll has come.
EventsPairUp ==
  \A m \in 1..Len(events) :
    /\ events[m].type \in DOMAIN Opener => \E n \in 1..(m - 1) : Opens(n, m)
    /\ events[m].type = "BeforeCommand" =>
         \E n \in 1..(m - 1) :
           /\ events[n].type = "BeforeTarget" /\ events[n].target = events[m].target
           /\ \A k \in n..m : events[k].type # "AfterTarget"
    /\ events[m].type = "AfterAll" /\ ReturnedOk =>
         \A type \in DOMAIN Opener : Count(type) = Count(Opener[type])

\* AfterAll and the process agree when main returns: a failure reported in the
\* stream is a failing exit code, and a code in the stream is the exit code.
AfterAllAgreesWithExit ==
  pc = "done" =>
    \A n \in 1..Len(events) : events[n].type = "AfterAll" =>
      /\ ~events[n].ok => proc # "ok"
      /\ events[n].code # "none" => proc = events[n].code

\* EXIT_CODE is written once: a later signal never changes what was reported.
FirstSignalWins == [][exitCode # "none" => exitCode' = exitCode]_vars

\* A caught signal ends the process, even when the command or the tool install
\* under way never returns.
SignalEndsProcess == (pending # {}) ~> (proc # "alive")

\* A run whose commands and tool installs all end comes to an end itself.
RunEnds == CommandsEnd => <>(proc # "alive")

(* Statements of the repository that the runs refute.                      *)

\* lifecycle.rs on AfterAll.success: true when no command failed the chain.
AfterAllSuccessIsTrue ==
  \A n, m \in 1..Len(events) :
    events[n].type = "AfterAll" /\ events[n].ok => ~events[m].stops

\* signal.rs on end_run: no stale Cancelled event for a run that has finished.
NoStaleCancelled ==
  \A n, m \in 1..Len(events) :
    events[n].type = "AfterAll" /\ events[m].type = "Cancelled" => m < n
=============================================================================
