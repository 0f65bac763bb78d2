----------------------------- MODULE SelfUpdate -----------------------------
(***************************************************************************)
(* cargo-rake's main.rs `run` around the run proper: the update record in   *)
(* the environment, the license, the toolchain, the self-update, the        *)
(* relaunch of the installed binary, the targets, the summary and the exit  *)
(* code.  A process that waits for another one it has spawned, to relaunch  *)
(* itself or because a command of its targets is itself `cargo rake`, is on *)
(* the stack `waiting`; everything else is about the process that runs.     *)
(***************************************************************************)
EXTENDS Toolchain, Sequences

CONSTANTS
  MaxVersion,  \* bound: versions published, counted from 1
  MaxCalls,    \* bound: nested `cargo rake` commands
  MaxWaiting   \* bound: waiting processes

ASSUME BoundsAssumption == MaxVersion \in Nat \ {0} /\ MaxCalls \in Nat

NoRecord == [from |-> 0, to |-> 0]
Invocation == 0..MaxCalls  \* the user's, then the nested ones

VARIABLES
  published,  \* newest version on crates.io
  inPlace,    \* `cargo install` replaces the binary that is running
  binary,     \* version of the file current_exe names
  wants, dry, \* the Rakefile's `update`; the user's --dry-run
  inv, own,   \* the process: its invocation and version,
  told, pre,  \*   RAKE_SELF_UPDATED and pre_updates,
  latest,     \*   the version looked up,
  mpc, code,  \*   where `run` is and how the last process ended
  waiting,    \* the processes that wait for this one
  calls,      \* nested invocations so far
  began, ran, \* history, per invocation: starts of its targets, how they ended,
  updated,    \*   its last self-update,
  summaries   \* and what the summaries say of self-updates

world == <<published, inPlace, binary, wants, dry>>
process == <<inv, own, told, pre, latest>>
story == <<began, ran, updated, summaries>>
mainVars == <<world, process, mpc, code, waiting, calls, story>>
vars == <<toolchainVars, mainVars>>

Init ==
  /\ ToolchainInit
  /\ published = 1 /\ inPlace \in BOOLEAN /\ binary = 1
  /\ wants \in BOOLEAN /\ dry \in BOOLEAN
  /\ inv = 0 /\ own = 1 /\ told = NoRecord /\ pre = NoRecord /\ latest = 0
  /\ mpc = "start" /\ code = "none" /\ waiting = <<>> /\ calls = 0
  /\ began = [i \in Invocation |-> 0] /\ ran = [i \in Invocation |-> "none"]
  /\ updated = [i \in Invocation |-> NoRecord] /\ summaries = {}

-----------------------------------------------------------------------------
(* Start-up.                                                               *)

\* A dry run needs no license and no toolchain; nothing will be executed.
StartDry ==
  /\ mpc = "start" /\ dry /\ pre' = told /\ mpc' = "run"
  /\ UNCHANGED <<toolchainVars, world, inv, own, told, latest, code, waiting, calls,
                 story>>

\* read_self_update_env, then load_license, which may refuse RAKE_LICENSE.
Start ==
  /\ mpc = "start" /\ ~dry /\ pre' = told
  /\ \/ mpc' = "toolchain" /\ UNCHANGED code
     \/ mpc' = "exit" /\ code' = "failed"
  /\ UNCHANGED <<toolchainVars, world, inv, own, told, latest, waiting, calls, story>>

InToolchain(action) == mpc = "toolchain" /\ action /\ UNCHANGED mainVars

ToolchainRefused ==
  /\ mpc = "toolchain" /\ step \in {"missing", "failed"}
  /\ mpc' = "exit" /\ code' = "failed"
  /\ UNCHANGED <<toolchainVars, world, process, waiting, calls, story>>

\* plan_name_width refuses what cannot be planned, before anything is installed.
PlanAhead ==
  /\ mpc = "toolchain" /\ step = "ready"
  /\ \/ mpc' = (IF wants THEN "check" ELSE "run") /\ UNCHANGED code
     \/ mpc' = "exit" /\ code' = "failed"
  /\ UNCHANGED <<toolchainVars, world, process, waiting, calls, story>>

(* ensure_self_update.  A failed or empty lookup keeps the current version. *)

\* Fault: a version that is not newer is installed, too.
FindNewerOrSame ==
  /\ mpc = "check" /\ published >= own /\ latest' = published /\ mpc' = "install"
  /\ UNCHANGED <<toolchainVars, world, inv, own, told, pre, code, waiting, calls, story>>

FindNewer ==
  /\ mpc = "check" /\ published > own /\ latest' = published /\ mpc' = "install"
  /\ UNCHANGED <<toolchainVars, world, inv, own, told, pre, code, waiting, calls, story>>

KeepCurrent ==
  /\ mpc = "check" /\ mpc' = "run"
  /\ UNCHANGED <<toolchainVars, world, process, code, waiting, calls, story>>

\* Fault: the record is not handed over.
InstallUntold ==
  /\ mpc = "install" /\ mpc' = "relaunch"
  /\ binary' = IF inPlace THEN published ELSE binary
  /\ updated' = [updated EXCEPT ![inv] = [from |-> own, to |-> latest]]
  /\ UNCHANGED <<toolchainVars, published, inPlace, wants, dry, process, code, waiting,
                 calls, began, ran, summaries>>

\* cargo installs what is newest by now, which may be newer than what was found;
\* write_self_update_env puts the record into the environment.
InstallSelf ==
  /\ mpc = "install" /\ mpc' = "relaunch"
  /\ binary' = IF inPlace THEN published ELSE binary
  /\ told' = [from |-> own, to |-> latest]
  /\ updated' = [updated EXCEPT ![inv] = told']
  /\ UNCHANGED <<toolchainVars, published, inPlace, wants, dry, inv, own, pre, latest,
                 code, waiting, calls, began, ran, summaries>>

InstallSelfFails ==
  /\ mpc = "install" /\ mpc' = "exit" /\ code' = "failed"
  /\ UNCHANGED <<toolchainVars, world, process, waiting, calls, story>>

-----------------------------------------------------------------------------
(* A new process, of the binary as it is now, inherits the environment.     *)

Frame(kind) ==
  [kind |-> kind, inv |-> inv, own |-> own, told |-> told, pre |-> pre,
   asked |-> asked, path |-> path, pin |-> pin]

Launch(kind) ==
  /\ Len(waiting) < MaxWaiting /\ waiting' = Append(waiting, Frame(kind))
  /\ own' = binary /\ mpc' = "start" /\ step' = "probe"
  /\ UNCHANGED <<place, machine, environ, talk, world, told, pre, latest, code,
                 story>>

Relaunch ==
  mpc = "relaunch" /\ Launch("relaunch") /\ UNCHANGED <<asked, inv, calls>>

\* current_exe names nothing that can be launched.
RelaunchFails ==
  /\ mpc = "relaunch" /\ mpc' = "exit" /\ code' = "failed"
  /\ UNCHANGED <<toolchainVars, world, process, waiting, calls, story>>

\* run_licensed; RakeRun is about what happens in there.
RunTargets ==
  /\ mpc = "run" /\ mpc' = "running" /\ began' = [began EXCEPT ![inv] = @ + 1]
  /\ UNCHANGED <<toolchainVars, world, process, code, waiting, calls, ran, updated,
                 summaries>>

\* A command of the targets is `cargo rake`, of this project or another one.
Nest ==
  /\ mpc = "running" /\ ~dry /\ calls < MaxCalls /\ Launch("nested")
  /\ calls' = calls + 1 /\ inv' = calls + 1 /\ asked' \in Channel \cup {"none"}

\* The targets have ended: a summary of the updates, unless the run is an Err.
Finish ==
  /\ mpc = "running" /\ mpc' = "exit" /\ code' \in {"ok", "failed"}
  /\ ran' = [ran EXCEPT ![inv] = code']
  /\ summaries' \in {summaries \cup {[inv |-> inv, record |-> pre]}}
       \cup IF code' = "failed" THEN {summaries} ELSE {}
  /\ UNCHANGED <<toolchainVars, world, process, waiting, calls, began, updated>>

Waiter == waiting[Len(waiting)]

Resume ==
  /\ waiting' = SubSeq(waiting, 1, Len(waiting) - 1)
  /\ inv' = Waiter.inv /\ own' = Waiter.own /\ told' = Waiter.told
  /\ pre' = Waiter.pre /\ asked' = Waiter.asked /\ path' = Waiter.path
  /\ pin' = Waiter.pin /\ step' = "ready"
  /\ UNCHANGED <<place, machine, talk, world, latest, code, calls, story>>

\* Fault: the relaunching process goes on when its child has ended.
RelaunchGoesOn ==
  mpc = "exit" /\ waiting # <<>> /\ Waiter.kind = "relaunch" /\ mpc' = "run" /\ Resume

\* `relaunch` exits with its child's code.
RelaunchEnds ==
  mpc = "exit" /\ waiting # <<>> /\ Waiter.kind = "relaunch" /\ mpc' = "exit" /\ Resume

\* A nested run has ended: the next command, or the end of the chain.
NestedEnds ==
  mpc = "exit" /\ waiting # <<>> /\ Waiter.kind = "nested" /\ mpc' = "running" /\ Resume

Publish ==
  /\ published < MaxVersion /\ published' = published + 1
  /\ UNCHANGED <<toolchainVars, inPlace, binary, wants, dry, process, mpc, code, waiting,
                 calls, story>>

OwnStep ==
  \/ StartDry \/ Start \/ ToolchainRefused \/ PlanAhead \/ Relaunch \/ RelaunchFails
  \/ RunTargets \/ RelaunchEnds \/ NestedEnds \/ InToolchain(ToolchainSteps)
CallReturns ==
  \/ FindNewer \/ KeepCurrent \/ InstallSelf \/ InstallSelfFails \/ Finish
  \/ InToolchain(Installs)

Next == OwnStep \/ CallReturns \/ InToolchain(Answers) \/ Nest \/ Publish

\* Nothing makes crates.io, an installer or a command answer: ureq has no timeout
\* here.  That they do is the hypothesis CallsReturn.
Spec == Init /\ [][Next]_vars /\ WF_vars(OwnStep)
CallsReturn == WF_vars(CallReturns)

-----------------------------------------------------------------------------
(* Properties.                                                             *)

Over == mpc = "exit" /\ (waiting = <<>> \/ Waiter.kind = "nested")

Record == [from : 0..MaxVersion, to : 0..MaxVersion]
FrameRecord ==
  [kind : {"relaunch", "nested"}, inv : Invocation, own : 1..MaxVersion,
   told : Record, pre : Record, asked : Channel \cup {"none"}, path : BOOLEAN,
   pin : Channel \cup {"none"}]

\* Every variable of the start-up holds a value of its kind.
TypeOK ==
  /\ {terminal, home, distro, rustup, path, inPlace, wants, dry} \subseteq BOOLEAN
  /\ channels \subseteq Channel /\ (~rustup => channels = {})
  /\ asked \in Channel \cup {"none"} /\ pin \in channels \cup {"none"}
  /\ step \in {"probe", "bootstrap", "channel", "answer", "install", "recheck",
               "ready", "missing", "failed"}
  /\ question \in {"none", "rust", "channel"} /\ granted \subseteq agreed
  /\ agreed \subseteq Channel
  /\ published \in 1..MaxVersion /\ binary \in 1..published /\ own \in 1..published
  /\ inv \in Invocation /\ told \in Record /\ pre \in Record /\ latest \in 0..published
  /\ mpc \in {"start", "toolchain", "check", "install", "relaunch", "run", "running",
              "exit"}
  /\ code \in {"none", "ok", "failed"} /\ waiting \in Seq(FrameRecord)
  /\ calls \in 0..MaxCalls /\ began \in [Invocation -> Nat]
  /\ ran \in [Invocation -> {"none", "ok", "failed"}]
  /\ updated \in [Invocation -> Record]
  /\ summaries \subseteq [inv : Invocation, record : Record]

\* Whoever called is told how the targets ended, through any number of relaunched
\* processes: exit 0 only if they ran, in one process, and ended well.
ExitTellsRun ==
  /\ \A i \in Invocation : began[i] <= 1
  /\ Over => code = (IF began[inv] = 0 THEN "failed" ELSE ran[inv])

\* A relaunched process is of a newer version than the one that waits for it, when
\* `cargo install` replaces the running binary; so the chain of them is finite.
RelaunchAdvances ==
  inPlace =>
    \A n \in 1..Len(waiting) : waiting[n].kind = "relaunch" =>
      waiting[n].own < (IF n = Len(waiting) THEN own ELSE waiting[n + 1].own)

\* The summary of an invocation that has updated itself names its last update.
UpdateReported ==
  \A s \in summaries : updated[s.inv] # NoRecord => s.record = updated[s.inv]

\* Without a terminal the start-up never waits for a user: it runs or gives up.
UnattendedEnds ==
  ~terminal /\ inPlace /\ CallsReturn => <>(mpc = "exit" /\ waiting = <<>>)

(* A statement of the repository that a run refutes.                       *)

\* README.md, Self-Update: the newly installed version handles the actual work.
NewVersionDoesTheWork ==
  mpc = "running" /\ updated[inv] # NoRecord => own >= updated[inv].to
=============================================================================
