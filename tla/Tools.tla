-------------------------------- MODULE Tools --------------------------------
(***************************************************************************)
(* ToolTable::ensure (librake, tool.rs): a run probes each tool it needs,   *)
(* and installs or updates it by the command the Rakefile declares.  Several *)
(* runs share the machine, new versions are published, the user installs    *)
(* and removes tools by hand, and a run may be killed while the installer   *)
(* it waits for goes on.  A version is a number; 0 means not there.         *)
(***************************************************************************)
EXTENDS Naturals, Sequences

CONSTANTS
  Run,          \* runs, one after another or at the same time
  Tool,
  Declared,     \* the Rakefile: [Tool -> [category, update, install]]
  Works,        \* the sequences of tools a run may need
  Nature,       \* how tools and their installers behave
  MaxVersion,   \* bound: versions published
  MaxMeddling   \* bound: what the user does to the tools by hand

\* `installer` "newest" is `cargo install`; "pinned" names a version, the first;
\* "idle" exits with 0 and does nothing.  `speaks`: check prints a version.
ASSUME ToolsAssumption ==
  /\ MaxVersion \in Nat \ {0} /\ MaxMeddling \in Nat
  /\ \A t \in Tool : /\ Declared[t].category \in {"cargo", "os", "fish"}
                     /\ Declared[t].update \in BOOLEAN /\ Declared[t].install \in BOOLEAN
  /\ Works \subseteq Seq(Tool)
  /\ Nature \subseteq [Tool -> [installer : {"newest", "pinned", "idle"}, speaks : BOOLEAN]]

VARIABLES
  installed,  \* version of each tool on the machine
  registry,   \* crates.io: [stable, newest] of each tool
  nature, meddled,
  at,         \* where each run is in `ensure`
  work,       \* the tools it needs
  queue,      \* the tools it still has to ensure
  seen,       \*   for the first of them: the version probed,
  latest,     \*   the version looked up
  child,      \* the tool whose installer is at work for this run
  records     \* its update records

machine == <<installed, registry, nature, meddled>>
runs == <<at, work, queue, seen, latest, child, records>>
toolVars == <<machine, runs>>

Ended == {"ready", "failed", "killed"}
Record(t, from, to) == [tool |-> t, from |-> from, to |-> to]

ToolsInit ==
  /\ installed \in [Tool -> {0, 1}] /\ nature \in Nature /\ meddled = 0
  /\ registry \in [Tool -> {[stable |-> s, newest |-> 1] : s \in {0, 1}}]
  /\ at = [p \in Run |-> "idle"] /\ work = [p \in Run |-> <<>>]
  /\ queue = [p \in Run |-> <<>>]
  /\ seen = [p \in Run |-> 0] /\ latest = [p \in Run |-> 0]
  /\ child = [p \in Run |-> <<>>] /\ records = [p \in Run |-> <<>>]

StartTools(p, tools) ==
  /\ at[p] = "idle" /\ at' = [at EXCEPT ![p] = "probe"]
  /\ work' = [work EXCEPT ![p] = tools] /\ queue' = [queue EXCEPT ![p] = tools]
  /\ UNCHANGED <<machine, seen, latest, child, records>>

AllReady(p) ==
  /\ at[p] = "probe" /\ queue[p] = <<>> /\ at' = [at EXCEPT ![p] = "ready"]
  /\ UNCHANGED <<machine, work, queue, seen, latest, child, records>>

-----------------------------------------------------------------------------
(* ensure_cargo, ensure_os and ensure_fish.                                *)

Needed(p) == Head(queue[p])
Probing(p) == at[p] = "probe" /\ queue[p] # <<>>

\* `update` is for cargo tools; a version check prints nothing of is kept.
Comparable(t) ==
  Declared[t].category = "cargo" /\ Declared[t].update /\ nature[t].speaks

\* What the check command says; a check that cannot be launched says no.
\* Fault: whether it exits with 0 is not looked at.
FoundIfLaunched(t) == TRUE
Found(t) == installed[t] # 0

Pass(p) == queue' = [queue EXCEPT ![p] = Tail(@)] /\ at' = [at EXCEPT ![p] = "probe"]
Go(p, next) == at' = [at EXCEPT ![p] = next] /\ UNCHANGED queue
See(p) == seen' = [seen EXCEPT ![p] = installed[Needed(p)]]

Present(p) ==
  /\ Probing(p) /\ Found(Needed(p)) /\ ~Comparable(Needed(p)) /\ See(p) /\ Pass(p)
  /\ UNCHANGED <<machine, work, latest, child, records>>

Compare(p) ==
  /\ Probing(p) /\ Found(Needed(p)) /\ Comparable(Needed(p)) /\ See(p) /\ Go(p, "lookup")
  /\ UNCHANGED <<machine, work, latest, child, records>>

\* A fish function cannot be installed, an os tool only by a declared `install`.
InstallDeclared(t) == Declared[t].category # "fish" /\ Declared[t].install

RequiredToolMissing(p) ==
  /\ Probing(p) /\ ~Found(Needed(p)) /\ ~InstallDeclared(Needed(p))
  /\ See(p) /\ Go(p, "failed")
  /\ UNCHANGED <<machine, work, latest, child, records>>

Absent(p) ==
  /\ Probing(p) /\ ~Found(Needed(p)) /\ InstallDeclared(Needed(p))
  /\ See(p) /\ latest' = [latest EXCEPT ![p] = 0] /\ Go(p, "install")
  /\ UNCHANGED <<machine, work, child, records>>

-----------------------------------------------------------------------------
(* update_if_newer: a stable release is preferred; a failed lookup, or one  *)
(* without a version, keeps what is there.                                 *)

PickVersion(t) == IF registry[t].stable # 0 THEN registry[t].stable ELSE registry[t].newest

LookupFails(p) ==
  /\ at[p] = "lookup" /\ Pass(p)
  /\ UNCHANGED <<machine, work, seen, latest, child, records>>

\* Fault: what is published is installed again.
NewerOrSame(found, have) == found >= have
Newer(found, have) == found > have

LookupAnswers(p) ==
  /\ at[p] = "lookup"
  /\ IF Newer(PickVersion(Needed(p)), seen[p])
       THEN /\ latest' = [latest EXCEPT ![p] = PickVersion(Needed(p))]
            /\ Go(p, "install")
       ELSE Pass(p) /\ UNCHANGED latest
  /\ UNCHANGED <<machine, work, seen, child, records>>

-----------------------------------------------------------------------------
(* run_install: the run waits for the installer, a process of its own.      *)

InstallSpawnFails(p) ==
  /\ at[p] = "install" /\ child[p] = <<>> /\ Go(p, "failed")
  /\ UNCHANGED <<machine, work, seen, latest, child, records>>

StartInstall(p) ==
  /\ at[p] = "install" /\ child[p] = <<>> /\ child' = [child EXCEPT ![p] = <<Needed(p)>>]
  /\ UNCHANGED <<machine, at, work, queue, seen, latest, records>>

Effect(t) ==
  IF nature[t].installer = "newest" THEN PickVersion(t)
  ELSE IF nature[t].installer = "pinned" THEN 1 ELSE installed[t]

\* Fault: the tool is probed once more.
InstallDoneProbeAgain(p) == Go(p, "probe") /\ UNCHANGED records
InstallDone(p) ==
  /\ Pass(p) /\ records' = [records EXCEPT ![p] = Append(@, Record(Needed(p), seen[p], latest[p]))]

\* Fault: how the installer ended is not looked at.
InstallFailedAnyway(p) == InstallDone(p)
InstallFailed(p) ==
  /\ at' = [at EXCEPT ![p] = "failed"] /\ UNCHANGED <<queue, records>>

\* Nobody waits for the installer of a run that was killed.
Unawaited(p) == at[p] # "install" /\ UNCHANGED <<at, queue, records>>

InstallerSucceeds(p) ==
  /\ child[p] # <<>> /\ child' = [child EXCEPT ![p] = <<>>]
  /\ installed' = [installed EXCEPT ![child[p][1]] = Effect(child[p][1])]
  /\ (at[p] = "install" /\ InstallDone(p)) \/ Unawaited(p)
  /\ UNCHANGED <<registry, nature, meddled, work, seen, latest>>

\* What an installer that fails leaves behind is its own affair.
InstallerFails(p) ==
  /\ child[p] # <<>> /\ child' = [child EXCEPT ![p] = <<>>]
  /\ \E v \in {installed[child[p][1]], Effect(child[p][1])} :
       installed' = [installed EXCEPT ![child[p][1]] = v]
  /\ (at[p] = "install" /\ InstallFailed(p)) \/ Unawaited(p)
  /\ UNCHANGED <<registry, nature, meddled, work, seen, latest>>

\* A signal, or the safety net; the installer is not killed with its run.
KillRun(p) ==
  /\ at[p] \in {"probe", "lookup", "install"} /\ Go(p, "killed")
  /\ UNCHANGED <<machine, work, seen, latest, child, records>>

-----------------------------------------------------------------------------
(* The world.                                                              *)

\* Releases come in order and stay: none is yanked, none is below an earlier one.
Publish(t, stable) ==
  /\ registry[t].newest < MaxVersion
  /\ registry' = [registry EXCEPT ![t].newest = @ + 1,
                    ![t].stable = IF stable THEN registry[t].newest + 1 ELSE @]
  /\ UNCHANGED <<installed, nature, meddled, runs>>

Meddle(t, version) ==
  /\ meddled < MaxMeddling /\ meddled' = meddled + 1
  /\ installed' = [installed EXCEPT ![t] = version]
  /\ UNCHANGED <<registry, nature, runs>>

\* Steps that wait for a check command or for crates.io, without a timeout, and the
\* others, for which a run waits for nobody.
CheckReturns(p) == Present(p) \/ Compare(p) \/ RequiredToolMissing(p) \/ Absent(p)
LookupReturns(p) == LookupFails(p) \/ LookupAnswers(p)
ToolOwnStep(p) == AllReady(p) \/ InstallSpawnFails(p) \/ StartInstall(p)

EnsureStep(p) == ToolOwnStep(p) \/ CheckReturns(p) \/ LookupReturns(p)
InstallerStep(p) == InstallerSucceeds(p) \/ InstallerFails(p)
ToolWorld ==
  \/ \E t \in Tool, stable \in BOOLEAN : Publish(t, stable)
  \/ \E t \in Tool : \E version \in {0, registry[t].newest} : Meddle(t, version)

-----------------------------------------------------------------------------
(* Properties.                                                             *)

\* No tool is installed twice: when a run's installer succeeds with a tool nobody
\* else has touched since this run probed it, the version has gone up.  An install
\* command that names an old version, or does nothing, is the Rakefile's own affair.
InstallIsNeeded ==
  [][\A p \in Run :
       LET t == Needed(p) IN
       records'[p] # records[p] /\ nature[t].installer = "newest" /\ installed[t] = seen[p] =>
         installed'[t] > installed[t]]_toolVars

\* The summary is true whatever other runs, their orphaned installers and new
\* releases do meanwhile: an update goes up, and unless the user removed the tool, at
\* least the version named is there.  (A release that is withdrawn between the lookup
\* and the install is not modelled: cargo then installs an older one than recorded.)
RecordsTrue ==
  \A p \in Run : \A n \in 1..Len(records[p]) :
    LET r == records[p][n] IN
    /\ r.from # 0 => r.from < r.to
    /\ meddled = 0 /\ nature[r.tool].installer = "newest" =>
         installed[r.tool] > 0 /\ installed[r.tool] >= r.to

\* A run that got past its tools has them.  The one exception is tool.rs:300: a tool
\* is not probed again after an installer that exits with 0.
ToolsAreThere ==
  \A p \in Run : at[p] = "ready" /\ meddled = 0 =>
    \A n \in 1..Len(work[p]) :
      \/ installed[work[p][n]] # 0
      \/ nature[work[p][n]].installer = "idle" /\ InstallDeclared(work[p][n])
=============================================================================
