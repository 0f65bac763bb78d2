# Formal models of cargo-rake

cargo-rake is a task runner: a `Rakefile.toml` names *targets* with dependencies,
external *tools* and *commands*; `rake <target>…` plans the targets and runs their
commands one after another. This directory holds TLA+ models of the program, the
TLC configurations that check them, and proofs for TLAPS. File and line numbers
refer to `src/`; `lib:` below stands for `src/librake/src/`.

    tlc -workers 2 -config RunChains.cfg MCRakeRunChain   # one run
    tlapm RakeRunProofs.tla                               # one set of proofs

## 1. Inventory of the system

| Component | State it keeps | Operations | Interacts with |
|---|---|---|---|
| Run executor (`lib:rakefile.rs` 1170–1379, 1598–1771, 1955–2014) | position in plan, target and command; set of ensured tools; last status; update records; the current child | `run_impl`, `run_steps`, `ensure_tool_with_events`, `run_one`, `spawn_resolved` | calls the planner and the tool table; polls the cancel flag; emits events; spawns children |
| Signal handling (`lib:signal.rs`) | `HANDLING`, `EXIT_CODE`, `CANCEL_REQUESTED` (atomics), `RUN_STATE` (mutex) | `install`, `handle`, `begin_run`, `end_run`, `cancel_requested`, `resolved_exit_code`, safety net | a thread of its own; shares the atomics with the executor; emits `Cancelled`; exits the process |
| Execution planner (`lib:graph.rs` 142–313) | none between calls | `execution_order_with_skips`, `build_order`, `order_visit` | gets validated targets, gives the executor its steps |
| Graph validation (`lib:graph.rs` 23–113) | none between calls | `validate`, `detect_cycle` | called when a Rakefile is loaded |
| Event stream (`lib:lifecycle.rs`) | run id, the sink, a persisted client id | `Emitter::emit`, `resolve_client_id` | written by executor and signal thread, UDP to any listener |
| Rakefile loading (`lib:rakefile.rs` 288–386, 579–600, 735–824, 1401–1591; `lib:local_config.rs`) | the parsed Rakefile | parse, merge the local layer, resolve platform variants, split `^name`, validate, choose shell bodies | feeds planner and executor |
| Tool table (`lib:tool.rs`) | what is installed on the machine | `ensure` (probe, look up, install, update), `validate` | called by the executor; runs installers; asks crates.io |
| Toolchain (`lib:toolchain.rs`) | `PATH`, `RUSTUP_TOOLCHAIN` of the process | `ensure_rust_toolchain`, bootstrap, `ensure_channel` | before the run; prompts the user |
| License (`lib:license.rs`) | the license file, `RAKE_LICENSE` | activate, remove, load, info, basic | gates the event stream |
| Self-update (`cargo-rake/src/main.rs` 298–341, 368–455; `lib:tool.rs` 356–422) | `RAKE_SELF_UPDATED`, the installed binary | check, install, relaunch | replaces the process before a run |
| Command line, listing, error texts | none | parsing and printing | — |

### What is hard about it

* **Two threads and a child.** The main thread walks the plan while the signal
  thread may, between any two of its steps, store a code, send an event, raise a
  flag and arm a timer that exits the process. The child ends when it likes.
* **Several places say how a run ended**: the `AfterTarget` and `AfterAll` events,
  the `RunReport`, the exit code, and the signal thread's exit. They are computed
  from different variables at different moments.
* **Errors jump.** A `?` in the middle of `run_one` leaves two loops and skips the
  events that would have closed them.
* **Skips, roots and embedded skips overlap** in the planner, which walks the
  graph twice and once per root.
* **Time**: a 30 ms poll against a 300 ms safety net.
* **A process replaces itself.** Before the first target the program may install a
  toolchain, then a newer version of itself, and hand the work to a process of whatever
  binary is there now. That process does it all again, with an environment it has
  inherited, and so does a `cargo rake` among the commands.
* **Files and tools have several writers and no lock.** Two terminals may activate, remove
  and read a license, draw a client id, or install the same tool at the same time; each
  may be killed between truncating a file and writing it, while the installer it has
  started goes on alone.
* **Loading is a pipeline in which each step undoes an assumption of the one before**: the
  merge may replace a table by a scalar, a variant may take a target away that others name,
  a skip may leave a target with nothing to do.

What makes each component correct:

* executor: exactly the runnable commands of the plan, in its order, none after a
  failure that is not tolerated, none before its tools; exit code and events say so;
* signals: one signal wins and is reported everywhere; the process ends; at most
  one command starts after the flag is up; the running child does not outlive it;
* planner: every target after its dependencies, all and only what the roots need
  outside the skips; a refusal only for a skip that would leave a hole;
* loading: the personal layer changes what it mentions and nothing else; each target is, on a
  host, there or set aside; the graph is refused exactly for a cycle, a dangling or a contradictory
  reference, and the cycle reported is one; what is accepted has tools that can be ensured and
  commands that can run somewhere;
* toolchain: go on only with a cargo that works and the channel the Rakefile names;
  install nothing without a yes, ask nobody when there is no terminal;
* self-update: whatever the chain of processes, the targets run in one of them, the
  caller gets its exit code, the summary tells of the update, and the chain is finite;
* tools: a run that goes on has its tools; nothing is installed that is already there;
  the summary's update records are true;
* license and client id: the environment decides before the file, a broken file stops no run, only
  a genuine key or a confirmed removal changes it; one machine has one name.

`PROJECT.json` lists the hazards one by one with their lines and the properties
that cover them.

## 2. Modules

| Module | Models | Checked by |
|---|---|---|
| `RakeRun` | executor, signal handling, events | `RunChains`, `RunSignals`, two refutations |
| `RakeTimed` | `RakeRun` with the two delays | `RunTimed`, `NoCommandLeftRunning` |
| `CommandChain` | abstract: an agenda of commands run in order | (refined by `RakeRun`) |
| `RakeRunChain` | the refinement mapping | `RunChains`, through `MCRakeRunChain` |
| `Planner` | `execution_order_with_skips` | `PlannerRun`, `ExcludedDependencyFails` |
| `Toml` | a TOML value: tables, leaves, and the paths through them | through `RakefileLoad` |
| `LocalConfig` | `merge`, and what a merge patch is | through `RakefileLoad` |
| `Shell` | what a command needs, whether and by which shell it runs | through `RakefileLoad` |
| `GraphCheck` | `graph::validate`, `detect_cycle` | through `RakefileLoad` |
| `RakefileLoad` | `from_path` to the first command; composes `LocalConfig`, `GraphCheck` and `Shell` | `LoadRun` |
| `Toolchain` | `ensure_rust_toolchain` in one process, on a machine that outlives it | through `SelfUpdate` |
| `SelfUpdate` | `run` of `cargo-rake/src/main.rs` over relaunched and nested processes; composes `Toolchain` | `StartUp`, `NewVersionDoesTheWork` |
| `UserFiles` | license commands, license loading, client id, over shared files | through `Machine` |
| `Tools` | `ToolTable::ensure` of several runs over shared tools | through `Machine` |
| `Machine` | commands of several terminals: files, then tools | `MachineRun` |
| `MC…` | the instances TLC is given | |
| `RakeRunProofs`, `RunOutcomeProofs`, `RunRefinementProofs`, `PlannerProofs`, `RakefileLoadProofs`, `SelfUpdateProofs`, `MachineProofs` | theorems | TLAPS |
| `Recursion` | lemmas: induction over numbers, functions defined by recursion on `0..N`, measures that fall | TLAPS |

### RakeRun

A step is the code between two points another thread can observe: an event, an
atomic, the `RUN_STATE` mutex, a system call. `pc` names the point the main thread
is at, `hpc` the signal thread's.

| Variables | In the code |
|---|---|
| `job` | the resolved plan and what the run reads of targets, commands and license |
| `si`, `ti`, `ci` | the loop variables over steps, tools and commands; `ci = 0` while the target's own tools are ensured |
| `ensured`, `last`, `stop`, `status`, `updates` | the locals of `run_steps` and `run_one` |
| `result` | how `run_steps` returned, then which branch of `run_impl` replaced it |
| `child` | the process `spawn_resolved` polls |
| `runActive`, `exitCode`, `cancel`, `handling` | `RUN_STATE`, `EXIT_CODE`, `CANCEL_REQUESTED`, `HANDLING` |
| `sig`, `snapshot` | the locals of `handle` |
| `pending`, `installed` | signals caught and not read; the handler is in place |
| `net`, `proc` | the safety-net thread waits; the process's exit code |
| `events` | what was sent, in order |
| `ran`, `ready`, `late` | history: commands attempted, tools ensured with success, spawns after the flag |

| Code | Actions |
|---|---|
| `run_impl`, before | `Install`, `BeforeAll`, `BeginRun` |
| `run_steps` | `SkipStep`, `EnterTarget`, `BeforeTarget`, `AfterTarget`, `StepsDone` |
| `ensure_tool_with_events` | `ToolKnown`, `BeforeTool`, `ToolReady`, `ToolFails` |
| `run_one` | `SkipCommand`, `EnterCommand`, `NoShellVariant`, `DryCommand`, `BeforeCommand`, `AfterCommand`, `StopChain`, `ContinueChain`, `CommandsDone` |
| `spawn_resolved` | `SpawnFails`, `Spawn`, `PollExited`, `WaitFails`, `PollCancelled`, `PollSleeps`, `Wake`, `Kill` |
| `run_impl` after, `main` | `CheckCancelled`, `CheckFinished`, `AfterAll`, `EndRun`, `Exit` |
| `handle` | `IgnoreSignal`, `HandleSignal`, `StoreCode`, `SnapshotRun`, `EmitCancelled`, `FlagCancel`, `ArmSafetyNet` |
| safety-net thread | `SafetyNet` |
| the world | `ChildExits`, `Raise` |

Abstractions: an exit code is 0 (`ok`), some other (`failed`) or none (`killed` by a
signal); a signal name stands for its code 128 + n; durations, texts and the datagram
format are left out; a tool's `ensure` is one step that succeeds, with or without
an update record, or fails. Events are kept in one sequence, in the order in which the
two threads call `emit` (delivery by UDP is not modelled). On Windows
every console event goes through the same `handle` under one name, which is the model with one
signal; where no handler can be installed it is the model in which none is raised.

### RakeTimed

Adds `nap` and `fuse`, what is left of `spawn_resolved`'s sleep and of the safety
net's. `Tick` lets time pass only when every thread sleeps or waits, an idealised
scheduler: the properties of this module speak of the normal case, and `RakeRun`
of every timing.

### CommandChain and RakeRunChain

`CommandChain` is what a caller of `rake` relies on: commands of an agenda are
started in order, one at a time, nothing after a stop, exit 0 only when the agenda
was completed. `RakeRunChain` maps the run to it: the agenda is the plan
flattened to its runnable commands, by the recursive functions `OnHost` (the commands of a step) and
`Through` (the steps one after another); the chain is stopped once a command has failed
for good, the flag was seen or an error is on its way up.

### Planner

The recursion of `order_visit` is an explicit stack of calls under way; the code's
`in_progress` is the set of the nodes on it. It is compared with a definition that knows no
order of visiting: reachability is the least set closed under dependencies (`Reach`), and a graph is
acyclic when its targets can be ranked (`Acyclic`). The planner is also given cyclic
graphs, which the code claims to survive (`lib:graph.rs` 283–285) although loading refuses
them. `from` is history: where in `order` the current root's walk began.

| Code | Actions |
|---|---|
| the names of the command line | `NamesKnown`, `NamesUnknown` |
| `build_order`, twice | `StartRoot`, `FullDone`, `KeptDone` |
| `order_visit` | `Descend`, `Finish` |
| embedded skips, eligibility, steps | `CollectSkips`, `SkipRefused`, `MakeSteps` |

### RakefileLoad, with Toml, LocalConfig, GraphCheck and Shell

Loading is sequential; `phase` names the part that goes on and `pos` the loop index in it. The first
error ends it and becomes `verdict`. A TOML value is a table with its keys in order (the order decides
which of two errors is found), or a leaf (`Toml`); `LocalConfig` merges such values as the code does, and
states separately what a merge patch is, path by path. The code's recursion over two values is a function on the
paths both have; a path has at most `Depth` keys, a constant, and a file nests no deeper.
`DocumentOK` says what a parsed file looks like at every path: a table has each of its keys
once, and a leaf of a kind holds what that kind holds. `Shell` has what a command may contain
and what the shells around the process leave in its environment. `GraphCheck` has the two loops of
`graph::validate`, and `detect_cycle` with an explicit stack.

| Variables | In the code |
|---|---|
| `base`, `local`, `host`, `user` | the two files, the platform, the environment |
| `doc` | the `toml::Value`, before and after the merge |
| `resolved`, `graph.excluded` | `doc["target"]` as `resolve_platform_variants` changes it; the names it takes out |
| `targets`, `graph` | the typed targets; their names, dependencies and skips |
| `visited`, `stack`, `cycle` | the locals of `detect_cycle` |
| `fates` | what `run_one` would do with each command |

| Code | Actions |
|---|---|
| `from_path_with_host`, `local_config::load` | `ReadRakefile`, `ReadLocal` |
| `resolve_platform_variants` | `ResolveTarget`, `RefuseVariant`, `VariantsDone` |
| deserialisation, `normalize_depends_on` | `Parse` |
| `Rakefile::validate`, `validate_command` | `CheckHeader`, `CheckTarget`, `TargetsDone` |
| `graph::validate`, `detect_cycle` | `CheckReferences`, `ReferencesDone`, `StartTarget`, `Descend`, `ReportCycle`, `Finish`, `Accept` |
| `tool::validate` | `RefuseTools`, `AcceptRakefile` |
| `skip_reason`, `detect_shell_family`, `invocation` | `RunCommands` |

Abstractions: TOML text either is a value or is malformed; a deserialisation error is one error
whatever the field; a name is a model value, `^name` a record; of the tokens for OS, family and architecture
a few stand for all (named in `Shell`). A tool's entry is one leaf, which the layer above
replaces; the code merges its fields like those of any table, which changes what a layer with one field makes of a
declared tool and none of the properties, where such an entry is one more that is or is not typed. Programs and bodies are there, blank or absent.

### Toolchain and SelfUpdate

`SelfUpdate` EXTENDS `Toolchain`: `InToolchain` performs one of its steps while `mpc`
is there. One process runs at a time, since whoever spawns another one waits for it; the
variables of `process`, and `asked`, `path` and `pin`, are those of the process that
runs, and the stack `waiting` keeps those of the others.

| Variables | In the code |
|---|---|
| `terminal`, `home`, `distro` | stdin is interactive; `HOME` is set; the first cargo on `PATH` is not of rustup |
| `rustup`, `channels` | what `rustup toolchain list` would show |
| `asked`, `wants`, `dry` | `toolchain` and `update` of the Rakefile, `--dry-run` |
| `path`, `pin`, `told` | the environment: `~/.cargo/bin` on `PATH`, `RUSTUP_TOOLCHAIN`, `RAKE_SELF_UPDATED` |
| `step`, `question` | where `ensure_rust_toolchain` is, and which of its two prompts it shows |
| `mpc`, `code`, `pre`, `latest` | where `run` is; the last exit code; `pre_updates`; what crates.io answered |
| `own`, `binary`, `published` | versions: of the process, of the file at `current_exe`, on crates.io |
| `inPlace` | `cargo install` replaces that file |
| `waiting` | processes in `relaunch`, or with a `cargo rake` as their child |
| `agreed`, `granted`, `began`, `ran`, `updated`, `summaries` | history: consents and what came of them, and, per invocation, what has happened |

| Code | Actions |
|---|---|
| `run`, up to the toolchain | `StartDry`, `Start` |
| `ensure_rust_toolchain` | `Probe`, `Refuse`, `AskForRust`, `SayYes`, `SayNo`, `RustInstalled`, `Recheck`, `CheckChannel`, `ChannelInstalled`, `InstallFails` |
| its `?` in `run`, `plan_name_width` | `ToolchainRefused`, `PlanAhead` |
| `ensure_self_update` | `FindNewer`, `KeepCurrent`, `InstallSelf`, `InstallSelfFails` |
| `relaunch` | `Relaunch`, `RelaunchFails`, `RelaunchEnds` |
| `run_licensed` to the exit code | `RunTargets`, `Nest`, `NestedEnds`, `Finish` |
| the world | `Publish` |

Abstractions: a version is a number, and only published versions are installed; `load_license`
refuses or does not; a command that is `cargo rake` shares
the machine, `update` and the binary but may name another channel; processes that are neither
relaunched nor nested and the rename of the binary on Windows are left out. That `cargo install` takes
what is newest when it runs, not what was found, is part of the model. `ensure_self_update` returns
the version it found.

### UserFiles, Tools and Machine

`UserFiles` has several processes, each given one command, over the license file and the client id
file; `Tools` has several runs over the tools of a machine; `Machine` puts them together: a run that has
its license and its name goes on to the tools of its targets. A step is one system call or what lies
between two.

| Variables | In the code |
|---|---|
| `files`, `home`, `named` | the two files under the config directory; whether there is one; whether the machine has a hostname |
| `expired` | what time does to a key |
| `command`, `doing`, `fd` | of each process: arguments and environment, where it is, the file it is writing |
| `granted`, `id` | the key its license comes from; the client id it reports |
| `raced` | history: two processes drew a client id at once |
| `installed`, `registry`, `nature` | the tools on the machine, crates.io, how tools and installers behave |
| `meddled` | how often the user has changed a tool by hand |
| `at`, `work`, `queue` | of each run: where it is in `ensure`, the tools it needs, those still to do |
| `seen`, `latest`, `child`, `records` | the locals of `ensure_cargo` and `update_if_newer`; the installer at work; the update records |

| Code | Actions |
|---|---|
| `run` of `rake/src/main.rs`, up to the license | `Type`, `ReadRakefile` |
| `load_license`; `try_load_payload` | `LicenseFromEnv`, `RefuseRun`, `ReadLicense`; `ShowStatus` |
| `activate_license` | `KeyRefused`, `KeyAccepted`, `OpenLicense`, `WriteLicense`, `LicenseNotSaved` |
| `remove_license` | `LookForLicense`, `Answer`, `DeleteLicense`, `DeleteFails` |
| `resolve_client_id`, `persisted_fallback_client_id` | `NameKnown`, `GenerateClientId`, `OpenClientId`, `WriteClientId`, `ClientIdNotSaved` |
| `ensure_cargo`, `ensure_os`, `ensure_fish` | `Present`, `Compare`, `RequiredToolMissing`, `Absent`, `AllReady` |
| `update_if_newer`, `latest_version` | `LookupFails`, `LookupAnswers` |
| `run_install` | `InstallSpawnFails`, `StartInstall`, `InstallerSucceeds`, `InstallerFails` |
| the world | `KillCommand`, `KillRun`, `Expire`, `Publish`, `Meddle` |

`std::fs::write` is what the operating system makes of it: open and truncate, then write; another process
may write or unlink the file in between, and two texts of different length may mix. A kill may come
between any two steps, and leaves the installer of a run at work. Abstractions: a key is genuine or
not, and its date is in `expired`; a generated name is that of its process; a version is a number,
of which the registry keeps the newest and the newest stable one; `nature` says whether a tool's check
prints a version and whether its install command takes the newest, names a version, or does nothing.
Releases are published in order and stay: one that is yanked between the lookup and the install, or a stable one below an
earlier prerelease, is left out, and `RecordsTrue` and `InstallIsNeeded` say nothing of them.

`RakeRun` takes the ensuring of a tool as one step that succeeds or fails; `Tools` has what is behind it. The
two meet in what `Tools` shows of it: `ToolsAreThere` is what a success means.

## 3. Runs

| Run | Question | Bounds |
|---|---|---|
| `RunChains` | Does the run do what the plan says, and tell the truth about it? | 7 jobs, ≤ 4 steps, 4 commands, 2 tools, one signal at any point |
| `RunSignals` | What do two signals do to a run, and does it end? | one target, a tool, two commands (one tolerant), two signals |
| `RunTimed` | Who ends the run after a signal? | poll 2, net 5 ticks; a tool between two commands |
| `PlannerRun` | Is the plan right? | all 64 acyclic graphs of 4 targets, 3 root lists, 4 skips, 5 embeddings, 7 irregular requests |
| `StartUp` | What happens before the targets, and does the caller learn how they ended? | 2 channels, any machine, 3 published versions, 1 nested run, 3 waiting processes |
| `LoadRun` | What does loading accept, what does it refuse, and what does it make of a file? | see below |
| `MachineRun` | What do several commands do to each other's files and tools? | see below |

Why these are enough: what one step of the executor does depends on the current
command, its tools, the flag and the last status; the `chain` job has each of a
dependency, a shared tool, a skipped target, a gated, a tolerant and a plain
command, and the other jobs change one setting each (dry run, no license, silent
target, missing shell variant, a target without commands, a shared target of two
roots). The signal thread handles one signal ever, so a second one shows whatever a third
would. The ratio of the two delays is ten in the code; what matters is that a poll
fits into the net's delay and that a tool check may not. For graphs, sharing
(diamonds), chains and self-loops all exist with three or four nodes, and each step
of the walks looks at one node and one dependency. `updates` is never compared with a bound and
grows at most once per tool, and one pass through a plan is finite, so no
further bound is needed. Deadlock checking is off because every model ends: the process
exits, the plan is made, every command of the machine is done.

`LoadRun` starts from about 4000 inputs in eight families, each of which varies what one part of the loader looks
at and keeps the rest plain: all graphs of three targets with their lists in either order; tables whose
references dangle, contradict each other or lead to a target of another platform; every subset of six
keys of a target on three hosts; every combination of bodies of a command, gates on three hosts; tool
tables with each field there or not and names used twice; headers; the personal layers over four Rakefiles;
and the shells a user may have started, two deep, on two platforms. A step of the loader looks at one target,
command or tool, and at the names of the others, so that three of them show its cases; the merge is recursive, and the
layers reach every depth at which a table can meet a leaf (`Depth` is 4, that of `target.build.linux.command`).

What it shows: the merged file is the merge patch of the two, path by path (`MergeIsPatch`); on a host each target is
loaded, as its variant if it has one, or set aside (`VariantsPartition`); the graph gets past
validation only without cycle, dangling or contradictory reference, is refused only for one, and the cycle
reported is one (`VerdictIsExact`); an accepted command runs under some shell on some host, an
accepted tool is in one category with what `ensure` needs (`AcceptedRuns`); an accepted target leads to a command
or to a target set aside (`NoHollowTarget`); the shell family chosen is that of a shell around the process
(`ShellIsAround`).

`MachineRun` has three scenarios: *licensing* (a machine with a hostname; two commands of any kind but the dry
run; keys `k1`, `k2`, and one that is forged; keys expire), *naming* (no hostname; three runs or dry runs)
and *ensuring* (no config directory; two runs, one of which needs `matrix`, the cargo tool that has everything,
alone or with others, or tools of the remaining kinds, and the other `matrix`; two published versions, one change by hand; installers
that take the newest version, name an old one, or do nothing). The scenarios are separate because what they touch
is: the license never looks at a tool. Two actors that share a file or a tool already meet in every order; a
third is needed to find the client id for which two others raced.

For the start-up, three versions let one update be overtaken by the next, before its install or
after its relaunch; with `inPlace` every relaunch needs a newer version, so at most two processes
relaunch and one waits for a nested run, and `MaxWaiting` stops nothing. Without `inPlace` it
cuts a chain that could go on for ever: such a chain stays as it is when the bound is
reached, and `RelaunchAdvances` and `UnattendedEnds` speak of `inPlace` only. Two channels let a nested run and its
parent disagree; a third would be handled like the second.

Five runs refute a statement of the repository; the finding is in `PROJECT.json`:

* `AfterAllSuccessIsTrue` — after an error `AfterAll` says `success: true`;
* `NoStaleCancelled` — a signal between `AfterAll` and `end_run` still sends `Cancelled`;
* `NoCommandLeftRunning` — a signal during a tool check can leave the next command
  running behind the process;
* `NewVersionDoesTheWork` — if `cargo install` leaves the running binary as it is, `relaunch`
  starts the old version, and that may be the one that runs the targets;
* `ExcludedDependencyFails` — a dependency without a variant for this host is
  pruned silently.

Seen while modelling, without a run of their own: the target of the `^name` of a
*pruned* target is still pruned (`lib:graph.rs` 200 against `README.md` 254–257); a
target two roots share runs twice (`lib:graph.rs` 269, tested so, against
`lib:cli.rs` 61–62; `lib:rakefile.rs` 909–911 says what it does); a tolerated failure of the last command makes
`AfterTarget.success` false (`lib:rakefile.rs` 1364 against `lib:lifecycle.rs` 71); `Cancelled`
is called final (`lib:signal.rs` 5) but the After events follow it; a dry run, which executes nothing,
still resolves the client id, and writes the file if there is none (`lib:rakefile.rs` 1221).

### Fairness

`Spec` has weak fairness of the main thread's own steps, of the signal thread and of
the safety net: the operating system runs every thread of a live process, and none of them
waits for a lock another holds for long. It has **no** fairness for what the code cannot
promise: that a child exits, that a tool check or install returns, that a signal
comes. `SignalEndsProcess` holds with just that. `RunEnds` carries what it needs
besides as its hypothesis `CommandsEnd`. `RakeTimed` has the same fairness and that of `Tick`.
`Planner` and `RakefileLoad` are sequential functions; `WF(Next)` says they are executed.
`SelfUpdate` has weak fairness of the process's own steps (`OwnStep`). That crates.io, an
installer and the targets come to an end is not the code's to promise (the HTTP request has no
timeout): it is the hypothesis `CallsReturn` of `UnattendedEnds`. No user is ever obliged to answer.
`Machine` has weak fairness of each process's own steps but for the prompt of a removal. A check command
(`lib:tool.rs` 466, 516, 551), a request to crates.io (730) and an installer (645) are waited for without a timeout,
so that nothing in `Spec` makes them return: for the run that is looked at, `EnsuringEnds` has it as its hypothesis
`ToolCallsReturn`, and without it a run may hang in each of the three, as the code may.

## 4. Proofs

Each theorem holds for every value of the constants that satisfies the module's assumptions, which TLC
evaluates in the runs: jobs, requests and commands are well-formed (`JobsAssumption`, `RequestsAssumption`,
`FilesAssumption`, `ToolsAssumption`, `MachineAssumption`), what TOML parses into is a document (`InputsAssumption`:
`toml::Value` has no other values) of some depth (`DepthAssumption`), a name is none of the model's own status words
(`SignalAssumption`, `DefaultAssumption`), bounds are numbers (`BoundsAssumption`), and the poll is shorter than
the net's delay (`DelayAssumption`).

| Module | Theorem | Property |
|---|---|---|
| `RakeRunProofs` | `TypeCorrect`, `OneSignal`, `OneLate`, `ChainStops`, `ToolsFirst` | `TypeOK`, `OneSignalEverywhere`, `OneLateSpawn`, `StopsAtFailure`, `ToolsBeforeCommand` |
| | `FirstSignal` | `FirstSignalWins` |
| `RunOutcomeProofs` | `PlanOrder`, `ExitExplains`, `AfterAllAgrees`, `EventsPaired` | `RunsInPlanOrder`, `ExitCodeExplained`, `AfterAllAgreesWithExit`, `EventsPairUp` |
| `RunRefinementProofs` | `RunImplementsChain` | `ImplementsChain` |
| | `RunStartsAgenda` | of the chain: only a prefix of the agenda is started, and exit 0 comes after all of it |
| | `TimedRunsAreRuns` | of `RakeTimed`: without its clocks it is `RakeRun` |
| | `NoneLeftRunning`, `KillIsPrompt` | `InFlightCommandKilled`, `PromptKill` |
| `PlannerProofs` | `SegmentsInOrder`, `SegmentsComplete` | `SegmentInOrder`, `SegmentComplete` |
| | `PlansHonourDependencies`, `PlansRunWhatRemains` | `PlanHonoursDependencies`, `PlanRunsWhatRemains` |
| | `PlannerAdvances` | `PlanningAdvances`: every step leaves less to do |
| `RakefileLoadProofs` | `LoadInvariant` | (the inductive invariant `LoadInv`) |
| | `MergesArePatches` | `MergeIsPatch` |
| | `VariantsArePartition`, `VerdictsAreExact`, `AcceptedCanRun` | `VariantsPartition`, `VerdictIsExact`, `AcceptedRuns` |
| | `NoTargetIsHollow`, `ShellsAreAround` | `NoHollowTarget`, `ShellIsAround` |
| | `LoaderAdvances` | `LoadingAdvances`: every step leaves less to do |
| `SelfUpdateProofs` | `InstallsAreConsented`, `ToolchainIsUsable`, `AskedOnce` | `ConsentGiven`, `ToolchainUsable`, `NeverAskedTwice` |
| | `RelaunchesAdvance`, `ExitTells`, `UpdatesAreReported` | `RelaunchAdvances`, `ExitTellsRun`, `UpdateReported` |
| `MachineProofs` | `LicenseIsKept`, `LicenseDecided`, `ClientIdIsOne` | `LicenseKept`, `LicenseDecision`, `OneClientId` |
| | `InstallsAreNeeded`, `RecordsAreTrue`, `ToolsStayThere` | `InstallIsNeeded`, `RecordsTrue`, `ToolsAreThere` |
| `Recursion` | `NoEndlessDescent` | of any measure: it cannot fall for ever |

**`RakeRunProofs`.** `TypeOK` is not inductive. `AfterTool` reads `CurTools[ti]`, which is a tool only because
`ti` is within bounds at `ensure`; `status'  = exitCode` in `CheckCancelled` is a status only because
the flag is never up without a code. `TypeInv` adds what is missing: `CursorOK` (where `pc`
puts the three indexes), `ChildOK` (which `pc` goes with which child),
`HandlerOK` (how far `handle` has come determines `handling`, `exitCode`, `cancel`, `net`)
and `StatusOK` (what a status may be in each `result`). `OneSignalEverywhere` then follows from
`HandlerOK`. For `OneLateSpawn`, `LateOK` says that once a late spawn has happened the main thread
is unwinding or on the stretch from that spawn to its next look at the flag. For `StopsAtFailure`,
`ChainOK` relates the last attempt to `pc`, `last` and `stop`: a failure that is not tolerated
leads to a `pc` from which no command is begun. For `ToolsBeforeCommand`, `ToolsOK` says that
`ensured` differs from `ready` at most by the tool under way, and that the first `ti - 1`
tools of the loop are ready. The proof of each invariant goes through the groups of `Next`; frame lemmas
(`MainFrame`, `HandlerFrame`, `AttemptFrame`, …) say once which variables a group leaves alone.

**`RunOutcomeProofs`.** `WalkOK` ties the history to the cursor: a command has been begun exactly when the
cursor `(si, ci)` has gone past it. From that each attempt finds behind it what the plan puts
before it. `ReportOK` says which of `last` and `status` is the end of the last attempt, and that the loops are
left early only after a failure or for the flag; with it the exit code can be read off. `AfterAllOK`
says that `AfterAll` is sent once, after the run has been judged. For `EventsPairUp`, `BracketsOK` says of the
four kinds of brackets that the one main is in the middle of is the last to have been opened, and the only one that is
not closed unless an error has left the loops, and with them brackets open. Whether one has is read off where
`run_steps` was left (`ReturnedOk`: the plan is through or a target has stopped the chain), not off `result`: a signal
overwrites that, and a cancelled run without an error has to close its brackets like any other. `Senders` says which actions send
which event, and then there is one lemma per pair. The property counts events; `Count` is the cardinality
of the set of their places, which one more event extends by one.

**`RunRefinementProofs`.** `RefineInv` ties the cursor of `run_steps` to the agenda: what has been started is `Through`
of the steps before, then `OnHost` of the commands taken in this one (`StartedOK`); a child runs exactly in the
middle of a command (`RunningOK`); and the loops end where the agenda does unless they are left early (`CountersOK`).
Each action then is a step of the chain or none: `Spawn` is `Start`,
`SpawnFails` starts and fails, `AfterCommand` passes or stops, an error or a seen flag stops, `StepsDone`
completes, `Exit` and `SafetyNet` are the exits. That the chain starts a prefix of its agenda, and ends with 0 only after
all of it, is proved of `CommandChain`'s own steps and so carried over to the run. A timed step is a
step of `RakeRun` or leaves its variables alone (`TimedRunsAreRuns`), so that `TypeInv` and
`LateOK` hold there too. `TimedInv` measures the race: while a command started before the flag runs, the
net is at least `Delay - Poll` and what is left of the nap behind.

**`PlannerProofs`.** `WalkInv` is the invariant of a depth-first search (nodes are new, pushed or visited; what a node
has looked at is no longer new; the visited ones are closed). `OrderInv` adds that any ranking of the
targets falls along the stack, so that a dependency is never found there; `ReachInv` that the search stays inside every
closed set around its root. That the reference definitions speak of single edges, rankings and closed sets
is what makes an induction over paths unnecessary. For the plan, `EarlierCovered` sums up the walks of the roots so
far: their targets are there, nothing that they do not need, and dependencies first. A finished walk over all roots (`OrderOf`) thus has
exactly what is reachable, and `StageInv` carries what the two walks have found to the eligibility check and the
steps. The steps are a filtered sequence; `StepsFollow` says what each has before it.

**`RakefileLoadProofs`.** Loading is a pipeline, and `LoadInv` has what each phase leaves to the next. `LoadType`: the
two files merged into a document, a `[target]` table, then a typed graph. `VariantsInv`: the targets before `pos` are
settled, as their variant or set aside, and the others untouched, for which no name may occur twice. `ChecksInv`: what `validate`
has let pass cannot be objected to; of a chain of checks, the first that objects decides, and if none does each
has been passed (`FirstAmong`, `FirstNone`). `SearchInv` is about `detect_cycle`: the stack is a path
of dependencies (`Walked`), so that a dependency found on it closes a cycle; finished targets can be ranked below
those that need them (`Sunk`), so that when every root is finished (`RootsDone`) there is none. An
accepted target that led nowhere would have, among its like, one of least rank: that one has no dependency left that could be of
its like, and so a command, or a dependency set aside (`NoHollowTarget`). `ShellIsAround` needs no invariant: it is
about what `RunCommands` computes.

The merge has a section of lemmas of its own. `Merge` is defined at the deepest common paths first and then at those one
key shorter (`MergeUnfolds`); paths grow key by key, and where a path leads is one key further from where the path
before led (`PathSteps`, `AtSteps`). `MergedPath` says what each path of the merged value is: a merge where both sides have it, what the upper
layer says where only that has it, and what the Rakefile says elsewhere unless a leaf of the upper layer is in the way.
It holds by induction on the length of the path (`PathsMerge`), over a set of keys that takes in those of the merged
value, whatever they are. From it follow that the merge is the patch (`MergeIsMergePatch`) and that the merge of two
documents is a document (`MergeIsDocument`), which the rest of the pipeline rests on.

**That planner and loader end.** Both are loops around a recursion over a graph that may have cycles. `Left` is what they
still have before them, as five numbers, outermost first: phases; roots or targets of the loop; targets no call of
the search has met; calls that have not returned; dependencies the innermost call has not looked at. `PlanningAdvances` and
`LoadingAdvances`, stated beside their proofs, say that every step finds natural numbers there and leaves less (`LexLess`, the
lexicographic order): opening a call raises the last two but uses up a target, which is where the code's `visited` and
`in_progress` are needed. `LeftInv` and `LoopsInv` keep the loops within their bounds, so that nothing falls below zero.
`NoEndlessDescent` says that no such measure falls for ever (`LeastTuple`: of the tuples with the least first component, those with
the least second, and so on). So no behaviour of planner or loader takes steps for ever, for any input; that one which
cannot step is done, and that fairness makes it step, is what TLC checks (`PlanningEnds`, `LoadingEnds`).

**`Recursion`.** The library's induction theorems take an operator, which the provers cannot instantiate. `Induction` has the property as
a set of numbers, and rests on the fact, which the library proves, that strict inclusion of finite sets is well founded; `RecursiveFunction` says
of a function defined by recursion on `0..N` that it is there, has its type and satisfies its equations. `Through`,
`OnHost`, the planner's filters and the loader's `Only` are such functions.

**`SelfUpdateProofs`.** `Consent`: a prompt implies a terminal, an installer a recorded yes to the
channel wanted *now*. `ToolchainInv`: what each step of the check rests on, also for every waiting process,
whose channel must still be usable when it goes on. `GrantInv`: what was granted is installed, and cargo then on `PATH`.
`AdvanceInv`: who is about to relaunch has seen a newer binary. `StackInv`: the waiting processes are a chain of
callers, ordered by invocation; `RunInv`: at most one of an invocation's processes has begun the run;
`TellInv`: where the update record is, in the environment or in `pre`.

**`MachineProofs`.** `CommandInv`: what a process is doing, its command led it to.
`ClientIdInv`: unless two raced, one process draws a name, where there is none, and who reports one reports what
the file holds. `LookInv`: an installer is started for a version that was newer than the one seen, or for a tool that
was not found. `RecordInv` adds that nothing goes back below what a record names unless the user removes
it; `ReadyInv` that the part of `work` no longer in `queue` is there. These speak of `Machine`, of any
number of processes, runs, tools, keys and versions.

Only model-checked is liveness (`SignalEndsProcess`, `RunEnds`, `PlanningEnds`, `LoadingEnds`, `EnsuringEnds`,
`UnattendedEnds`): fairness and ENABLED are beyond the prover.

## 5. Not modelled

* Command-line parsing (clap), listing, printing and the wording of errors: no state. The models keep the name of an error.
* The datagrams: UDP sockets, JSON, timestamps, sequence numbers and durations. Events are modelled by their kind, order
  and outcome.
* TOML text, the signature of a license key, HTTP and JSON of crates.io, random names: libraries, each modelled by
  the outcomes the code tells apart.
* Renaming and cleaning up the running binary around an update, which Windows needs.
* `format_duration`, column widths and the `print_…` helpers: layout.
* The event listener example, packaging (`xtask`) and build scripts.
