------------------------- MODULE SelfUpdateProofs -------------------------
(***************************************************************************)
(* Theorems about the start-up, for every set of channels and all bounds.   *)
(***************************************************************************)
EXTENDS SelfUpdate, SequenceTheorems, TLAPS

\* Who waits for an answer has a terminal, and whoever installs has had a yes for
\* just the channel that is wanted; `asked` changes only with the process.
Consent ==
  /\ step \in {"answer", "install"} => terminal
  /\ step = "install" => Wanted \in agreed

\* The steps of run in main.rs, as opposed to those of ensure_rust_toolchain: the
\* machine is left alone, and the toolchain check with it or begun anew or resumed.
MainSteps ==
  \/ StartDry \/ Start \/ ToolchainRefused \/ PlanAhead \/ Relaunch \/ RelaunchFails
  \/ RunTargets \/ RelaunchEnds \/ NestedEnds \/ FindNewer \/ KeepCurrent
  \/ InstallSelf \/ InstallSelfFails \/ Finish \/ Nest \/ Publish

\* Frame of the main steps: they install no toolchain and never enter the check
\* where it would prompt or install.
LEMMA MainFrame ==
  ASSUME MainSteps
  PROVE  /\ UNCHANGED <<terminal, machine, agreed>>
         /\ UNCHANGED <<step, asked>> \/ step' \in {"probe", "ready"}
<1>1. CASE \/ StartDry \/ Start \/ ToolchainRefused \/ PlanAhead \/ RelaunchFails
           \/ RunTargets \/ FindNewer \/ KeepCurrent \/ InstallSelf
           \/ InstallSelfFails \/ Finish \/ Publish
  BY <1>1 DEF StartDry, Start, ToolchainRefused, PlanAhead, RelaunchFails, RunTargets,
       FindNewer, KeepCurrent, InstallSelf, InstallSelfFails, Finish, Publish,
       toolchainVars, place, machine, talk
<1>2. CASE Relaunch \/ Nest
  BY <1>2 DEF Relaunch, Nest, Launch, place, machine, talk
<1>3. CASE RelaunchEnds \/ NestedEnds
  BY <1>3 DEF RelaunchEnds, NestedEnds, Resume, place, machine, talk
<1> QED BY <1>1, <1>2, <1>3 DEF MainSteps

\* A step of the system is one of main's, or one of the toolchain check.
LEMMA NextCases ==
  ASSUME Next
  PROVE  MainSteps \/ ToolchainSteps \/ Answers \/ Installs
BY DEF Next, OwnStep, CallReturns, InToolchain, MainSteps

\* The check keeps Consent: it asks only at a terminal, and a yes is recorded on
\* the way from the prompt to the installer.
LEMMA ToolchainKeepsConsent ==
  ASSUME Consent, ToolchainSteps \/ Answers \/ Installs
  PROVE  Consent'
<1>1. UNCHANGED <<terminal, asked>>
  BY DEF ToolchainSteps, Answers, Installs, Probe, Refuse, AskForRust, CheckChannel,
     Recheck, SayYes, SayNo, RustInstalled, ChannelInstalled, InstallFails, place
<1>2. CASE Probe \/ Refuse \/ CheckChannel \/ AskForRust \/ Recheck
  <2>1. step' # "install"
    BY <1>2 DEF Probe, Refuse, CheckChannel, AskForRust, Recheck
  <2>2. step' = "answer" => terminal
    BY <1>2 DEF Probe, Refuse, CheckChannel, AskForRust, Recheck
  <2> QED BY <1>1, <2>1, <2>2 DEF Consent
<1>3. CASE SayYes
  BY <1>1, <1>3 DEF SayYes, Consent, Wanted
<1>4. CASE SayNo \/ RustInstalled \/ ChannelInstalled \/ InstallFails
  <2>1. step' \notin {"answer", "install"}
    BY <1>4 DEF SayNo, RustInstalled, ChannelInstalled, InstallFails
  <2> QED BY <2>1 DEF Consent
<1> QED BY <1>2, <1>3, <1>4 DEF ToolchainSteps, Answers, Installs

\* Only an installer changes the machine, and it runs after a yes only.
LEMMA MachineStep ==
  ASSUME Consent, Next, machine' # machine
  PROVE  terminal /\ Wanted \in agreed
<1>1. CASE MainSteps
  BY <1>1, MainFrame
<1>2. CASE ToolchainSteps \/ Answers
  BY <1>2 DEF ToolchainSteps, Answers, Probe, Refuse, AskForRust, CheckChannel, Recheck,
     SayYes, SayNo
<1>3. CASE Installs
  BY <1>3 DEF Installs, RustInstalled, ChannelInstalled, InstallFails, Consent
<1> QED BY <1>1, <1>2, <1>3, NextCases

\* A prompt or an installer is only ever reached through a terminal and a yes.
THEOREM ConsentHolds == Spec => []Consent
<1>1. Init => Consent
  BY DEF Init, ToolchainInit, Consent
<1>2. ASSUME Consent, [Next]_vars
      PROVE  Consent'
  <2>1. CASE MainSteps
    <3>1. CASE UNCHANGED <<step, asked>>
      BY <1>2, <2>1, <3>1, MainFrame DEF Consent, Wanted
    <3>2. CASE step' \in {"probe", "ready"}
      BY <3>2 DEF Consent
    <3> QED BY <2>1, <3>1, <3>2, MainFrame
  <2>2. CASE ToolchainSteps \/ Answers \/ Installs
    BY <1>2, <2>2, ToolchainKeepsConsent
  <2>3. CASE UNCHANGED vars
    BY <1>2, <2>3 DEF vars, toolchainVars, place, talk, Consent, Wanted
  <2> QED BY <1>2, <2>1, <2>2, <2>3, NextCases
<1> QED BY <1>1, <1>2, PTL DEF Spec

\* Nothing is installed without a terminal and a yes to that very channel, in
\* whichever of the relaunched and nested processes (bootstrap_rust, ensure_channel).
THEOREM InstallsAreConsented == Spec => ConsentGiven
<1>1. ASSUME Consent, [Next]_vars
      PROVE  [machine' # machine => terminal /\ Wanted \in agreed]_toolchainVars
  BY <1>1, MachineStep DEF vars, toolchainVars
<1> QED BY <1>1, ConsentHolds, PTL DEF Spec, ConsentGiven

-----------------------------------------------------------------------------

\* The waiting processes are of versions that were published, and are pinned to
\* channels that are there.
TypeInv ==
  /\ TypeOK
  /\ \A n \in 1..Len(waiting) : waiting[n].own <= published /\ waiting[n].pin \in channels \cup {"none"}

Top == Len(waiting)

\* A process is spawned, and what waits below it stays.
LEMMA LaunchShape ==
  ASSUME TypeInv, NEW kind \in {"relaunch", "nested"}, Launch(kind)
  PROVE  /\ waiting' \in Seq(FrameRecord) /\ Len(waiting') = Top + 1 /\ Top \in Nat
         /\ \A n \in 1..Top : waiting'[n] = waiting[n]
         /\ waiting'[Top + 1] = Frame(kind) /\ Frame(kind) \in FrameRecord
         /\ UNCHANGED <<told, pre, published, machine>> /\ own' = binary
<1>1. Frame(kind) \in FrameRecord
  <2>1. /\ inv \in Invocation /\ told \in Record /\ pre \in Record
        /\ asked \in Channel \cup {"none"} /\ pin \in Channel \cup {"none"}
    BY DEF TypeInv, TypeOK
  <2>2. path \in BOOLEAN
    BY DEF TypeInv, TypeOK
  <2>3. own \in 1..MaxVersion
    BY BoundsAssumption DEF TypeInv, TypeOK
  <2> QED BY <2>1, <2>2, <2>3 DEF Frame, FrameRecord
<1>2. waiting \in Seq(FrameRecord) /\ waiting' = Append(waiting, Frame(kind))
  BY DEF TypeInv, TypeOK, Launch
<1>3. UNCHANGED <<told, pre, published, machine>> /\ own' = binary
  BY DEF Launch, world
<1> QED BY <1>1, <1>2, <1>3 DEF Top

\* A process ends, and the one that waits for it goes on with what it had.
LEMMA ResumeShape ==
  ASSUME TypeInv, waiting # <<>>, Resume
  PROVE  /\ Top \in Nat \ {0} /\ Len(waiting') = Top - 1 /\ waiting' \in Seq(FrameRecord)
         /\ \A n \in 1..(Top - 1) : waiting'[n] = waiting[n]
         /\ Waiter \in FrameRecord /\ Waiter = waiting[Top]
         /\ \A n \in 1..Top : waiting[n] \in FrameRecord
<1>1. waiting \in Seq(FrameRecord) /\ Len(waiting) \in Nat \ {0}
  BY EmptySeq DEF TypeInv, TypeOK
<1>2. waiting' = SubSeq(waiting, 1, Len(waiting) - 1)
  BY DEF Resume
<1>3. \A n \in 1..Len(waiting) : waiting[n] \in FrameRecord
  BY <1>1
<1>4. PICK N \in Nat : N = Len(waiting) - 1 /\ waiting' = SubSeq(waiting, 1, N)
  BY <1>1, <1>2
<1>5. \A i \in 1..N : waiting[i] \in FrameRecord
  BY <1>1, <1>3, <1>4
<1>6. /\ SubSeq(waiting, 1, N) \in Seq(FrameRecord)
      /\ Len(SubSeq(waiting, 1, N)) = IF 1 <= N THEN N - 1 + 1 ELSE 0
      /\ \A i \in 1..(N - 1 + 1) : SubSeq(waiting, 1, N)[i] = waiting[1 + i - 1]
  <2>1. 1 \in Int /\ N \in Int
    OBVIOUS
  <2> QED BY <1>5, <2>1, SubSeqProperties
<1>7. /\ waiting' \in Seq(FrameRecord) /\ Len(waiting') = N
      /\ \A i \in 1..N : waiting'[i] = waiting[i]
  BY <1>4, <1>6
<1> QED BY <1>1, <1>3, <1>4, <1>7 DEF Top, Waiter

\* The steps of run in main.rs that spawn nothing and wait for nothing.
Inline ==
  \/ StartDry \/ Start \/ ToolchainRefused \/ PlanAhead \/ RelaunchFails \/ RunTargets
  \/ FindNewer \/ KeepCurrent \/ InstallSelf \/ InstallSelfFails \/ Finish \/ Publish

Spawns == Relaunch \/ Nest
Returns == RelaunchEnds \/ NestedEnds

LEMMA AllSteps ==
  ASSUME [Next]_vars
  PROVE  \/ Inline \/ Spawns \/ Returns
         \/ (mpc = "toolchain" /\ (ToolchainSteps \/ Answers \/ Installs) /\ UNCHANGED mainVars)
         \/ UNCHANGED vars
BY DEF Next, OwnStep, CallReturns, InToolchain, Inline, Spawns, Returns

LEMMA InlineType == ASSUME TypeInv, Inline PROVE TypeInv'
<1> USE DEF TypeInv, TypeOK
<1>1. CASE StartDry \/ Start \/ ToolchainRefused \/ PlanAhead
  BY <1>1 DEF StartDry, Start, ToolchainRefused, PlanAhead, toolchainVars, place, machine,
       environ, talk, world, process, story
<1>2. CASE RelaunchFails \/ KeepCurrent \/ InstallSelfFails
  BY <1>2 DEF RelaunchFails, KeepCurrent, InstallSelfFails, toolchainVars, place, machine,
       environ, talk, world, process, story
<1>3. CASE RunTargets
  BY <1>3 DEF RunTargets, toolchainVars, place, machine, environ, talk, world, process
<1>4. CASE FindNewer
  BY <1>4 DEF FindNewer, toolchainVars, place, machine, environ, talk, world, story
<1>5. CASE InstallSelf
  <2>1. [from |-> own, to |-> latest] \in Record
    BY BoundsAssumption DEF Record
  <2>2. binary' \in 1..published
    BY <1>5 DEF InstallSelf
  <2>3. updated' \in [Invocation -> Record] /\ told' \in Record
    BY <1>5, <2>1 DEF InstallSelf
  <2> QED BY <1>5, <2>2, <2>3 DEF InstallSelf, toolchainVars, place, machine, environ, talk
<1>6. CASE Finish
  <2>1. [inv |-> inv, record |-> pre] \in [inv : Invocation, record : Record]
    OBVIOUS
  <2>2. summaries' \subseteq [inv : Invocation, record : Record]
    BY <1>6, <2>1 DEF Finish
  <2> QED BY <1>6, <2>2 DEF Finish, toolchainVars, place, machine, environ, talk, world, process
<1>7. CASE Publish
  <2>1. published' = published + 1 /\ published' \in 1..MaxVersion
    BY <1>7, BoundsAssumption DEF Publish
  <2>2. \A n \in 1..Len(waiting) : waiting[n].own \in 1..MaxVersion
    <3>1. \A n \in 1..Len(waiting) : waiting[n] \in FrameRecord
      OBVIOUS
    <3> QED BY <3>1 DEF FrameRecord
  <2>3. binary \in 1..published' /\ own \in 1..published' /\ latest \in 0..published'
    BY <2>1
  <2>4. \A n \in 1..Len(waiting) : waiting[n].own <= published'
    BY <2>1, <2>2
  <2> QED BY <1>7, <2>1, <2>3, <2>4 DEF Publish, toolchainVars, place, machine, environ, talk, process, story
<1> QED BY <1>1, <1>2, <1>3, <1>4, <1>5, <1>6, <1>7 DEF Inline

LEMMA SpawnType == ASSUME TypeInv, Spawns PROVE TypeInv'
<1>1. PICK kind \in {"relaunch", "nested"} : Launch(kind)
  BY DEF Spawns, Relaunch, Nest
<1>2. /\ waiting' \in Seq(FrameRecord) /\ Len(waiting') = Top + 1 /\ Top \in Nat
      /\ \A n \in 1..Top : waiting'[n] = waiting[n]
      /\ waiting'[Top + 1] = Frame(kind)
  BY <1>1, LaunchShape
<1>3. \A n \in 1..Len(waiting') :
        waiting'[n].own <= published /\ waiting'[n].pin \in channels \cup {"none"}
  <2> TAKE n \in 1..Len(waiting')
  <2>1. n \in 1..Top \/ n = Top + 1
    BY <1>2
  <2>2. Frame(kind).own = own /\ Frame(kind).pin = pin
    BY DEF Frame
  <2> QED BY <1>2, <2>1, <2>2 DEF TypeInv, TypeOK, Top
<1>4. /\ UNCHANGED <<place, machine, environ, talk, world, told, pre, latest, code, story>>
      /\ own' = binary /\ mpc' = "start" /\ step' = "probe"
  BY <1>1 DEF Launch
<1>5. inv' \in Invocation /\ calls' \in 0..MaxCalls /\ asked' \in Channel \cup {"none"}
  BY BoundsAssumption DEF TypeInv, TypeOK, Spawns, Relaunch, Nest, Invocation
<1> QED BY <1>2, <1>3, <1>4, <1>5 DEF TypeInv, TypeOK, place, machine, environ, talk, world, story

LEMMA ReturnType == ASSUME TypeInv, Returns PROVE TypeInv'
<1>1. waiting # <<>> /\ Resume /\ mpc' \in {"exit", "running"}
  BY DEF Returns, RelaunchEnds, NestedEnds
<1>2. /\ Top \in Nat \ {0} /\ Len(waiting') = Top - 1 /\ waiting' \in Seq(FrameRecord)
      /\ \A n \in 1..(Top - 1) : waiting'[n] = waiting[n]
      /\ Waiter \in FrameRecord /\ Waiter = waiting[Top]
  BY <1>1, ResumeShape
<1>3. /\ UNCHANGED <<place, machine, talk, world, latest, code, calls, story>>
      /\ inv' = Waiter.inv /\ own' = Waiter.own /\ told' = Waiter.told /\ pre' = Waiter.pre
      /\ asked' = Waiter.asked /\ path' = Waiter.path /\ pin' = Waiter.pin /\ step' = "ready"
  BY <1>1 DEF Resume
<1>4. \A n \in 1..Len(waiting') :
        waiting'[n].own <= published /\ waiting'[n].pin \in channels \cup {"none"}
  BY <1>2 DEF TypeInv, Top
<1>5. /\ Waiter.inv \in Invocation /\ Waiter.own \in 1..MaxVersion /\ Waiter.told \in Record
      /\ Waiter.pre \in Record /\ Waiter.asked \in Channel \cup {"none"} /\ Waiter.path \in BOOLEAN
  BY <1>2 DEF FrameRecord
<1>6. Waiter.own \in 1..published /\ Waiter.pin \in channels \cup {"none"}
  BY <1>2, <1>5, BoundsAssumption DEF TypeInv, TypeOK, Top
<1> QED BY <1>1, <1>2, <1>3, <1>4, <1>5, <1>6
        DEF TypeInv, TypeOK, place, machine, talk, world, story

\* An installer adds channels, and rustup with them.
LEMMA MachineGrows ==
  ASSUME TypeInv, ToolchainSteps \/ Answers \/ Installs
  PROVE  /\ channels \subseteq channels' /\ (rustup => rustup') /\ UNCHANGED <<place, asked>>
         /\ rustup' \in BOOLEAN
<1>1. CASE ToolchainSteps \/ Answers
  BY <1>1 DEF TypeInv, TypeOK, ToolchainSteps, Answers, Probe, Refuse, AskForRust, CheckChannel,
     Recheck, SayYes, SayNo, machine
<1>2. CASE Installs
  BY <1>2 DEF TypeInv, TypeOK, Installs, RustInstalled, ChannelInstalled, InstallFails, machine
<1> QED BY <1>1, <1>2

-----------------------------------------------------------------------------

\* What a process with this toolchain, PATH and pin needs to go on: a cargo, and its
\* channel where rustup is in reach.
Usable(wanted, reach, pinned) ==
  /\ distro \/ (rustup /\ reach /\ channels # {} /\ pinned \in channels \cup {"none"})
  /\ wanted # "none" /\ rustup /\ reach => pinned = wanted /\ wanted \in channels

\* The toolchain check knows at each step what it found out before, and main goes on
\* from it only when it has succeeded; the processes that wait had it succeed.
ToolchainInv ==
  /\ step = "bootstrap" => ~distro /\ ~CargoWorks
  /\ step = "channel" => CargoWorks /\ asked # "none"
  /\ step \in {"answer", "install"} =>
       \/ question = "rust" /\ ~distro
       \/ question = "channel" /\ Managed /\ asked # "none"
  /\ step \in {"install", "recheck"} => Wanted \in agreed
  /\ step = "ready" => Usable(asked, path, pin)
  /\ mpc \in {"check", "install", "relaunch"} \/ (mpc \in {"run", "running"} /\ ~dry) =>
       step = "ready"
  /\ \A n \in 1..Len(waiting) : Usable(waiting[n].asked, waiting[n].path, waiting[n].pin)

LEMMA InlineToolchain == ASSUME ToolchainInv, Inline PROVE ToolchainInv'
<1>1. UNCHANGED <<toolchainVars, waiting, dry>>
  BY DEF Inline, StartDry, Start, ToolchainRefused, PlanAhead, RelaunchFails, RunTargets,
     FindNewer, KeepCurrent, InstallSelf, InstallSelfFails, Finish, Publish, world
<1>2. mpc' \in {"check", "install", "relaunch"} \/ (mpc' \in {"run", "running"} /\ ~dry) =>
        step = "ready"
  BY DEF ToolchainInv, Inline, StartDry, Start, ToolchainRefused, PlanAhead, RelaunchFails,
     RunTargets, FindNewer, KeepCurrent, InstallSelf, InstallSelfFails, Finish, Publish
<1> QED BY <1>1, <1>2 DEF ToolchainInv, toolchainVars, place, machine, environ, talk, CargoWorks,
           Managed, Usable, Wanted

LEMMA SpawnToolchain == ASSUME TypeInv, ToolchainInv, Spawns PROVE ToolchainInv'
<1>1. PICK kind \in {"relaunch", "nested"} : Launch(kind)
  BY DEF Spawns, Relaunch, Nest
<1>2. /\ Len(waiting') = Top + 1 /\ Top \in Nat /\ \A n \in 1..Top : waiting'[n] = waiting[n]
      /\ waiting'[Top + 1] = Frame(kind)
  BY <1>1, LaunchShape
<1>3. UNCHANGED <<place, machine>> /\ step' = "probe" /\ mpc' = "start"
  BY <1>1 DEF Launch
<1>4. Usable(asked, path, pin)
  BY DEF ToolchainInv, Spawns, Relaunch, Nest
<1>5. Frame(kind).asked = asked /\ Frame(kind).path = path /\ Frame(kind).pin = pin
  BY DEF Frame
<1>6. \A n \in 1..Len(waiting') :
        Usable(waiting'[n].asked, waiting'[n].path, waiting'[n].pin)
  <2> TAKE n \in 1..Len(waiting')
  <2>1. n \in 1..Top \/ n = Top + 1
    BY <1>2
  <2> QED BY <1>2, <1>4, <1>5, <2>1 DEF ToolchainInv, Top
<1> QED BY <1>3, <1>6 DEF ToolchainInv, Usable, place, machine

LEMMA ReturnToolchain == ASSUME TypeInv, ToolchainInv, Returns PROVE ToolchainInv'
<1>1. waiting # <<>> /\ Resume /\ mpc' \in {"exit", "running"}
  BY DEF Returns, RelaunchEnds, NestedEnds
<1>2. /\ Top \in Nat \ {0} /\ Len(waiting') = Top - 1
      /\ \A n \in 1..(Top - 1) : waiting'[n] = waiting[n]
      /\ Waiter = waiting[Top]
  BY <1>1, ResumeShape
<1>3. /\ UNCHANGED <<place, machine>> /\ step' = "ready"
      /\ asked' = Waiter.asked /\ path' = Waiter.path /\ pin' = Waiter.pin
  BY <1>1 DEF Resume
<1>4. Usable(Waiter.asked, Waiter.path, Waiter.pin)
  BY <1>2 DEF ToolchainInv, Top
<1>5. \A n \in 1..Len(waiting') :
        Usable(waiting'[n].asked, waiting'[n].path, waiting'[n].pin)
  BY <1>2 DEF ToolchainInv, Top
<1> QED BY <1>3, <1>4, <1>5 DEF ToolchainInv, Usable, place, machine

\* The check goes on from what it knows.
LEMMA CheckToolchain ==
  ASSUME TypeInv, ToolchainInv, mpc = "toolchain", ToolchainSteps \/ Answers \/ Installs,
         UNCHANGED mainVars
  PROVE  TypeInv' /\ ToolchainInv'
<1>1. /\ channels \subseteq channels' /\ (rustup => rustup') /\ UNCHANGED <<place, asked>>
      /\ rustup' \in BOOLEAN
  BY MachineGrows
<1>2. UNCHANGED <<mpc, waiting, dry, published, inPlace, binary, wants, inv, own, told, pre, latest,
                  code, calls, began, ran, updated, summaries>>
  BY DEF mainVars, world, process, story
<1>3. distro => rustup' = rustup
  BY DEF ToolchainInv, ToolchainSteps, Answers, Installs, Probe, Refuse, AskForRust, CheckChannel,
     Recheck, SayYes, SayNo, RustInstalled, ChannelInstalled, InstallFails, machine
<1>4. ASSUME NEW wanted, NEW reach \in BOOLEAN, NEW pinned, Usable(wanted, reach, pinned)
      PROVE  /\ distro' \/ (rustup' /\ reach /\ channels' # {} /\ pinned \in channels' \cup {"none"})
             /\ wanted # "none" /\ rustup' /\ reach => pinned = wanted /\ wanted \in channels'
  BY <1>1, <1>3, <1>4 DEF Usable, place, TypeInv, TypeOK
<1>5. \A n \in 1..Len(waiting) : waiting[n].path \in BOOLEAN
  <2>1. \A n \in 1..Len(waiting) : waiting[n] \in FrameRecord
    BY DEF TypeInv, TypeOK
  <2> QED BY <2>1 DEF FrameRecord
<1>6. \A n \in 1..Len(waiting') : Usable(waiting[n].asked, waiting[n].path, waiting[n].pin)'
  BY <1>2, <1>4, <1>5 DEF ToolchainInv, Usable
<1>7. /\ step' \in {"probe", "bootstrap", "channel", "answer", "install", "recheck", "ready",
                    "missing", "failed"}
      /\ question' \in {"none", "rust", "channel"} /\ granted' \subseteq agreed'
      /\ agreed' \subseteq Channel /\ channels' \subseteq Channel
      /\ path' \in BOOLEAN /\ pin' \in channels' \cup {"none"} /\ (~rustup' => channels' = {})
  <2> USE DEF TypeInv, TypeOK
  <2>1. CASE Probe \/ Refuse \/ AskForRust \/ CheckChannel
    BY <2>1 DEF Probe, Refuse, AskForRust, CheckChannel, ChannelListed, machine, environ, talk
  <2>2. CASE Recheck
    BY <2>2 DEF Recheck, ToolchainInv, machine, environ
  <2>3. CASE SayYes \/ SayNo
    BY <2>3, DefaultAssumption DEF SayYes, SayNo, Wanted, machine, environ, talk
  <2>4. CASE RustInstalled
    BY <2>4, DefaultAssumption DEF RustInstalled, Wanted, machine, environ, talk
  <2>5. CASE ChannelInstalled
    <3>1. asked \in Channel /\ rustup
      BY <2>5 DEF ChannelInstalled, ToolchainInv, Managed
    <3>2. granted' \subseteq agreed'
      BY <2>5 DEF ChannelInstalled, ToolchainInv, Managed, Wanted
    <3> QED BY <2>5, <3>1, <3>2 DEF ChannelInstalled
  <2>6. CASE InstallFails
    BY <2>6 DEF InstallFails, machine, environ, talk
  <2> QED BY <2>1, <2>2, <2>3, <2>4, <2>5, <2>6 DEF ToolchainSteps, Answers, Installs
<1>8. TypeInv'
  <2>1. \A n \in 1..Len(waiting) : waiting[n].pin \in channels' \cup {"none"}
    BY <1>1 DEF TypeInv
  <2> QED BY <1>1, <1>2, <1>7, <2>1 DEF TypeInv, TypeOK, place
<1>9. /\ step' = "bootstrap" => ~distro' /\ ~CargoWorks'
      /\ step' = "channel" => CargoWorks' /\ asked' # "none"
      /\ step' \in {"answer", "install"} =>
           \/ question' = "rust" /\ ~distro'
           \/ question' = "channel" /\ Managed' /\ asked' # "none"
      /\ step' \in {"install", "recheck"} => Wanted' \in agreed'
      /\ step' = "ready" => Usable(asked, path, pin)'
  <2>1. CASE /\ Probe \/ Refuse \/ AskForRust \/ Recheck
             /\ UNCHANGED <<machine, environ, agreed>>
    BY <1>1, <2>1 DEF ToolchainInv, Probe, Refuse, AskForRust, Recheck, CargoWorks, Managed, Usable,
         place, machine, environ, talk
  <2>2. CASE CheckChannel
    BY <1>1, <2>2 DEF ToolchainInv, CheckChannel, ChannelListed, CargoWorks, Managed, Usable,
         place, machine, Wanted
  <2>3. CASE SayYes \/ SayNo
    BY <1>1, <2>3 DEF ToolchainInv, SayYes, SayNo, Wanted, Managed, place, machine, environ, talk
  <2>4. CASE RustInstalled
    BY <1>1, <2>4 DEF ToolchainInv, RustInstalled, Wanted, talk
  <2>5. CASE ChannelInstalled
    BY <1>1, <2>5 DEF ToolchainInv, ChannelInstalled, Managed, Usable, place
  <2>6. CASE InstallFails
    BY <2>6 DEF InstallFails
  <2>7. Probe \/ Refuse \/ AskForRust \/ Recheck => UNCHANGED <<machine, environ, agreed>>
    BY DEF Probe, Refuse, AskForRust, Recheck, talk
  <2> QED BY <2>1, <2>2, <2>3, <2>4, <2>5, <2>6, <2>7 DEF ToolchainSteps, Answers, Installs
<1> QED BY <1>2, <1>6, <1>8, <1>9 DEF ToolchainInv

LEMMA StartUpStays ==
  ASSUME TypeInv, ToolchainInv, [Next]_vars
  PROVE  TypeInv' /\ ToolchainInv'
<1>1. CASE Inline
  BY <1>1, InlineType, InlineToolchain
<1>2. CASE Spawns
  BY <1>2, SpawnType, SpawnToolchain
<1>3. CASE Returns
  BY <1>3, ReturnType, ReturnToolchain
<1>4. CASE mpc = "toolchain" /\ (ToolchainSteps \/ Answers \/ Installs) /\ UNCHANGED mainVars
  BY <1>4, CheckToolchain
<1>5. CASE UNCHANGED vars
  <2>1. TypeInv'
    BY <1>5 DEF vars, toolchainVars, mainVars, place, machine, environ, talk, world, process, story,
         TypeInv, TypeOK
  <2>2. ToolchainInv'
    BY <1>5 DEF vars, toolchainVars, mainVars, place, machine, environ, talk, world,
         ToolchainInv, CargoWorks, Managed, Usable, Wanted
  <2> QED BY <2>1, <2>2
<1> QED BY <1>1, <1>2, <1>3, <1>4, <1>5, AllSteps

\* Every variable of the start-up holds a value of its kind, and the toolchain check
\* rests on what it found out, in every process that runs or waits.
THEOREM StartUpTypes == Spec => [](TypeInv /\ ToolchainInv)
<1>1. Init => TypeInv /\ ToolchainInv
  <2> SUFFICES ASSUME Init PROVE TypeInv /\ ToolchainInv
    OBVIOUS
  <2>1. waiting = <<>> /\ waiting \in Seq(FrameRecord) /\ Len(waiting) = 0
    BY DEF Init
  <2>2. NoRecord \in Record
    BY BoundsAssumption DEF NoRecord, Record
  <2>3. inv \in Invocation
    BY BoundsAssumption DEF Init, Invocation
  <2>4. TypeInv
    BY <2>1, <2>2, <2>3, BoundsAssumption DEF Init, ToolchainInit, TypeInv, TypeOK
  <2>5. ToolchainInv
    BY <2>1 DEF Init, ToolchainInit, ToolchainInv
  <2> QED BY <2>4, <2>5
<1> QED BY <1>1, StartUpStays, PTL DEF Spec

\* Every variable of the start-up holds a value of its kind.
THEOREM StartUpTypeOK == Spec => []TypeOK
<1>1. TypeInv => TypeOK
  BY DEF TypeInv
<1> QED BY <1>1, StartUpTypes, PTL

\* Where the check lets the start-up go on there is a cargo that works, with the
\* Rakefile's channel; and it stays so when a relaunched or nested process returns.
THEOREM ToolchainIsUsable == Spec => []ToolchainUsable
<1>1. ToolchainInv => ToolchainUsable
  BY DEF ToolchainInv, ToolchainUsable, Usable, CargoWorks, Managed
<1> QED BY <1>1, StartUpTypes, PTL

-----------------------------------------------------------------------------

\* What was granted is there, and who needs rustup for it has it on PATH.
GrantInv == granted \subseteq channels /\ (~distro /\ granted # {} => path)

LEMMA GrantStays ==
  ASSUME TypeInv, ToolchainInv, GrantInv, [Next]_vars
  PROVE  GrantInv'
<1>1. CASE Inline
  BY <1>1 DEF GrantInv, Inline, StartDry, Start, ToolchainRefused, PlanAhead, RelaunchFails,
     RunTargets, FindNewer, KeepCurrent, InstallSelf, InstallSelfFails, Finish, Publish,
     toolchainVars, place, machine, environ, talk
<1>2. CASE Spawns
  BY <1>2 DEF GrantInv, Spawns, Relaunch, Nest, Launch, place, machine, environ, talk
<1>3. CASE Returns
  <2>1. waiting # <<>> /\ Resume
    BY <1>3 DEF Returns, RelaunchEnds, NestedEnds
  <2>2. Usable(Waiter.asked, Waiter.path, Waiter.pin)
    BY <2>1, ResumeShape DEF ToolchainInv, Top
  <2>3. path' = Waiter.path /\ UNCHANGED <<place, machine, talk>>
    BY <2>1 DEF Resume
  <2> QED BY <2>2, <2>3 DEF GrantInv, Usable, place, machine, talk
<1>4. CASE mpc = "toolchain" /\ (ToolchainSteps \/ Answers \/ Installs) /\ UNCHANGED mainVars
  <2>1. channels \subseteq channels' /\ UNCHANGED place
    BY <1>4, MachineGrows
  <2>2. CASE Probe \/ Refuse \/ AskForRust \/ CheckChannel \/ Answers \/ InstallFails
    <3>1. granted' = granted /\ path' = path
      BY <2>2 DEF Answers, Probe, Refuse, AskForRust, CheckChannel, SayYes, SayNo, InstallFails,
           environ, talk
    <3> QED BY <2>1, <3>1 DEF GrantInv, place
  <2>5. CASE Recheck
    <3>1. UNCHANGED <<distro, channels, path>>
      BY <2>5 DEF Recheck, place, machine, environ
    <3>2. granted' = granted \/ (Managed /\ granted' = granted \cup ({Wanted} \cap channels))
      BY <2>5 DEF Recheck
    <3> QED BY <3>1, <3>2 DEF GrantInv, Managed
  <2>3. CASE RustInstalled
    <3>1. path => path'
      BY <2>3 DEF RustInstalled
    <3>2. granted' = granted /\ distro' = distro
      BY <2>3 DEF RustInstalled, place, talk
    <3> QED BY <2>1, <3>1, <3>2 DEF GrantInv
  <2>4. CASE ChannelInstalled
    BY <2>1, <2>4 DEF GrantInv, ChannelInstalled, ToolchainInv, Managed, place
  <2> QED BY <1>4, <2>2, <2>3, <2>4, <2>5 DEF Installs, ToolchainSteps
<1>5. CASE UNCHANGED vars
  BY <1>5 DEF GrantInv, vars, toolchainVars, place, machine, environ, talk
<1> QED BY <1>1, <1>2, <1>3, <1>4, <1>5, AllSteps

\* Who waits for an answer has not got that channel already.
AskInv == step = "answer" => Wanted \notin granted

LEMMA AskStays ==
  ASSUME TypeInv, ToolchainInv, GrantInv, AskInv, [Next]_vars
  PROVE  AskInv'
<1>1. CASE MainSteps
  BY <1>1, MainFrame DEF AskInv, MainSteps, StartDry, Start, ToolchainRefused, PlanAhead, Relaunch,
     RelaunchFails, RunTargets, RelaunchEnds, NestedEnds, FindNewer, KeepCurrent, InstallSelf,
     InstallSelfFails, Finish, Nest, Publish, Launch, Resume, toolchainVars, talk, Wanted
<1>2. CASE AskForRust
  <2>1. ~distro /\ ~CargoWorks /\ granted' = granted /\ Wanted' = Wanted
    BY <1>2 DEF ToolchainInv, AskForRust, Wanted
  <2>2. granted = {}
    BY <2>1 DEF GrantInv, TypeInv, TypeOK, CargoWorks, Managed
  <2> QED BY <2>1, <2>2 DEF AskInv
<1>3. CASE CheckChannel
  BY <1>3 DEF AskInv, CheckChannel, ChannelListed, GrantInv, ToolchainInv, Wanted
<1>4. CASE Probe \/ Refuse \/ Recheck \/ SayYes \/ SayNo \/ Installs
  <2>1. step' # "answer"
    BY <1>4 DEF Probe, Refuse, Recheck, SayYes, SayNo, Installs, RustInstalled, ChannelInstalled,
         InstallFails
  <2> QED BY <2>1 DEF AskInv
<1>5. CASE UNCHANGED vars
  BY <1>5 DEF AskInv, vars, toolchainVars, talk, Wanted
<1> QED BY <1>1, <1>2, <1>3, <1>4, <1>5, NextCases DEF ToolchainSteps, Answers

\* Who has agreed to a channel and got it is not asked for it again, by no relaunched
\* or nested process: they inherit PATH, and what is installed stays.
THEOREM AskedOnce == Spec => []NeverAskedTwice
<1>1. Init => GrantInv /\ AskInv
  BY DEF Init, ToolchainInit, GrantInv, AskInv
<1>2. AskInv => NeverAskedTwice
  BY DEF AskInv, NeverAskedTwice
<1> QED BY <1>1, <1>2, GrantStays, AskStays, StartUpTypes, PTL DEF Spec

-----------------------------------------------------------------------------

\* Whoever waits for a relaunched process is of an older version than that, and an
\* update is only installed over an older version.
AdvanceInv ==
  /\ mpc = "install" => own < published
  /\ mpc = "relaunch" /\ inPlace => own < binary
  /\ RelaunchAdvances

LEMMA AdvanceStays ==
  ASSUME TypeInv, AdvanceInv, [Next]_vars
  PROVE  AdvanceInv'
<1> /\ published \in Nat /\ binary \in Nat /\ own \in Nat /\ Top \in Nat
  BY DEF TypeInv, TypeOK, Top
<1>1. CASE Inline
  <2>1. UNCHANGED <<waiting, own, inPlace>> /\ published' \in {published, published + 1}
    BY <1>1 DEF Inline, StartDry, Start, ToolchainRefused, PlanAhead, RelaunchFails, RunTargets,
       FindNewer, KeepCurrent, InstallSelf, InstallSelfFails, Finish, Publish, world, process
  <2>2. mpc' = "install" => own < published'
    BY <1>1 DEF AdvanceInv, Inline, StartDry, Start, ToolchainRefused, PlanAhead, RelaunchFails,
       RunTargets, FindNewer, KeepCurrent, InstallSelf, InstallSelfFails, Finish, Publish, world
  <2>3. mpc' = "relaunch" /\ inPlace => own < binary'
    BY <1>1 DEF AdvanceInv, Inline, StartDry, Start, ToolchainRefused, PlanAhead, RelaunchFails,
       RunTargets, FindNewer, KeepCurrent, InstallSelf, InstallSelfFails, Finish, Publish, world
  <2> QED BY <2>1, <2>2, <2>3 DEF AdvanceInv, RelaunchAdvances
<1>2. CASE Spawns
  <2>1. PICK kind \in {"relaunch", "nested"} :
          Launch(kind) /\ (kind = "relaunch" => mpc = "relaunch")
    BY <1>2 DEF Spawns, Relaunch, Nest
  <2>2. /\ Len(waiting') = Top + 1 /\ \A n \in 1..Top : waiting'[n] = waiting[n]
        /\ waiting'[Top + 1] = Frame(kind) /\ own' = binary
    BY <2>1, LaunchShape
  <2>3. mpc' = "start" /\ UNCHANGED inPlace
    BY <2>1 DEF Launch, world
  <2>4. Frame(kind).own = own /\ Frame(kind).kind = kind
    BY DEF Frame
  <2>5. ASSUME inPlace, NEW n \in 1..Len(waiting'), waiting'[n].kind = "relaunch"
        PROVE  waiting'[n].own < (IF n = Len(waiting') THEN own' ELSE waiting'[n + 1].own)
    <3>1. CASE n = Top + 1
      BY <2>1, <2>2, <2>4, <2>5, <3>1 DEF AdvanceInv
    <3>2. CASE n = Top
      BY <2>2, <2>4, <2>5, <3>2 DEF AdvanceInv, RelaunchAdvances, Top
    <3>3. CASE n \in 1..(Top - 1)
      <4>1. waiting'[n] = waiting[n] /\ waiting'[n + 1] = waiting[n + 1] /\ n # Top /\ n # Top + 1
        BY <2>2, <3>3
      <4> QED BY <2>2, <2>5, <3>3, <4>1 DEF AdvanceInv, RelaunchAdvances, Top
    <3> QED BY <2>2, <3>1, <3>2, <3>3
  <2> QED BY <2>3, <2>5 DEF AdvanceInv, RelaunchAdvances
<1>3. CASE Returns
  <2>1. waiting # <<>> /\ Resume /\ mpc' \in {"exit", "running"}
    BY <1>3 DEF Returns, RelaunchEnds, NestedEnds
  <2>2. /\ Top \in Nat \ {0} /\ Len(waiting') = Top - 1 /\ Waiter = waiting[Top]
        /\ \A n \in 1..(Top - 1) : waiting'[n] = waiting[n]
    BY <2>1, ResumeShape
  <2>3. own' = Waiter.own /\ UNCHANGED inPlace
    BY <2>1 DEF Resume, world
  <2>4. ASSUME inPlace, NEW n \in 1..Len(waiting'), waiting'[n].kind = "relaunch"
        PROVE  waiting'[n].own < (IF n = Len(waiting') THEN own' ELSE waiting'[n + 1].own)
    <3>1. waiting[n].own < waiting[n + 1].own
      BY <2>2, <2>4 DEF AdvanceInv, RelaunchAdvances, Top
    <3> QED BY <2>2, <2>3, <2>4, <3>1
  <2> QED BY <2>1, <2>3, <2>4 DEF AdvanceInv, RelaunchAdvances
<1>4. CASE mpc = "toolchain" /\ (ToolchainSteps \/ Answers \/ Installs) /\ UNCHANGED mainVars
  BY <1>4 DEF AdvanceInv, RelaunchAdvances, mainVars, world, process
<1>5. CASE UNCHANGED vars
  BY <1>5 DEF AdvanceInv, RelaunchAdvances, vars, mainVars, world, process
<1> QED BY <1>1, <1>2, <1>3, <1>4, <1>5, AllSteps

\* Where `cargo install` replaces the running binary, a relaunched process is newer
\* than the one that waits for it (ensure_self_update, relaunch).
THEOREM RelaunchesAdvance == Spec => []RelaunchAdvances
<1>1. Init => AdvanceInv
  BY DEF Init, AdvanceInv, RelaunchAdvances
<1>2. AdvanceInv => RelaunchAdvances
  BY DEF AdvanceInv
<1> QED BY <1>1, <1>2, AdvanceStays, StartUpTypes, PTL DEF Spec

-----------------------------------------------------------------------------

\* The invocation of the n-th process, counting those that wait and the one that runs.
At(n) == IF n <= Len(waiting) THEN waiting[n].inv ELSE inv

\* A relaunched process is of the invocation that waits for it, a nested one is of a
\* later one; invocations that have not been made have no history.
StackInv ==
  /\ \A n \in 1..Len(waiting) : waiting[n].kind = "relaunch" => At(n) = At(n + 1)
  /\ \A m, n \in 1..(Len(waiting) + 1) :
       m < n => At(m) <= At(n) /\ (waiting[m].kind = "nested" => At(m) < At(n))
  /\ \A n \in 1..(Len(waiting) + 1) : At(n) <= calls
  /\ \A i \in Invocation : i > calls => began[i] = 0 /\ ran[i] = "none" /\ updated[i] = NoRecord

\* Spawning and returning in terms of the stack.
LEMMA SpawnStack ==
  ASSUME TypeInv, Spawns
  PROVE  /\ Len(waiting') = Top + 1 /\ Top \in Nat /\ UNCHANGED story /\ mpc' = "start"
         /\ \A n \in 1..Top : waiting'[n] = waiting[n]
         /\ waiting'[Top + 1] \in {Frame("relaunch"), Frame("nested")}
         /\ waiting'[Top + 1].kind \in {"relaunch", "nested"}
         /\ \A n \in 1..(Top + 1) : At(n)' = At(n)
         /\ (\A n : n = Top + 2 => At(n)' = inv') /\ At(Top + 1) = inv
         /\ \/ waiting'[Top + 1].kind = "relaunch" /\ inv' = inv /\ calls' = calls
            \/ /\ waiting'[Top + 1].kind = "nested" /\ inv' = calls + 1 /\ calls' = calls + 1
               /\ calls < MaxCalls /\ mpc = "running"
<1>1. PICK kind \in {"relaunch", "nested"} :
        /\ Launch(kind)
        /\ \/ kind = "relaunch" /\ inv' = inv /\ calls' = calls
           \/ /\ kind = "nested" /\ inv' = calls + 1 /\ calls' = calls + 1 /\ calls < MaxCalls
              /\ mpc = "running"
  BY DEF Spawns, Relaunch, Nest
<1>2. /\ Len(waiting') = Top + 1 /\ Top \in Nat /\ \A n \in 1..Top : waiting'[n] = waiting[n]
      /\ waiting'[Top + 1] = Frame(kind)
  BY <1>1, LaunchShape
<1>3. Frame(kind).inv = inv /\ Frame(kind).kind = kind
  BY DEF Frame
<1>4. UNCHANGED story /\ mpc' = "start"
  BY <1>1 DEF Launch
<1>5. \A n \in 1..(Top + 1) : At(n)' = At(n)
  <2> TAKE n \in 1..(Top + 1)
  <2>1. CASE n \in 1..Top
    BY <1>2, <2>1 DEF At, Top
  <2>2. CASE n = Top + 1
    BY <1>2, <1>3, <2>2 DEF At, Top
  <2> QED BY <1>2, <2>1, <2>2
<1>6. (\A n : n = Top + 2 => At(n)' = inv') /\ At(Top + 1) = inv
  BY <1>2 DEF At, Top
<1> QED BY <1>1, <1>2, <1>3, <1>4, <1>5, <1>6

LEMMA ReturnStack ==
  ASSUME TypeInv, Returns
  PROVE  /\ Top \in Nat \ {0} /\ Len(waiting') = Top - 1 /\ UNCHANGED <<calls, story, code>>
         /\ \A n \in 1..(Top - 1) : waiting'[n] = waiting[n]
         /\ \A n \in 1..Top : At(n)' = At(n)
         /\ inv' = At(Top) /\ At(Top) = waiting[Top].inv /\ At(Top + 1) = inv
         /\ told' = waiting[Top].told /\ pre' = waiting[Top].pre
         /\ \/ waiting[Top].kind = "relaunch" /\ mpc' = "exit" /\ mpc = "exit"
            \/ waiting[Top].kind = "nested" /\ mpc' = "running"
<1>1. /\ waiting # <<>> /\ Resume
      /\ \/ Waiter.kind = "relaunch" /\ mpc' = "exit" /\ mpc = "exit"
         \/ Waiter.kind = "nested" /\ mpc' = "running"
  BY DEF Returns, RelaunchEnds, NestedEnds
<1>2. /\ Top \in Nat \ {0} /\ Len(waiting') = Top - 1 /\ Waiter = waiting[Top]
      /\ \A n \in 1..(Top - 1) : waiting'[n] = waiting[n]
  BY <1>1, ResumeShape
<1>3. /\ inv' = Waiter.inv /\ UNCHANGED <<calls, story, code>> /\ told' = Waiter.told
      /\ pre' = Waiter.pre
  BY <1>1 DEF Resume
<1>4. \A n \in 1..Top : At(n)' = At(n)
  <2> TAKE n \in 1..Top
  <2>1. CASE n \in 1..(Top - 1)
    BY <1>2, <2>1 DEF At, Top
  <2>2. CASE n = Top
    BY <1>2, <1>3, <2>2 DEF At, Top
  <2> QED BY <1>2, <2>1, <2>2
<1>5. At(Top) = waiting[Top].inv /\ At(Top + 1) = inv
  BY <1>2 DEF At, Top
<1> QED BY <1>1, <1>2, <1>3, <1>4, <1>5

\* The steps that spawn nothing leave the stack alone, and tell a story of the
\* running invocation only.
LEMMA InlineStack ==
  ASSUME TypeInv, Inline
  PROVE  /\ UNCHANGED <<waiting, inv, calls, told>> \/ (InstallSelf /\ UNCHANGED <<waiting, inv, calls>>)
         /\ \A i \in Invocation \ {inv} :
              began'[i] = began[i] /\ ran'[i] = ran[i] /\ updated'[i] = updated[i]
BY DEF Inline, StartDry, Start, ToolchainRefused, PlanAhead, RelaunchFails, RunTargets,
   FindNewer, KeepCurrent, InstallSelf, InstallSelfFails, Finish, Publish, process, story,
   TypeInv, TypeOK

LEMMA StackStays == ASSUME TypeInv, StackInv, [Next]_vars PROVE StackInv'
<1> Top \in Nat /\ calls \in Nat /\ \A n \in 1..(Top + 1) : At(n) \in Nat
  <2>1. \A n \in 1..Len(waiting) : waiting[n] \in FrameRecord
    BY DEF TypeInv, TypeOK
  <2>2. inv \in Nat /\ calls \in Nat /\ Top \in Nat
    BY BoundsAssumption DEF TypeInv, TypeOK, Invocation, Top
  <2> QED BY <2>1, <2>2, BoundsAssumption DEF At, FrameRecord, Invocation, Top
<1>1. CASE Inline
  <2>1. UNCHANGED <<waiting, inv, calls>>
    BY <1>1, InlineStack
  <2>2. inv <= calls
    BY DEF StackInv, At, Top
  <2>3. \A n : At(n)' = At(n)
    BY <2>1 DEF At
  <2>4. \A i \in Invocation : i > calls => began'[i] = 0 /\ ran'[i] = "none" /\ updated'[i] = NoRecord
    BY <1>1, <2>2, InlineStack DEF StackInv, Invocation
  <2> QED BY <2>1, <2>3, <2>4 DEF StackInv
<1>2. CASE Spawns
  <2>1. calls' >= calls /\ UNCHANGED <<began, ran, updated>>
    BY <1>2, SpawnStack DEF story
  <2>2. \A n \in 1..Len(waiting') : waiting'[n].kind = "relaunch" => At(n)' = At(n + 1)'
    <3> TAKE n \in 1..Len(waiting')
    <3>1. n \in 1..Top \/ n = Top + 1
      BY <1>2, SpawnStack
    <3>2. CASE n \in 1..Top
      <4>1. n \in 1..(Top + 1) /\ n + 1 \in 1..(Top + 1) /\ waiting'[n] = waiting[n]
        BY <1>2, <3>2, SpawnStack
      <4>2. At(n)' = At(n) /\ At(n + 1)' = At(n + 1)
        BY <1>2, <4>1, SpawnStack
      <4> QED BY <3>2, <4>1, <4>2 DEF StackInv, Top
    <3>3. CASE n = Top + 1
      <4>1. n \in 1..(Top + 1) /\ n + 1 = Top + 2
        BY <1>2, <3>3, SpawnStack
      <4>2. At(n)' = At(n) /\ At(n) = inv /\ At(n + 1)' = inv'
        BY <1>2, <3>3, <4>1, SpawnStack
      <4>3. waiting'[n].kind = "relaunch" => inv' = inv
        BY <1>2, <3>3, SpawnStack
      <4> QED BY <4>2, <4>3
    <3> QED BY <3>1, <3>2, <3>3
  <2>3. \A n \in 1..(Top + 1) : At(n)' <= calls /\ At(n)' <= inv /\ At(n)' \in Nat
    <3> TAKE n \in 1..(Top + 1)
    <3>1. At(n)' = At(n) /\ At(Top + 1) = inv /\ At(n) \in Nat
      BY <1>2, SpawnStack
    <3>2. At(n) <= calls /\ (n < Top + 1 => At(n) <= At(Top + 1))
      BY DEF StackInv, Top
    <3> QED BY <3>1, <3>2
  <2>4. \A m, n \in 1..(Len(waiting') + 1) :
          m < n => At(m)' <= At(n)' /\ (waiting'[m].kind = "nested" => At(m)' < At(n)')
    <3> TAKE m, n \in 1..(Len(waiting') + 1)
    <3> SUFFICES ASSUME m < n
                 PROVE  At(m)' <= At(n)' /\ (waiting'[m].kind = "nested" => At(m)' < At(n)')
      OBVIOUS
    <3>1. m \in 1..(Top + 1) /\ n \in 1..(Top + 2) /\ At(m)' = At(m)
      BY <1>2, SpawnStack
    <3>2. CASE n \in 1..(Top + 1)
      <4>1. m \in 1..Top /\ waiting'[m] = waiting[m] /\ At(n)' = At(n)
        BY <1>2, <3>1, <3>2, SpawnStack
      <4> QED BY <3>1, <3>2, <4>1 DEF StackInv, Top
    <3>3. CASE n = Top + 2
      <4>1. At(n)' = inv' /\ At(m)' <= calls /\ At(m)' <= inv /\ At(m)' \in Nat
        <5>1. m \in 1..(Top + 1)
          BY <1>2, <3>1, <3>3, SpawnStack
        <5>2. At(n)' = inv'
          BY <1>2, <3>3, SpawnStack
        <5> QED BY <2>3, <5>1, <5>2
      <4>2. CASE inv' = calls + 1
        BY <4>1, <4>2
      <4>3. CASE inv' = inv /\ waiting'[Top + 1].kind = "relaunch"
        <5>1. m = Top + 1 \/ (m \in 1..Top /\ waiting'[m] = waiting[m])
          BY <1>2, <3>1, SpawnStack
        <5>2. m \in 1..Top => (waiting[m].kind = "nested" => At(m) < At(Top + 1))
          BY DEF StackInv, Top
        <5>3. At(Top + 1) = inv
          BY <1>2, SpawnStack
        <5> QED BY <3>1, <4>1, <4>3, <5>1, <5>2, <5>3
      <4> QED BY <1>2, <4>2, <4>3, SpawnStack
    <3> QED BY <3>1, <3>2, <3>3
  <2>5. \A n \in 1..(Len(waiting') + 1) : At(n)' <= calls'
    <3>1. inv' <= calls'
      <4>1. inv <= calls /\ inv \in Nat
        BY <1>2, SpawnStack DEF StackInv, Top
      <4> QED BY <1>2, <4>1, SpawnStack
    <3> TAKE n \in 1..(Len(waiting') + 1)
    <3>2. n \in 1..(Top + 1) \/ n = Top + 2
      BY <1>2, SpawnStack
    <3>3. calls' = calls \/ calls' = calls + 1
      BY <1>2, SpawnStack
    <3>4. CASE n \in 1..(Top + 1)
      BY <2>3, <3>3, <3>4
    <3>5. CASE n = Top + 2
      <4>1. At(n)' = inv'
        BY <1>2, <3>5, SpawnStack
      <4> QED BY <3>1, <4>1
    <3> QED BY <3>2, <3>4, <3>5
  <2>6. \A i \in Invocation : i > calls' => began'[i] = 0 /\ ran'[i] = "none" /\ updated'[i] = NoRecord
    <3>1. calls' = calls \/ calls' = calls + 1
      BY <1>2, SpawnStack
    <3> QED BY <2>1, <3>1, BoundsAssumption DEF StackInv, Invocation
  <2> QED BY <2>2, <2>4, <2>5, <2>6 DEF StackInv
<1>3. CASE Returns
  <2>1. /\ Top \in Nat \ {0} /\ Len(waiting') = Top - 1 /\ UNCHANGED <<calls, began, ran, updated>>
        /\ \A n \in 1..(Top - 1) : waiting'[n] = waiting[n]
        /\ \A n \in 1..Top : At(n)' = At(n)
    BY <1>3, ReturnStack DEF story
  <2>2. \A n \in 1..Len(waiting') : waiting'[n].kind = "relaunch" => At(n)' = At(n + 1)'
    BY <2>1 DEF StackInv, Top
  <2>3. \A m, n \in 1..(Len(waiting') + 1) :
          m < n => At(m)' <= At(n)' /\ (waiting'[m].kind = "nested" => At(m)' < At(n)')
    <3> TAKE m, n \in 1..(Len(waiting') + 1)
    <3>1. m < n => m \in 1..(Top - 1) /\ n \in 1..Top
      BY <2>1
    <3> QED BY <2>1, <3>1 DEF StackInv, Top
  <2>4. \A n \in 1..(Len(waiting') + 1) : At(n)' <= calls'
    BY <2>1 DEF StackInv, Top
  <2> QED BY <2>1, <2>2, <2>3, <2>4 DEF StackInv
<1>4. CASE UNCHANGED mainVars
  <2>1. \A n : At(n)' = At(n)
    BY <1>4 DEF mainVars, process, At
  <2> QED BY <1>4, <2>1 DEF StackInv, mainVars, process, story
<1> QED BY <1>1, <1>2, <1>3, <1>4, AllSteps DEF vars

\* The processes that wait are a chain of callers: what each was doing when it started the
\* next one, and which of them may run the targets, follow from its place in the chain.
THEOREM Stacks == Spec => []StackInv
<1>1. Init => StackInv
  <2> SUFFICES ASSUME Init PROVE StackInv
    OBVIOUS
  <2>1. waiting = <<>> /\ Len(waiting) = 0 /\ inv = 0 /\ calls = 0
    BY DEF Init
  <2>2. At(1) = 0
    BY <2>1 DEF At
  <2>3. \A i \in Invocation : began[i] = 0 /\ ran[i] = "none" /\ updated[i] = NoRecord
    BY DEF Init
  <2> QED BY <2>1, <2>2, <2>3 DEF StackInv
<1> QED BY <1>1, StackStays, StartUpTypes, PTL DEF Spec

\* The waiting processes are those of other invocations, or of this one's beginning.
LEMMA WaitersElsewhere ==
  ASSUME TypeInv, StackInv, NEW n \in 1..Len(waiting)
  PROVE  /\ waiting[n].inv \in Invocation /\ waiting[n] \in FrameRecord
         /\ waiting[n].kind = "nested" => waiting[n].inv # inv
<1>1. waiting[n] \in FrameRecord /\ Len(waiting) \in Nat /\ inv \in Nat
  BY BoundsAssumption DEF TypeInv, TypeOK, Invocation
<1>2. At(n) = waiting[n].inv /\ At(Len(waiting) + 1) = inv
  BY <1>1 DEF At
<1>3. waiting[n].inv \in Invocation
  BY <1>1 DEF FrameRecord
<1>4. waiting[n].kind = "nested" => At(n) < At(Len(waiting) + 1)
  BY <1>1 DEF StackInv
<1> QED BY <1>1, <1>2, <1>3, <1>4, BoundsAssumption DEF Invocation

\* Targets run once per invocation, between the start of its last process and the exit
\* of that; and an exit code says how.
CurrentOK ==
  /\ mpc \notin {"running", "exit"} => began[inv] = 0
  /\ mpc = "running" => began[inv] = 1 /\ ran[inv] = "none"
  /\ mpc = "exit" => code = (IF began[inv] = 0 THEN "failed" ELSE ran[inv])

RunInv ==
  /\ CurrentOK
  /\ \A i \in Invocation : began[i] \in {0, 1} /\ (began[i] = 0 => ran[i] = "none")
  /\ \A n \in 1..Len(waiting) : waiting[n].kind = "nested" =>
       began[waiting[n].inv] = 1 /\ ran[waiting[n].inv] = "none"

LEMMA InlineRun ==
  ASSUME TypeInv, RunInv, Inline
  PROVE  CurrentOK' /\ (began'[inv] = began[inv] \/ began'[inv] = 1) /\ (began'[inv] = 0 => ran'[inv] = "none")
<1> inv \in Invocation /\ began[inv] \in {0, 1} /\ (began[inv] = 0 => ran[inv] = "none")
  BY DEF RunInv, TypeInv, TypeOK
<1> USE DEF TypeInv, TypeOK, CurrentOK, RunInv
<1>1. CASE StartDry \/ Start \/ ToolchainRefused \/ PlanAhead \/ RelaunchFails \/ KeepCurrent
           \/ FindNewer
  BY <1>1 DEF StartDry, Start, ToolchainRefused, PlanAhead, RelaunchFails, KeepCurrent, FindNewer,
     process, story
<1>2. CASE InstallSelf \/ InstallSelfFails \/ Publish
  BY <1>2 DEF InstallSelf, InstallSelfFails, Publish, process, story
<1>3. CASE RunTargets
  BY <1>3 DEF RunTargets, process
<1>4. CASE Finish
  BY <1>4 DEF Finish, process
<1> QED BY <1>1, <1>2, <1>3, <1>4 DEF Inline

LEMMA RunStays == ASSUME TypeInv, StackInv, RunInv, [Next]_vars PROVE RunInv'
<1>1. CASE Inline
  <2>1. CurrentOK' /\ UNCHANGED waiting /\ inv \in Invocation
    BY <1>1, InlineRun, InlineStack DEF TypeInv, TypeOK
  <2>2. \A i \in Invocation : began'[i] \in {0, 1} /\ (began'[i] = 0 => ran'[i] = "none")
    BY <1>1, InlineRun, InlineStack DEF RunInv
  <2>3. ASSUME NEW n \in 1..Len(waiting), waiting[n].kind = "nested"
        PROVE  began'[waiting[n].inv] = 1 /\ ran'[waiting[n].inv] = "none"
    BY <1>1, <2>3, InlineStack, WaitersElsewhere DEF RunInv
  <2> QED BY <2>1, <2>2, <2>3 DEF RunInv
<1>2. CASE Spawns
  <2>1. UNCHANGED <<began, ran>> /\ mpc' = "start"
    BY <1>2, SpawnStack DEF story
  <2>2. began[inv'] = 0
    <3>1. CASE inv' = inv /\ mpc = "relaunch"
      BY <3>1 DEF RunInv, CurrentOK
    <3>2. CASE inv' = calls + 1 /\ calls < MaxCalls
      BY <3>2, BoundsAssumption DEF StackInv, TypeInv, TypeOK, Invocation
    <3> QED BY <1>2, <3>1, <3>2 DEF Spawns, Relaunch, Nest
  <2>3. ASSUME NEW n \in 1..Len(waiting'), waiting'[n].kind = "nested"
        PROVE  began[waiting'[n].inv] = 1 /\ ran[waiting'[n].inv] = "none"
    <3>1. n \in 1..Top \/ n = Top + 1
      BY <1>2, SpawnStack
    <3>2. CASE n \in 1..Top
      BY <1>2, <2>3, <3>2, SpawnStack DEF RunInv, Top
    <3>3. CASE n = Top + 1
      <4>1. mpc = "running" /\ waiting'[n].inv = inv
        BY <1>2, <2>3, <3>3, SpawnStack DEF Frame
      <4> QED BY <4>1 DEF RunInv, CurrentOK
    <3> QED BY <3>1, <3>2, <3>3
  <2> QED BY <2>1, <2>2, <2>3 DEF RunInv, CurrentOK
<1>3. CASE Returns
  <2>1. /\ UNCHANGED <<began, ran, code>> /\ Top \in Nat \ {0} /\ Len(waiting') = Top - 1
        /\ \A n \in 1..(Top - 1) : waiting'[n] = waiting[n]
    BY <1>3, ReturnStack DEF story
  <2>2. \A n \in 1..Len(waiting') : waiting'[n].kind = "nested" =>
          began[waiting'[n].inv] = 1 /\ ran[waiting'[n].inv] = "none"
    BY <2>1 DEF RunInv, Top
  <2>3. CASE waiting[Top].kind = "relaunch" /\ mpc' = "exit" /\ mpc = "exit"
    <3>1. inv' = inv
      <4>1. At(Top) = At(Top + 1)
        BY <2>1, <2>3 DEF StackInv, Top
      <4> QED BY <1>3, <4>1, ReturnStack
    <3> QED BY <2>1, <2>2, <2>3, <3>1 DEF RunInv, CurrentOK
  <2>4. CASE waiting[Top].kind = "nested" /\ mpc' = "running"
    <3>1. inv' = waiting[Top].inv
      BY <1>3, ReturnStack
    <3>2. began[inv'] = 1 /\ ran[inv'] = "none"
      BY <2>1, <2>4, <3>1 DEF RunInv, Top
    <3> QED BY <2>1, <2>2, <2>4, <3>2 DEF RunInv, CurrentOK
  <2> QED BY <1>3, <2>3, <2>4, ReturnStack
<1>4. CASE UNCHANGED mainVars
  BY <1>4 DEF RunInv, CurrentOK, mainVars, process, story
<1> QED BY <1>1, <1>2, <1>3, <1>4, AllSteps DEF vars

\* Whoever called is told how the targets ended, through any number of relaunched
\* processes: they ran in at most one process, and exit 0 means that they ended well.
THEOREM ExitTells == Spec => []ExitTellsRun
<1>1. Init => RunInv
  <2> SUFFICES ASSUME Init PROVE RunInv
    OBVIOUS
  <2>1. waiting = <<>> /\ Len(waiting) = 0 /\ mpc = "start" /\ inv \in Invocation
    BY BoundsAssumption DEF Init, Invocation
  <2>2. \A i \in Invocation : began[i] = 0 /\ ran[i] = "none"
    BY DEF Init
  <2> QED BY <2>1, <2>2 DEF RunInv, CurrentOK
<1>2. RunInv => ExitTellsRun
  BY DEF RunInv, CurrentOK, ExitTellsRun, Over
<1> QED BY <1>1, <1>2, RunStays, Stacks, StartUpTypes, PTL DEF Spec

-----------------------------------------------------------------------------

\* An invocation that has updated itself has told its processes so.
Told(record, i) == updated[i] # NoRecord => record = updated[i]

TellInv ==
  /\ mpc \in {"relaunch", "start"} => Told(told, inv)
  /\ mpc \notin {"relaunch", "start", "exit"} => Told(pre, inv)
  /\ \A n \in 1..Len(waiting) : waiting[n].kind = "nested" =>
       Told(waiting[n].pre, waiting[n].inv)
  /\ \A s \in summaries : Told(s.record, s.inv) /\ began[s.inv] = 1

LEMMA TellStays == ASSUME TypeInv, StackInv, RunInv, TellInv, [Next]_vars PROVE TellInv'
<1> inv \in Invocation BY DEF TypeInv, TypeOK
<1>1. CASE Inline
  <2> UNCHANGED <<waiting, inv>> BY <1>1, InlineStack
  <2>1. ASSUME NEW n \in 1..Len(waiting), waiting[n].kind = "nested"
        PROVE  updated'[waiting[n].inv] = updated[waiting[n].inv]
    BY <1>1, <2>1, InlineStack, WaitersElsewhere
  <2>2. CASE InstallSelf
    <3>1. /\ mpc' = "relaunch" /\ updated'[inv] = told' /\ UNCHANGED <<summaries, began>>
          /\ began[inv] = 0
      BY <2>2 DEF InstallSelf, RunInv, CurrentOK, TypeInv, TypeOK
    <3>2. \A s \in summaries : s.inv \in Invocation /\ s.inv # inv
      BY <3>1 DEF TellInv, TypeInv, TypeOK
    <3>3. \A s \in summaries : updated'[s.inv] = updated[s.inv]
      BY <1>1, <3>2, InlineStack
    <3> QED BY <2>1, <3>1, <3>3 DEF TellInv, Told
  <2>3. CASE Finish
    <3>1. UNCHANGED <<updated, began, pre>> /\ mpc = "running" /\ mpc' = "exit"
      BY <2>3 DEF Finish, process
    <3>2. \A s \in summaries' : s \in summaries \/ s = [inv |-> inv, record |-> pre]
      BY <2>3 DEF Finish
    <3>3. Told(pre, inv) /\ began[inv] = 1
      BY <3>1 DEF TellInv, RunInv, CurrentOK
    <3>4. \A s \in summaries' : Told(s.record, s.inv) /\ began[s.inv] = 1
      BY <3>2, <3>3 DEF TellInv
    <3> QED BY <2>1, <3>1, <3>4 DEF TellInv, Told
  <2>4. CASE RunTargets
    <3>1. /\ UNCHANGED <<updated, pre, summaries>> /\ mpc = "run" /\ mpc' = "running"
          /\ \A i \in Invocation : began[i] = 1 => began'[i] = 1
      BY <2>4 DEF RunTargets, process, RunInv, CurrentOK, TypeInv, TypeOK
    <3>2. \A s \in summaries : s.inv \in Invocation
      BY DEF TypeInv, TypeOK
    <3> QED BY <2>1, <3>1, <3>2 DEF TellInv, Told
  <2>5. CASE StartDry \/ Start
    <3>1. UNCHANGED story /\ mpc = "start" /\ mpc' # "start" /\ mpc' # "relaunch" /\ pre' = told
      BY <2>5 DEF StartDry, Start
    <3> QED BY <3>1 DEF TellInv, Told, story
  <2>6. CASE ToolchainRefused \/ PlanAhead \/ RelaunchFails \/ KeepCurrent \/ FindNewer
             \/ InstallSelfFails \/ Publish
    <3>1. /\ UNCHANGED <<story, pre, told>>
          /\ \/ mpc' = "exit" \/ mpc' = mpc
             \/ mpc \notin {"start", "relaunch", "exit"} /\ mpc' \notin {"relaunch", "start"}
      BY <2>6 DEF ToolchainRefused, PlanAhead, RelaunchFails, KeepCurrent, FindNewer,
         InstallSelfFails, Publish, process
    <3> QED BY <3>1 DEF TellInv, Told, story
  <2> QED BY <1>1, <2>2, <2>3, <2>4, <2>5, <2>6 DEF Inline
<1>2. CASE Spawns
  <2>1. UNCHANGED story /\ mpc' = "start"
    BY <1>2, SpawnStack
  <2>2. Told(told, inv)' 
    <3>1. told' = told
      BY <1>2 DEF Spawns, Relaunch, Nest, Launch
    <3>2. CASE inv' = inv /\ mpc = "relaunch"
      BY <2>1, <3>1, <3>2 DEF TellInv, Told, story
    <3>3. CASE inv' = calls + 1 /\ calls < MaxCalls
      <4>1. updated[inv'] = NoRecord
        BY <3>3, BoundsAssumption DEF StackInv, TypeInv, TypeOK, Invocation
      <4> QED BY <2>1, <4>1 DEF Told, story
    <3> QED BY <1>2, <3>2, <3>3 DEF Spawns, Relaunch, Nest
  <2>3. ASSUME NEW n \in 1..Len(waiting'), waiting'[n].kind = "nested"
        PROVE  Told(waiting'[n].pre, waiting'[n].inv)
    <3>1. n \in 1..Top \/ n = Top + 1
      BY <1>2, SpawnStack
    <3>2. CASE n \in 1..Top
      BY <1>2, <2>3, <3>2, SpawnStack DEF TellInv, Top
    <3>3. CASE n = Top + 1
      <4>1. mpc = "running" /\ waiting'[n].inv = inv /\ waiting'[n].pre = pre
        BY <1>2, <2>3, <3>3, SpawnStack DEF Frame
      <4> QED BY <4>1 DEF TellInv
    <3> QED BY <3>1, <3>2, <3>3
  <2> QED BY <2>1, <2>2, <2>3 DEF TellInv, Told, story
<1>3. CASE Returns
  <2>1. /\ UNCHANGED story /\ Top \in Nat \ {0} /\ Len(waiting') = Top - 1
        /\ \A n \in 1..(Top - 1) : waiting'[n] = waiting[n]
    BY <1>3, ReturnStack
  <2>2. \A n \in 1..Len(waiting') : waiting'[n].kind = "nested" =>
          Told(waiting'[n].pre, waiting'[n].inv)
    BY <2>1 DEF TellInv, Top
  <2>3. mpc' = "exit" \/ (mpc' = "running" /\ Told(pre', inv'))
    <3>1. CASE waiting[Top].kind = "nested" /\ mpc' = "running"
      <4>1. pre' = waiting[Top].pre /\ inv' = waiting[Top].inv
        BY <1>3, ReturnStack
      <4> QED BY <2>1, <3>1, <4>1 DEF TellInv, Top
    <3> QED BY <1>3, <3>1, ReturnStack
  <2> QED BY <2>1, <2>2, <2>3 DEF TellInv, Told, story
<1>4. CASE UNCHANGED mainVars
  BY <1>4 DEF TellInv, Told, mainVars, process, story
<1> QED BY <1>1, <1>2, <1>3, <1>4, AllSteps DEF vars

\* The summary of an invocation that has updated itself names its last update: the
\* record goes from process to process through the environment.
THEOREM UpdatesAreReported == Spec => []UpdateReported
<1>1. Init => RunInv /\ TellInv
  <2> SUFFICES ASSUME Init PROVE RunInv /\ TellInv
    OBVIOUS
  <2>1. waiting = <<>> /\ Len(waiting) = 0 /\ mpc = "start" /\ inv \in Invocation /\ summaries = {}
    BY BoundsAssumption DEF Init, Invocation
  <2>2. \A i \in Invocation : began[i] = 0 /\ ran[i] = "none" /\ updated[i] = NoRecord
    BY DEF Init
  <2> QED BY <2>1, <2>2 DEF RunInv, CurrentOK, TellInv, Told
<1>2. TellInv => UpdateReported
  BY DEF TellInv, Told, UpdateReported
<1> QED BY <1>1, <1>2, RunStays, TellStays, Stacks, StartUpTypes, PTL DEF Spec
=============================================================================
