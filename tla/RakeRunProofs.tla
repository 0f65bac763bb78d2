--------------------------- MODULE RakeRunProofs ---------------------------
(***************************************************************************)
(* What RakeRun guarantees for every job, every set of signals and every   *)
(* interleaving.  Safety only: Fairness plays no part.                      *)
(*                                                                         *)
(* The inductive invariant comes in parts.  TypeInv (types, indexes, child, *)
(* signal handling, status) is closed under the steps of Next by itself;   *)
(* LateOK, ChainOK and ToolsOK are each closed together with TypeInv.      *)
(***************************************************************************)
EXTENDS RakeRun, SequenceTheorems, TLAPS

\* Labels of the main thread inside run_steps' body, inside run_one's, and
\* between the spawn of a child and the report of its end.
InChild == {"poll", "sleep", "kill", "afterCommand"}
InCommand == {"spawn", "decide"} \cup InChild
InTarget == {"tools", "ensure", "command", "afterTarget"} \cup InCommand
Early == {"install", "beforeAll", "begin", "step"} \cup InTarget
Ending == {"check", "afterAll", "end", "exit", "done"}

\* The indexes point into the job wherever the code dereferences them.
CursorOK ==
  /\ pc \in InTarget => si <= Len(Plan) /\ Plan[si].kind = "Run"
  /\ pc \in InCommand \cup {"command"} => ci # 0
  /\ pc \in InCommand \cup {"tools", "ensure"} => ci <= Len(CommandsAt(si))
  /\ pc = "ensure" => ti <= Len(CurTools)

\* A child exists exactly while main is about to wait for it, and the last
\* attempt is the one under way.
ChildOK ==
  /\ pc \in InChild <=> child # "none"
  /\ pc = "afterCommand" => child \in ChildEnd
  /\ pc \in InChild => ran # <<>>

\* HANDLING, EXIT_CODE and CANCEL_REQUESTED move in this order, once.
HandlerOK ==
  /\ ~handling => /\ sig = "none" /\ exitCode = "none" /\ hpc = "idle"
                  /\ ~cancel /\ ~net
  /\ handling => sig \in Signal
  /\ hpc = "code" => exitCode = "none" /\ ~cancel /\ ~net
  /\ handling /\ hpc # "code" => exitCode = sig

\* After a spawn with the flag up main is on its way to the end of the run.
Unwinding ==
  /\ cancel
  /\ \/ pc \in InChild \cup {"decide"} \cup Ending
     \/ pc = "afterTarget" /\ stop
LateOK == late = 0 \/ (late = 1 /\ Unwinding)

\* Where main may still come to start a command, and no attempt is open.
Starting == Early \ (InChild \cup {"decide"})

\* Whatever was started before the last attempt passed, and so did the last one
\* whenever main can still start another.
ChainOK ==
  /\ StopsAtFailure
  /\ pc = "decide" => ran # <<>> /\ ran[Len(ran)].end = last
  /\ pc \in InChild \cup {"decide"} =>
       ran[Len(ran)].step = si /\ ran[Len(ran)].index = ci
  /\ pc \in Starting =>
       (pc = "afterTarget" /\ stop) \/ \A n \in 1..Len(ran) : Passed(ran[n])

\* Tools in `ensured` are ready but for the one whose ensure is under way, and
\* the tool loops have everything up to their index ready.
ToolsOK ==
  /\ pc \in Early =>
       ensured \subseteq ready \cup (IF pc = "ensure" THEN {CurTools[ti]} ELSE {})
  /\ pc \in {"tools", "ensure"} => \A n \in 1..(ti - 1) : CurTools[n] \in ready
  /\ pc \in InTarget /\ ci # 0 => Elements(job.targetTools[CurTarget]) \subseteq ready
  /\ pc \in InCommand => Elements(job.commandTools[CurCommand]) \subseteq ready

-----------------------------------------------------------------------------
(* Lemmas about the operators of RakeRun.                                  *)

\* Sequences only grow at their end: what `Emit` and `EmitFor` send leaves the
\* stream over any set that holds the old events and the new ones.
LEMMA EmitStaysIn ==
  ASSUME NEW S, events \in Seq(S), NEW new \in Seq(S), Emit(new)
  PROVE  events' \in Seq(S)
BY ConcatProperties DEF Emit

LEMMA EmitForStaysIn ==
  ASSUME NEW S, events \in Seq(S), NEW new \in Seq(S), NEW t, EmitFor(t, new)
  PROVE  events' \in Seq(S)
BY ConcatProperties DEF EmitFor

\* A new attempt leaves the others as they are.
LEMMA AppendAttempt ==
  ASSUME NEW S, NEW s \in Seq(S), NEW e \in S
  PROVE  /\ Append(s, e) \in Seq(S) /\ Append(s, e) # <<>>
         /\ Len(Append(s, e)) = Len(s) + 1
         /\ \A n \in 1..Len(s) : Append(s, e)[n] = s[n]
         /\ Append(s, e)[Len(s) + 1] = e
BY AppendProperties

\* The end of an attempt is noted in the last record only.
LEMMA EndAttempt ==
  ASSUME ran \in Seq(AttemptRecord), ran # <<>>, NEW end, AttemptEnds(end),
         end \in ChildEnd \cup {"running", "error"}
  PROVE  /\ ran' \in Seq(AttemptRecord) /\ Len(ran') = Len(ran) /\ Len(ran) \in Nat \ {0}
         /\ \A n \in 1..Len(ran) :
              /\ ran'[n].step = ran[n].step /\ ran'[n].index = ran[n].index
              /\ ran'[n].end = IF n = Len(ran) THEN end ELSE ran[n].end
<1>1. Len(ran) \in Nat \ {0} /\ ran \in [1..Len(ran) -> AttemptRecord]
  BY EmptySeq, LenProperties
<1> DEFINE new == [ran[Len(ran)] EXCEPT !.end = end]
<1>2. new \in AttemptRecord /\ new.end = end
      /\ new.step = ran[Len(ran)].step /\ new.index = ran[Len(ran)].index
  BY <1>1 DEF AttemptRecord
<1>3. ran' = [ran EXCEPT ![Len(ran)] = new]
  BY DEF AttemptEnds
<1> HIDE DEF new
<1>4. /\ ran' \in Seq(AttemptRecord) /\ Len(ran') = Len(ran)
      /\ \A n \in 1..Len(ran) : ran'[n] = IF n = Len(ran) THEN new ELSE ran[n]
  BY <1>1, <1>2, <1>3, ExceptSeq
<1> QED BY <1>1, <1>2, <1>4

-----------------------------------------------------------------------------
(* Frames: which thread touches what.                                      *)

\* Only the signal thread and the kernel write the variables of signal.rs.
LEMMA MainFrame ==
  ASSUME MainStep \/ ToolReturns \/ ChildExits \/ SafetyNet
  PROVE  UNCHANGED <<job, pending, hpc, handling, sig, snapshot, exitCode, cancel, net>>
BY DEF MainStep, ToolReturns, Prepare, WalkPlan, EnsureTools, PickCommand, RunCommand,
  Conclude, Install, BeforeAll, BeginRun, SkipStep, EnterTarget, StepsDone,
  BeforeTarget, AfterTarget, ToolKnown, BeforeTool, ToolReady, ToolFails, SkipCommand,
  EnterCommand, CommandsDone, NoShellVariant, DryCommand, BeforeCommand, SpawnFails,
  Spawn, PollExited, WaitFails, PollCancelled, PollSleeps, Wake, Kill, AfterCommand,
  StopChain, ContinueChain, CheckCancelled, CheckFinished, AfterAll, EndRun, Exit,
  ChildExits, SafetyNet, mainVars, sigVars, world

\* The signal thread and the safety net leave main's variables alone.
LEMMA HandlerFrame ==
  ASSUME HandlerStep \/ SafetyNet \/ \E s \in Signal : Raise(s)
  PROVE  UNCHANGED <<job, pc, si, ti, ci, ensured, last, stop, status, result, updates,
                     child, runActive, installed, ran, ready, late>>
BY DEF HandlerStep, IgnoreSignal, HandleSignal, StoreCode, SnapshotRun, EmitCancelled,
  FlagCancel, ArmSafetyNet, SafetyNet, Raise, mainVars, cursor, books, history

LEMMA HandlerInductive ==
  ASSUME HandlerOK, [Next]_vars
  PROVE  HandlerOK'
<1>1. CASE MainStep \/ ToolReturns \/ ChildExits \/ SafetyNet
  BY <1>1, MainFrame DEF HandlerOK
<1>2. CASE \E s \in Signal : Raise(s)
  BY <1>2 DEF Raise, HandlerOK
<1>3. CASE HandlerStep
  BY <1>3, SignalAssumption DEF HandlerStep, IgnoreSignal, HandleSignal, StoreCode, SnapshotRun,
    EmitCancelled, FlagCancel, ArmSafetyNet, HandlerAt, HandlerOK
<1>4. CASE UNCHANGED vars
  BY <1>4 DEF vars, sigVars, HandlerOK
<1> QED BY <1>1, <1>2, <1>3, <1>4 DEF Next

-----------------------------------------------------------------------------
(* The indexes and the child.                                              *)

LEMMA JobTyped ==
  ASSUME job \in Jobs
  PROVE  /\ Plan \in Seq([kind : {"Run", "Skip"}, target : Target]) /\ Len(Plan) \in Nat
         /\ \A i \in 1..Len(Plan) :
              /\ Plan[i].kind \in {"Run", "Skip"} /\ Plan[i].target \in Target
              /\ CommandsAt(i) \in Seq(Command) /\ Len(CommandsAt(i)) \in Nat
              /\ \A k \in 1..Len(CommandsAt(i)) : CommandsAt(i)[k] \in Command
<1>1. JobOK(job)
  BY JobsAssumption
<1>2. Plan \in Seq([kind : {"Run", "Skip"}, target : Target]) /\ Len(Plan) \in Nat
  BY <1>1, LenProperties DEF JobOK, Plan
<1>3. ASSUME NEW i \in 1..Len(Plan)
      PROVE  Plan[i].kind \in {"Run", "Skip"} /\ Plan[i].target \in Target
  <2>1. Plan[i] \in [kind : {"Run", "Skip"}, target : Target]
    BY <1>2, ElementOfSeq
  <2> QED BY <2>1
<1>4. ASSUME NEW i \in 1..Len(Plan)
      PROVE  CommandsAt(i) \in Seq(Command) /\ Len(CommandsAt(i)) \in Nat
  BY <1>1, <1>3, LenProperties DEF JobOK, CommandsAt
<1> QED BY <1>2, <1>3, <1>4, ElementOfSeq

\* What the main thread's indexes name is of the kind the code takes it for.
LEMMA CursorTyped ==
  ASSUME TypeOK, CursorOK
  PROVE  /\ pc = "step" /\ si <= Len(Plan) => CurTarget \in Target
         /\ pc \in InTarget => CurTarget \in Target /\ CommandsAt(si) \in Seq(Command)
         /\ pc \in InTarget /\ ci \in 1..Len(CommandsAt(si)) => CurCommand \in Command
         /\ pc \in InCommand => CurCommand \in Command
         /\ pc \in {"tools", "ensure"} => CurTools \in Seq(Tool)
         /\ pc \in {"tools", "ensure"} /\ ti <= Len(CurTools) => CurTools[ti] \in Tool
<1>1. JobOK(job)
  BY JobsAssumption DEF TypeOK
<1>2. si <= Len(Plan) => CurTarget \in Target /\ CommandsAt(si) \in Seq(Command)
  BY JobTyped DEF TypeOK, CurTarget
<1>3. pc \in InTarget => si <= Len(Plan)
  BY DEF CursorOK
<1>4. pc \in InTarget /\ ci \in 1..Len(CommandsAt(si)) => CurCommand \in Command
  BY <1>2, <1>3, ElementOfSeq DEF CurCommand
<1>5. pc \in InCommand => CurCommand \in Command
  <2> SUFFICES ASSUME pc \in InCommand PROVE CurCommand \in Command
    OBVIOUS
  <2>1. pc \in InTarget /\ Len(CommandsAt(si)) \in Nat
    BY <1>2, <1>3, LenProperties DEF InTarget
  <2> QED BY <1>4, <2>1 DEF CursorOK, TypeOK
<1>6. pc \in {"tools", "ensure"} => CurTools \in Seq(Tool)
  <2> SUFFICES ASSUME pc \in {"tools", "ensure"} PROVE CurTools \in Seq(Tool)
    OBVIOUS
  <2>1. CurTarget \in Target /\ CommandsAt(si) \in Seq(Command)
    BY <1>2, <1>3 DEF InTarget
  <2>2. ci # 0 => CurCommand \in Command
    BY <1>4, <2>1, LenProperties DEF CursorOK, TypeOK, InTarget
  <2> QED BY <1>1, <2>1, <2>2 DEF JobOK, CurTools
<1>7. pc \in {"tools", "ensure"} /\ ti <= Len(CurTools) => CurTools[ti] \in Tool
  BY <1>6, ElementOfSeq, LenProperties DEF TypeOK
<1> QED BY <1>2, <1>3, <1>4, <1>5, <1>6, <1>7

LEMMA CursorInductive ==
  ASSUME TypeOK, CursorOK, [Next]_vars
  PROVE  CursorOK'
<1> USE DEF CursorOK, InTarget, InCommand, InChild, At, Goto, Runs
<1>1. job' = job /\ Plan' = Plan /\ Len(Plan) \in Nat
  BY MainFrame, HandlerFrame, JobTyped DEF Next, vars, mainVars, Plan, TypeOK
<1>2. (si' = si) => CurTarget' = CurTarget /\ CommandsAt(si)' = CommandsAt(si)
  BY <1>1 DEF CurTarget, CommandsAt
<1>3. CASE UNCHANGED <<job, pc, si, ti, ci>>
  BY <1>1, <1>3 DEF CommandsAt, CurTools, CurTarget, CurCommand
<1>4. CASE Prepare
  BY <1>4 DEF Prepare, Install, BeforeAll, BeginRun
<1>5. CASE WalkPlan
  BY <1>5, <1>1 DEF WalkPlan, SkipStep, EnterTarget, StepsDone, BeforeTarget, AfterTarget,
     TypeOK, cursor, CommandsAt
<1>6. CASE EnsureTools \/ ToolReturns
  BY <1>6, <1>1 DEF EnsureTools, ToolReturns, ToolKnown, BeforeTool, ToolReady, ToolFails,
     cursor, CommandsAt, CurTools, CurTarget, CurCommand
<1>7. CASE PickCommand
  BY <1>7, <1>1 DEF PickCommand, SkipCommand, EnterCommand, CommandsDone, NoShellVariant,
    DryCommand, CommandToolsDone, cursor, CommandsAt, TypeOK
<1>8. CASE RunCommand
  <2> USE <1>1 DEF cursor, CommandsAt
  <2>1. CASE BeforeCommand \/ SpawnFails \/ Spawn
    <3>1. ci \in Nat
      BY DEF TypeOK
    <3>2. CASE BeforeCommand
      BY <3>1, <3>2 DEF BeforeCommand, CommandToolsDone
    <3>3. CASE SpawnFails
      BY <3>3 DEF SpawnFails
    <3>4. CASE Spawn
      BY <3>4 DEF Spawn
    <3> QED BY <2>1, <3>2, <3>3, <3>4
  <2>2. CASE PollExited \/ WaitFails \/ PollCancelled \/ PollSleeps \/ Wake \/ Kill
    BY <2>2 DEF PollExited, WaitFails, PollCancelled, PollSleeps, Wake, Kill
  <2>3. CASE AfterCommand \/ StopChain \/ ContinueChain
    BY <2>3 DEF AfterCommand, StopChain, ContinueChain, TypeOK
  <2> QED BY <1>8, <2>1, <2>2, <2>3 DEF RunCommand
<1>9. CASE Conclude
  BY <1>9 DEF Conclude, CheckCancelled, CheckFinished, AfterAll, EndRun, Exit
<1> QED
  <2>1. CASE ChildExits
    BY <2>1, <1>3 DEF ChildExits, mainVars, cursor
  <2>2. CASE HandlerStep \/ SafetyNet \/ \E s \in Signal : Raise(s)
    BY <2>2, <1>3, HandlerFrame
  <2>3. CASE UNCHANGED vars
    BY <2>3, <1>3 DEF vars, mainVars, cursor
  <2> QED BY <1>4, <1>5, <1>6, <1>7, <1>8, <1>9, <2>1, <2>2, <2>3 DEF Next, MainStep

LEMMA ChildInductive ==
  ASSUME TypeOK, ChildOK, [Next]_vars
  PROVE  ChildOK'
<1> USE DEF ChildOK, InChild, At, Goto
<1>1. child \in {"none", "running"} \cup ChildEnd /\ ran \in Seq(AttemptRecord)
  BY DEF TypeOK
<1>2. CASE UNCHANGED <<child, ran, pc>>
  BY <1>2
<1>3. CASE Prepare \/ WalkPlan \/ EnsureTools \/ ToolReturns
  BY <1>3 DEF Prepare, Install, BeforeAll, BeginRun, WalkPlan, SkipStep, EnterTarget, StepsDone,
    BeforeTarget, AfterTarget, EnsureTools, ToolReturns, ToolKnown, BeforeTool, ToolReady,
    ToolFails, world, history
<1>4. CASE PickCommand \/ Conclude
  BY <1>4 DEF PickCommand, SkipCommand, EnterCommand, CommandsDone, NoShellVariant, DryCommand,
    CommandToolsDone, Conclude, CheckCancelled, CheckFinished, AfterAll, EndRun, Exit,
    world, history
<1>5. CASE RunCommand
  <2>1. CASE BeforeCommand
    BY <2>1 DEF BeforeCommand, CommandToolsDone, world, history
  <2>2. CASE SpawnFails
    BY <2>2 DEF SpawnFails, world
  <2>3. CASE Spawn
    <3>1. Attempt("running") \in AttemptRecord
      BY DEF Attempt, AttemptRecord, TypeOK
    <3>2. ran' # <<>>
      BY <1>1, <2>3, <3>1, AppendAttempt DEF Spawn
    <3> QED BY <2>3, <3>2 DEF Spawn, ChildEnd
  <2>4. CASE PollExited \/ PollCancelled \/ PollSleeps \/ Wake
    BY <2>4 DEF PollExited, PollCancelled, PollSleeps, Wake, world, history
  <2>5. CASE WaitFails
    BY <2>5 DEF WaitFails, ChildEnd
  <2>6. CASE Kill
    BY <2>6, <1>1 DEF Kill, ChildEnd, history
  <2>7. CASE AfterCommand
    BY <2>7 DEF AfterCommand
  <2>8. CASE StopChain \/ ContinueChain
    BY <2>8 DEF StopChain, ContinueChain, world, history
  <2> QED BY <1>5, <2>1, <2>2, <2>3, <2>4, <2>5, <2>6, <2>7, <2>8 DEF RunCommand
<1>6. CASE ChildExits
  BY <1>6 DEF ChildExits, mainVars, history, ChildEnd
<1>7. CASE HandlerStep \/ SafetyNet \/ \E s \in Signal : Raise(s)
  BY <1>2, <1>7, HandlerFrame
<1>8. CASE UNCHANGED vars
  BY <1>2, <1>8 DEF vars, mainVars, history
<1> QED BY <1>3, <1>4, <1>5, <1>6, <1>7, <1>8 DEF Next, MainStep

-----------------------------------------------------------------------------
(* The stream of events.                                                   *)

\* An event that, if it carries a signal's code, carries the handled one's.
Sendable == {e \in EventRecord : e.code \in Signal => e.code = sig}

\* A status with a signal's code is the one synthesized for a cancelled run.
StatusOK ==
  /\ result = "cancelled" => pc \in Ending \ {"check"} /\ handling /\ status = sig
  /\ status \in Signal => result = "cancelled"

LEMMA PlainSendable ==
  ASSUME NEW type \in EventType, NEW t \in Target \cup {"run"},
         NEW about \in Command \cup Tool \cup {"run"}
  PROVE  Plain(type, t, about) \in Sendable
BY SignalAssumption DEF Plain, Event, Sendable, EventRecord, Status

LEMMA CodedSendable ==
  ASSUME NEW type \in EventType, NEW t \in Target \cup {"run"},
         NEW about \in Command \cup Tool \cup {"run"},
         NEW code \in Status, code \in Signal => code = sig,
         NEW ok \in BOOLEAN, NEW stops \in BOOLEAN
  PROVE  Event(type, t, about, code, ok, stops) \in Sendable
BY DEF Event, Sendable, EventRecord

Sends == events' = events \/ \E new \in Seq(Sendable) : events' = events \o new

\* Whatever a step sends is well formed and, if it carries a signal's code,
\* carries the handled one's.
LEMMA EventsSent ==
  ASSUME TypeOK, CursorOK, ChildOK, HandlerOK, StatusOK, [Next]_vars
  PROVE  Sends
<1> USE DEF At, EventType
<1>1. ASSUME NEW e \in Sendable, NEW t, Emit(<<e>>) \/ EmitFor(t, <<e>>)
      PROVE  Sends
  <2>1. <<e>> \in Seq(Sendable)
    OBVIOUS
  <2>2. events' = events \/ events' = events \o <<e>>
    BY <1>1 DEF Emit, EmitFor
  <2> QED BY <2>1, <2>2 DEF Sends
<1>3. CASE BeforeAll
  BY <1>1, <1>3, PlainSendable DEF BeforeAll
<1>4. CASE SkipStep
  BY <1>1, <1>4, PlainSendable, CursorTyped DEF SkipStep
<1>5. CASE BeforeTool \/ ToolReady
  <2>1. CurTarget \in Target /\ CurTools[ti] \in Tool
    BY <1>5, CursorTyped DEF BeforeTool, ToolReady, CursorOK, InTarget
  <2> QED BY <1>1, <1>5, <2>1, PlainSendable DEF BeforeTool, ToolReady
<1>6. CASE BeforeTarget
  <2>1. CurTarget \in Target
    BY <1>6, CursorTyped DEF BeforeTarget, InTarget
  <2>2. ASSUME NEW d, NEW e, d \in Sendable, e \in Sendable
        PROVE  <<d>> \o <<e>> \in Seq(Sendable) /\ <<d>> \o <<>> \in Seq(Sendable)
    BY <2>2, ConcatProperties, EmptySeq
  <2>3. /\ Plain("BeforeTarget", CurTarget, "run") \in Sendable
        /\ Plain("NoTimeTracking", CurTarget, "run") \in Sendable
    BY <2>1, PlainSendable
  <2> DEFINE new == <<Plain("BeforeTarget", CurTarget, "run")>> \o
                    IF CurTarget \in job.untracked
                      THEN <<Plain("NoTimeTracking", CurTarget, "run")>> ELSE <<>>
  <2>4. new \in Seq(Sendable)
    BY <2>2, <2>3
  <2>5. EmitFor(CurTarget, new)
    BY <1>6 DEF BeforeTarget
  <2> HIDE DEF new
  <2> QED BY <2>4, <2>5 DEF EmitFor, Sends
<1>7. CASE SkipCommand
  <2>1. CurTarget \in Target /\ CurCommand \in Command
    BY <1>7, CursorTyped DEF SkipCommand, CursorOK, InTarget, TypeOK
  <2> QED BY <1>1, <1>7, <2>1, PlainSendable DEF SkipCommand
<1>8. CASE BeforeCommand
  <2>1. CurTarget \in Target /\ CurCommand \in Command
    BY <1>8, CursorTyped DEF BeforeCommand, CommandToolsDone, CursorOK, InTarget, TypeOK
  <2> QED BY <1>1, <1>8, <2>1, PlainSendable DEF BeforeCommand
<1>9. CASE SpawnFails \/ WaitFails \/ AfterCommand
  <2>1. CurTarget \in Target /\ CurCommand \in Command
    BY <1>9, CursorTyped DEF SpawnFails, WaitFails, AfterCommand, InTarget, InCommand, InChild
  <2>2. ASSUME NEW code \in {"none"} \cup ChildEnd, NEW ok \in BOOLEAN, NEW stops \in BOOLEAN,
               AfterCommandEvent(code, ok, stops)
        PROVE  Sends
    <3>1. code \in Status /\ code \notin Signal
      BY SignalAssumption DEF Status
    <3>2. Event("AfterCommand", CurTarget, CurCommand, code, ok, stops) \in Sendable
      BY <2>1, <3>1, CodedSendable
    <3> QED BY <1>1, <2>1, <2>2, <3>2 DEF AfterCommandEvent
  <2>3. CASE SpawnFails \/ WaitFails
    BY <2>2, <2>3 DEF SpawnFails, WaitFails
  <2>4. CASE AfterCommand
    <3>1. /\ Code(child) \in {"none"} \cup ChildEnd /\ Success(child) \in BOOLEAN
          /\ (~Success(child) /\ ~Tolerated) \in BOOLEAN
      BY <2>4 DEF AfterCommand, ChildOK, Code, Success, Tolerated
    <3> QED BY <2>2, <2>4, <3>1 DEF AfterCommand
  <2> QED BY <1>9, <2>3, <2>4
<1>10. CASE AfterTarget
  <2>1. CurTarget \in Target
    BY <1>10, CursorTyped DEF AfterTarget, InTarget
  <2>2. Code(last) \in Status /\ Code(last) \notin Signal
    BY SignalAssumption DEF Code, TypeOK, Status, ChildEnd
  <2>3. Success(last) \in BOOLEAN /\ stop \in BOOLEAN
    BY DEF Success, TypeOK
  <2>4. Event("AfterTarget", CurTarget, "run", Code(last), Success(last), stop) \in Sendable
    BY <2>1, <2>2, <2>3, CodedSendable
  <2> QED BY <1>1, <1>10, <2>4 DEF AfterTarget
<1>11. CASE AfterAll
  <2>1. status \in Status /\ Code(status) \in Status /\ "none" \in Status
    BY DEF Code, TypeOK, Status
  <2>2. (status \in Signal => status = sig) /\ (Code(status) \in Signal => Code(status) = sig)
    BY SignalAssumption DEF StatusOK, Code
  <2>3. "none" \notin Signal
    BY SignalAssumption
  <2>4. AfterAllEvent \in Sendable
    <3>0. Success(status) \in BOOLEAN
      BY DEF Success
    <3>1. CASE result = "ok"
      <4>1. AfterAllEvent =
              Event("AfterAll", "run", "run", Code(status), Success(status), FALSE)
        BY <3>1 DEF AfterAllEvent
      <4> QED BY <2>1, <2>2, <3>0, <4>1, CodedSendable
    <3>2. CASE result = "error"
      BY <2>1, <2>3, <3>2, CodedSendable DEF AfterAllEvent
    <3>3. CASE result = "cancelled"
      BY <2>1, <2>2, <3>3, CodedSendable DEF AfterAllEvent
    <3> QED BY <3>1, <3>2, <3>3 DEF TypeOK
  <2> QED BY <1>1, <1>11, <2>4 DEF AfterAll
<1>12. CASE EmitCancelled
  <2>1. sig \in Status
    BY DEF TypeOK, Status
  <2>2. Event("Cancelled", "run", "run", sig, FALSE, FALSE) \in Sendable
    BY <2>1, CodedSendable
  <2>3. events' = events \/ Emit(<<Event("Cancelled", "run", "run", sig, FALSE, FALSE)>>)
        \/ Emit(<<>>)
    BY <1>12 DEF EmitCancelled
  <2>4. <<>> \in Seq(Sendable)
    BY EmptySeq
  <2>5. Emit(<<>>) => Sends
    BY <2>4 DEF Emit, Sends
  <2> QED BY <1>1, <2>2, <2>3, <2>5 DEF Sends
<1>13. CASE UNCHANGED events
  BY <1>13 DEF Sends
<1>14. CASE Prepare \/ WalkPlan \/ EnsureTools \/ ToolReturns
  BY <1>3, <1>4, <1>5, <1>6, <1>10, <1>13, <1>14 DEF Prepare, Install, BeginRun,
    WalkPlan, EnterTarget, StepsDone, EnsureTools, ToolReturns, ToolKnown, ToolFails
<1>15. CASE PickCommand \/ RunCommand
  BY <1>7, <1>8, <1>9, <1>13, <1>15 DEF PickCommand, EnterCommand, CommandsDone, NoShellVariant,
    DryCommand, RunCommand, Spawn, PollExited, PollCancelled, PollSleeps, Wake, Kill,
    StopChain, ContinueChain
<1>16. CASE Conclude \/ ChildExits
  BY <1>11, <1>13, <1>16 DEF Conclude, CheckCancelled, CheckFinished, EndRun, Exit, ChildExits
<1>17. CASE HandlerStep \/ SafetyNet \/ \E s \in Signal : Raise(s)
  BY <1>12, <1>13, <1>17 DEF HandlerStep, IgnoreSignal, HandleSignal, StoreCode, SnapshotRun,
    FlagCancel, ArmSafetyNet, SafetyNet, Raise
<1>18. CASE UNCHANGED vars
  BY <1>13, <1>18 DEF vars
<1> QED BY <1>14, <1>15, <1>16, <1>17, <1>18 DEF Next, MainStep

-----------------------------------------------------------------------------
(* The attempts, and the type invariant.                                   *)

\* Only four actions write the history of attempts.
LEMMA AttemptFrame ==
  ASSUME [Next]_vars
  PROVE  UNCHANGED ran \/ SpawnFails \/ Spawn \/ WaitFails \/ AfterCommand
<1>1. CASE Prepare \/ WalkPlan \/ EnsureTools \/ ToolReturns
  BY <1>1 DEF Prepare, Install, BeforeAll, BeginRun, WalkPlan, SkipStep, EnterTarget, StepsDone,
    BeforeTarget, AfterTarget, EnsureTools, ToolReturns, ToolKnown, BeforeTool, ToolReady,
    ToolFails, history
<1>2. CASE PickCommand \/ Conclude
  BY <1>2 DEF PickCommand, SkipCommand, EnterCommand, CommandsDone, NoShellVariant, DryCommand,
    Conclude, CheckCancelled, CheckFinished, AfterAll, EndRun, Exit, history
<1>3. CASE RunCommand
  BY <1>3 DEF RunCommand, BeforeCommand, PollExited, PollCancelled, PollSleeps, Wake, Kill,
    StopChain, ContinueChain, history
<1>4. CASE ChildExits
  BY <1>4 DEF ChildExits, history
<1>5. CASE HandlerStep \/ SafetyNet \/ \E s \in Signal : Raise(s)
  BY <1>5, HandlerFrame
<1>6. CASE UNCHANGED vars
  BY <1>6 DEF vars, history
<1> QED BY <1>1, <1>2, <1>3, <1>4, <1>5, <1>6 DEF Next, MainStep

\* Spawning appends the record of the command under the cursor.
LEMMA SpawnAppends ==
  ASSUME TypeOK, SpawnFails \/ Spawn
  PROVE  \E end \in {"running", "error"} :
           /\ ran' = Append(ran, Attempt(end)) /\ Attempt(end) \in AttemptRecord
           /\ ran' \in Seq(AttemptRecord) /\ Len(ran') = Len(ran) + 1 /\ Len(ran) \in Nat
           /\ \A n \in 1..Len(ran) : ran'[n] = ran[n]
           /\ ran'[Len(ran) + 1] = Attempt(end)
           /\ end = IF Spawn THEN "running" ELSE "error"
<1> DEFINE end == IF Spawn THEN "running" ELSE "error"
<1>1. ran' = Append(ran, Attempt(end))
  BY DEF SpawnFails, Spawn
<1>2. end \in {"running", "error"} /\ Attempt(end) \in AttemptRecord
  BY DEF Attempt, AttemptRecord, TypeOK
<1> HIDE DEF end
<1>3. /\ ran' \in Seq(AttemptRecord) /\ Len(ran') = Len(ran) + 1 /\ Len(ran) \in Nat
      /\ \A n \in 1..Len(ran) : ran'[n] = ran[n]
      /\ ran'[Len(ran) + 1] = Attempt(end)
  BY <1>1, <1>2, AppendAttempt, LenProperties DEF TypeOK
<1>4. end = IF Spawn THEN "running" ELSE "error"
  BY DEF end
<1> QED BY <1>1, <1>2, <1>3, <1>4

\* The end of a child is noted in the record of the last attempt.
LEMMA ChildEndNoted ==
  ASSUME TypeOK, ChildOK, WaitFails \/ AfterCommand
  PROVE  \E end \in ChildEnd \cup {"error"} :
           /\ ran' \in Seq(AttemptRecord) /\ Len(ran') = Len(ran) /\ Len(ran) \in Nat \ {0}
           /\ \A n \in 1..Len(ran) :
                /\ ran'[n].step = ran[n].step /\ ran'[n].index = ran[n].index
                /\ ran'[n].end = IF n = Len(ran) THEN end ELSE ran[n].end
           /\ end = IF WaitFails THEN "error" ELSE child
<1> DEFINE end == IF WaitFails THEN "error" ELSE child
<1>1. AttemptEnds(end) /\ end \in ChildEnd \cup {"error"}
  BY DEF WaitFails, AfterCommand, ChildOK, At
<1>2. ran # <<>> /\ ran \in Seq(AttemptRecord)
  BY DEF ChildOK, InChild, WaitFails, AfterCommand, At, TypeOK
<1>3. end = IF WaitFails THEN "error" ELSE child
  OBVIOUS
<1> HIDE DEF end
<1> QED BY <1>1, <1>2, <1>3, EndAttempt


\* HANDLING is won once: the signal's name does not change afterwards.
LEMMA SignalKept ==
  ASSUME HandlerOK, [Next]_vars, handling
  PROVE  handling' /\ sig' = sig
<1>1. CASE MainStep \/ ToolReturns \/ ChildExits \/ SafetyNet
  BY <1>1, MainFrame
<1>2. CASE HandlerStep \/ \E s \in Signal : Raise(s)
  BY <1>2 DEF HandlerStep, IgnoreSignal, HandleSignal, StoreCode, SnapshotRun, EmitCancelled,
    FlagCancel, ArmSafetyNet, Raise, HandlerOK
<1>3. CASE UNCHANGED vars
  BY <1>3 DEF vars, sigVars
<1> QED BY <1>1, <1>2, <1>3 DEF Next

\* Where the status, the result and the exit code are written.
LEMMA OutcomeFrame ==
  ASSUME [Next]_vars
  PROVE  /\ UNCHANGED status \/ AfterTarget \/ CheckCancelled
         /\ UNCHANGED result \/ CheckCancelled \/ (result' = "error" /\ pc \in InTarget)
         /\ UNCHANGED proc \/ Exit \/ SafetyNet
<1> USE DEF InTarget, InCommand, InChild, At
<1>1. CASE Prepare \/ WalkPlan \/ EnsureTools \/ ToolReturns
  BY <1>1 DEF Prepare, Install, BeforeAll, BeginRun, WalkPlan, SkipStep, EnterTarget, StepsDone,
    BeforeTarget, AfterTarget, EnsureTools, ToolReturns, ToolKnown, BeforeTool, ToolReady,
    ToolFails, world, books
<1>2. CASE PickCommand \/ Conclude
  BY <1>2 DEF PickCommand, SkipCommand, EnterCommand, CommandsDone, NoShellVariant, DryCommand,
    CommandToolsDone, Conclude, CheckCancelled, CheckFinished, AfterAll, EndRun, Exit, world, books
<1>3. CASE RunCommand
  BY <1>3 DEF RunCommand, BeforeCommand, SpawnFails, Spawn, PollExited, WaitFails, PollCancelled,
    PollSleeps, Wake, Kill, AfterCommand, StopChain, ContinueChain, world, books
<1>4. CASE ChildExits
  BY <1>4 DEF ChildExits, mainVars, books
<1>5. CASE HandlerStep \/ SafetyNet \/ \E s \in Signal : Raise(s)
  BY <1>5, HandlerFrame DEF HandlerStep, IgnoreSignal, HandleSignal, StoreCode, SnapshotRun,
    EmitCancelled, FlagCancel, ArmSafetyNet, Raise
<1>6. CASE UNCHANGED vars
  BY <1>6 DEF vars, mainVars, books
<1> QED BY <1>1, <1>2, <1>3, <1>4, <1>5, <1>6 DEF Next, MainStep

\* CheckCancelled reports the handled signal.
LEMMA CancelledStatus ==
  ASSUME HandlerOK, CheckCancelled
  PROVE  handling /\ sig \in Signal /\ status' = sig /\ result' = "cancelled"
BY DEF CheckCancelled, HandlerOK

\* Past the check of the flag nothing is decided any more.
LEMMA Concluding ==
  ASSUME [Next]_vars, pc \in Ending \ {"check"}
  PROVE  pc' \in Ending \ {"check"} /\ UNCHANGED <<status, result>>
<1> USE DEF Ending, At, Goto
<1>1. CASE MainStep \/ ToolReturns
  <2>1. Conclude
    BY <1>1 DEF MainStep, ToolReturns, Prepare, WalkPlan, EnsureTools, PickCommand, RunCommand,
      Install, BeforeAll, BeginRun, SkipStep, EnterTarget, StepsDone, BeforeTarget, AfterTarget,
      ToolKnown, BeforeTool, ToolReady, ToolFails, SkipCommand, EnterCommand, CommandsDone,
      NoShellVariant, DryCommand, CommandToolsDone, BeforeCommand, SpawnFails, Spawn, PollExited,
      WaitFails, PollCancelled, PollSleeps, Wake, Kill, AfterCommand, StopChain, ContinueChain
  <2> QED BY <2>1 DEF Conclude, CheckCancelled, CheckFinished, AfterAll, EndRun, Exit, books
<1>2. CASE ChildExits \/ UNCHANGED vars
  BY <1>2 DEF ChildExits, vars, mainVars, books
<1>3. CASE HandlerStep \/ SafetyNet \/ \E s \in Signal : Raise(s)
  BY <1>3, HandlerFrame
<1> QED BY <1>1, <1>2, <1>3 DEF Next

LEMMA StatusInductive ==
  ASSUME TypeOK, HandlerOK, StatusOK, [Next]_vars
  PROVE  StatusOK'
<1>1. CASE CheckCancelled
  BY <1>1, CancelledStatus, SignalKept DEF StatusOK, CheckCancelled, Goto, Ending
<1>2. CASE result = "cancelled"
  BY <1>2, Concluding, SignalKept DEF StatusOK
<1>3. CASE ~CheckCancelled /\ result # "cancelled"
  <2>1. result' # "cancelled"
    BY <1>3, OutcomeFrame
  <2>2. status' = status \/ status' \in ChildEnd
    BY <1>3, OutcomeFrame DEF AfterTarget, TypeOK
  <2>3. status' \notin Signal
    BY <1>3, <2>2, SignalAssumption DEF StatusOK
  <2> QED BY <2>1, <2>3 DEF StatusOK
<1> QED BY <1>1, <1>2, <1>3

-----------------------------------------------------------------------------
(* Type correctness.                                                       *)

LEMMA EventsTyped ==
  ASSUME TypeOK, CursorOK, ChildOK, HandlerOK, StatusOK, [Next]_vars
  PROVE  events' \in Seq(EventRecord)
<1>1. ASSUME NEW new \in Seq(Sendable)
      PROVE  events \o new \in Seq(EventRecord)
  <2>1. new \in Seq(EventRecord)
    BY SeqMonotonic DEF Sendable
  <2> QED BY <2>1, ConcatProperties DEF TypeOK
<1> QED BY <1>1, EventsSent DEF Sends, TypeOK

LEMMA AttemptsTyped ==
  ASSUME TypeOK, ChildOK, [Next]_vars
  PROVE  ran' \in Seq(AttemptRecord)
BY AttemptFrame, SpawnAppends, ChildEndNoted DEF TypeOK

\* The variables of the main thread and of the process.
BooksOK ==
  /\ job \in Jobs /\ pc \in Label
  /\ si \in Nat \ {0} /\ ti \in Nat \ {0} /\ ci \in Nat
  /\ ensured \subseteq Tool /\ last \in {"none"} \cup ChildEnd /\ stop \in BOOLEAN
  /\ status \in Status /\ result \in {"ok", "error", "cancelled"} /\ updates \in Nat
  /\ child \in {"none", "running"} \cup ChildEnd
  /\ runActive \in BOOLEAN /\ installed \in BOOLEAN
  /\ proc \in {"alive", "ok", "failed", "one"} \cup Signal
  /\ ready \subseteq Tool /\ late \in Nat

LEMMA BooksTyped ==
  ASSUME TypeOK, CursorOK, ChildOK, HandlerOK, [Next]_vars
  PROVE  BooksOK'
<1> USE DEF BooksOK, Goto
<1>1. BooksOK
  BY DEF TypeOK
<1>2. CASE Prepare
  BY <1>1, <1>2 DEF Prepare, Install, BeforeAll, BeginRun, cursor, books, world, history, Label
<1>3. CASE WalkPlan
  <2> USE DEF books, world, history, Label
  <2>1. CASE SkipStep
    BY <1>1, <2>1 DEF SkipStep
  <2>2. CASE EnterTarget
    <3>1. /\ UNCHANGED <<job, si, ensured, status, result, updates, child, runActive, installed,
                         proc, ready, late>>
          /\ pc' = "tools" /\ ti' = 1 /\ ci' = 0 /\ last' = "none" /\ stop' = FALSE
      BY <2>2 DEF EnterTarget
    <3>2. ti' \in Nat \ {0} /\ ci' \in Nat
      BY <3>1
    <3>3. pc' \in Label /\ last' \in {"none"} \cup ChildEnd /\ stop' \in BOOLEAN
      BY <3>1
    <3> HIDE DEF Label
    <3> QED BY <1>1, <3>1, <3>2, <3>3
  <2>5. CASE StepsDone
    BY <1>1, <2>5 DEF StepsDone, cursor
  <2>3. CASE BeforeTarget
    BY <1>1, <2>3 DEF BeforeTarget
  <2>4. CASE AfterTarget
    BY <1>1, <2>4 DEF AfterTarget, Status
  <2> QED BY <1>3, <2>1, <2>2, <2>3, <2>4, <2>5 DEF WalkPlan
<1>4. CASE EnsureTools \/ ToolReturns
  <2>1. pc \in {"tools", "ensure"} /\ ti <= Len(CurTools) => CurTools[ti] \in Tool
    BY CursorTyped
  <2>2. pc = "ensure" => ti <= Len(CurTools)
    BY DEF CursorOK
  <2>3. CASE EnsureTools
    BY <1>1, <2>1, <2>3 DEF EnsureTools, ToolKnown, BeforeTool, At, books, world, history, cursor, Label
  <2>4. CASE ToolReady
    BY <1>1, <2>1, <2>2, <2>4 DEF ToolReady, At, books, world, history, cursor, Label
  <2>5. CASE ToolFails
    BY <1>1, <2>5 DEF ToolFails, world, history, cursor, Label
  <2> QED BY <1>4, <2>3, <2>4, <2>5 DEF ToolReturns
<1>5. CASE PickCommand
  BY <1>1, <1>5 DEF PickCommand, SkipCommand, EnterCommand, CommandsDone, NoShellVariant, DryCommand,
    cursor, books, world, history, Label
<1>6. CASE RunCommand
  <2>1. CASE BeforeCommand \/ PollExited \/ PollCancelled \/ PollSleeps \/ Wake
    BY <1>1, <2>1 DEF BeforeCommand, PollExited, PollCancelled, PollSleeps, Wake,
      cursor, books, world, history, Label
  <2>2. CASE SpawnFails \/ WaitFails
    BY <1>1, <2>2 DEF SpawnFails, WaitFails, cursor, world, Label
  <2>6. CASE Spawn
    BY <1>1, <2>6 DEF Spawn, cursor, books, Label
  <2>3. CASE Kill
    BY <1>1, <2>3 DEF Kill, cursor, books, history, Label, ChildEnd
  <2>4. CASE AfterCommand
    BY <1>1, <2>4 DEF AfterCommand, At, ChildOK, cursor, Label
  <2>5. CASE StopChain
    BY <1>1, <2>5 DEF StopChain, cursor, world, history, Label
  <2>7. CASE ContinueChain
    BY <1>1, <2>7 DEF ContinueChain, books, world, history, Label
  <2> QED BY <1>6, <2>1, <2>2, <2>3, <2>4, <2>5, <2>6, <2>7 DEF RunCommand
<1>7. CASE CheckCancelled \/ CheckFinished \/ AfterAll \/ EndRun
  BY <1>1, <1>7 DEF CheckCancelled, CheckFinished, AfterAll, EndRun, cursor, books, world, history,
    Label, TypeOK, Status
<1>8. CASE Exit
  <2>1. proc' \in {"alive", "ok", "failed", "one"} \cup Signal
    BY <1>1, <1>8 DEF Exit, ExitOf, Status, ChildEnd
  <2> QED BY <1>1, <1>8, <2>1 DEF Exit, cursor, books, history, Label
<1>9. CASE ChildExits
  BY <1>1, <1>9 DEF ChildExits, mainVars, cursor, books, history
<1>10. CASE SafetyNet
  BY <1>1, <1>10, HandlerFrame DEF SafetyNet, HandlerOK
<1>11. CASE HandlerStep \/ \E s \in Signal : Raise(s)
  <2>1. UNCHANGED proc
    BY <1>11 DEF HandlerStep, IgnoreSignal, HandleSignal, StoreCode, SnapshotRun,
      EmitCancelled, FlagCancel, ArmSafetyNet, Raise
  <2> QED BY <1>1, <1>11, <2>1, HandlerFrame
<1>12. CASE UNCHANGED vars
  BY <1>1, <1>12 DEF vars, mainVars, cursor, books, history
<1> QED BY <1>2, <1>3, <1>4, <1>5, <1>6, <1>7, <1>8, <1>9, <1>10, <1>11, <1>12
     DEF Next, MainStep, Conclude

\* The variables of the signal thread.
LEMMA HandlerTyped ==
  ASSUME TypeOK, [Next]_vars
  PROVE  /\ pending' \subseteq Signal /\ hpc' \in HandlerLabel
         /\ handling' \in BOOLEAN /\ sig' \in Signal \cup {"none"} /\ snapshot' \in BOOLEAN
         /\ exitCode' \in Signal \cup {"none"} /\ cancel' \in BOOLEAN /\ net' \in BOOLEAN
<1> USE DEF TypeOK
<1>1. CASE MainStep \/ ToolReturns \/ ChildExits \/ SafetyNet
  BY <1>1, MainFrame
<1>2. CASE HandlerStep
  BY <1>2 DEF HandlerStep, IgnoreSignal, HandleSignal, StoreCode, SnapshotRun, EmitCancelled,
    FlagCancel, ArmSafetyNet, HandlerLabel
<1>3. CASE \E s \in Signal : Raise(s)
  BY <1>3 DEF Raise
<1>4. CASE UNCHANGED vars
  BY <1>4 DEF vars, sigVars
<1> QED BY <1>1, <1>2, <1>3, <1>4 DEF Next

TypeInv == TypeOK /\ CursorOK /\ ChildOK /\ HandlerOK /\ StatusOK

LEMMA TypeInvInitially ==
  ASSUME Init
  PROVE  TypeInv
<1>1. TypeOK
  <2>1. events \in Seq(EventRecord) /\ ran \in Seq(AttemptRecord)
    BY EmptySeq DEF Init
  <2>2. pc \in Label /\ hpc \in HandlerLabel /\ status \in Status
    BY DEF Init, Label, HandlerLabel, Status
  <2>3. /\ si \in Nat \ {0} /\ ti \in Nat \ {0} /\ ci \in Nat /\ updates \in Nat /\ late \in Nat
        /\ ensured \subseteq Tool /\ ready \subseteq Tool /\ pending \subseteq Signal
    BY DEF Init
  <2>4. /\ stop \in BOOLEAN /\ runActive \in BOOLEAN /\ installed \in BOOLEAN
        /\ handling \in BOOLEAN /\ snapshot \in BOOLEAN /\ cancel \in BOOLEAN /\ net \in BOOLEAN
    BY DEF Init
  <2>5. /\ job \in Jobs /\ last \in {"none"} \cup ChildEnd
        /\ result \in {"ok", "error", "cancelled"}
        /\ child \in {"none", "running"} \cup ChildEnd
        /\ sig \in Signal \cup {"none"} /\ exitCode \in Signal \cup {"none"}
        /\ proc \in {"alive", "ok", "failed", "one"} \cup Signal
    BY DEF Init
  <2> QED BY <2>1, <2>2, <2>3, <2>4, <2>5 DEF TypeOK
<1>2. CursorOK /\ ChildOK
  BY DEF Init, CursorOK, ChildOK, InTarget, InCommand, InChild
<1>3. HandlerOK /\ StatusOK
  BY SignalAssumption DEF Init, HandlerOK, StatusOK
<1> QED BY <1>1, <1>2, <1>3 DEF TypeInv

LEMMA TypeInvInductive ==
  ASSUME TypeInv, [Next]_vars
  PROVE  TypeInv'
<1> USE DEF TypeInv
<1>1. TypeOK'
  BY BooksTyped, HandlerTyped, EventsTyped, AttemptsTyped DEF TypeOK, BooksOK
<1> QED BY <1>1, CursorInductive, ChildInductive, HandlerInductive, StatusInductive

\* Whatever the job and however main, the signal thread, the safety net and the
\* child interleave, no variable of the run leaves its type; in particular
\* run_steps and run_one never index past the plan, the commands or the tools.
THEOREM TypeCorrect == Spec => []TypeOK
<1>1. Init => TypeInv
  BY TypeInvInitially
<1>2. TypeInv /\ [Next]_vars => TypeInv'
  BY TypeInvInductive
<1>3. TypeInv => TypeOK
  BY DEF TypeInv
<1> QED BY <1>1, <1>2, <1>3, PTL DEF Spec

-----------------------------------------------------------------------------
(* One signal, in every report and for the whole run.                      *)

LEMMA OneSignalInductive ==
  ASSUME TypeInv, OneSignalEverywhere, [Next]_vars
  PROVE  OneSignalEverywhere'
<1> USE DEF TypeInv
<1>1. sig \in Signal => handling' /\ sig' = sig
  <2>1. sig \in Signal => handling
    BY SignalAssumption DEF HandlerOK
  <2> QED BY <2>1, SignalKept
<1>2. (result = "cancelled" => handling /\ status = sig)'
  BY TypeInvInductive DEF StatusOK
<1>3. (proc \in Signal => handling /\ proc = sig)'
  <2>1. CASE UNCHANGED proc
    BY <1>1, <2>1 DEF OneSignalEverywhere
  <2>2. CASE Exit
    <3>1. proc' \in Signal => status \in Signal /\ proc' = status
      BY <2>2, SignalAssumption DEF Exit, ExitOf, ChildEnd
    <3> QED BY <1>1, <3>1 DEF StatusOK
  <2>3. CASE SafetyNet
    BY <1>1, <2>3 DEF SafetyNet
  <2> QED BY <2>1, <2>2, <2>3, OutcomeFrame
<1>4. (\A n \in 1..Len(events) : events[n].code \in Signal => events[n].code = sig)'
  <2> SUFFICES ASSUME NEW n \in 1..Len(events'), events'[n].code \in Signal
               PROVE  events'[n].code = sig
    BY <1>1
  <2>1. CASE events' = events
    BY <2>1 DEF OneSignalEverywhere
  <2>2. ASSUME NEW new \in Seq(Sendable), events' = events \o new
        PROVE  events'[n].code = sig
    <3>1. /\ events \in Seq(EventRecord) /\ new \in Seq(EventRecord)
          /\ Len(events) \in Nat /\ Len(new) \in Nat
      BY SeqMonotonic, LenProperties DEF TypeOK, Sendable
    <3>2. /\ n \in 1..(Len(events) + Len(new))
          /\ events'[n] = IF n <= Len(events) THEN events[n] ELSE new[n - Len(events)]
      BY <2>2, <3>1, ConcatProperties
    <3>3. CASE n <= Len(events)
      BY <3>1, <3>2, <3>3 DEF OneSignalEverywhere
    <3>4. CASE ~(n <= Len(events))
      <4>1. n - Len(events) \in 1..Len(new)
        BY <3>1, <3>2, <3>4
      <4>2. new[n - Len(events)] \in Sendable
        BY <4>1, ElementOfSeq
      <4> QED BY <3>2, <3>4, <4>2 DEF Sendable
    <3> QED BY <3>3, <3>4
  <2> QED BY <2>1, <2>2, EventsSent DEF Sends
<1> QED BY <1>2, <1>3, <1>4 DEF OneSignalEverywhere

\* Every report of a cancellation, in the event stream, in the run's status and
\* in the process's exit code, names the one signal that won HANDLING, however
\* many signals arrive and whenever they do.
THEOREM OneSignal == Spec => []OneSignalEverywhere
<1>1. Init => TypeInv /\ OneSignalEverywhere
  <2> SUFFICES ASSUME Init PROVE OneSignalEverywhere
    BY TypeInvInitially
  <2> QED BY SignalAssumption DEF Init, OneSignalEverywhere
<1>2. TypeInv /\ OneSignalEverywhere /\ [Next]_vars => (TypeInv /\ OneSignalEverywhere)'
  BY TypeInvInductive, OneSignalInductive
<1> QED BY <1>1, <1>2, PTL DEF Spec

\* EXIT_CODE, once stored, is never stored again.
THEOREM FirstSignal == Spec => FirstSignalWins
<1>1. Init => TypeInv
  BY TypeInvInitially
<1>2. TypeInv /\ [Next]_vars => TypeInv'
  BY TypeInvInductive
<1>3. TypeInv /\ [Next]_vars => [exitCode # "none" => exitCode' = exitCode]_vars
  <2> SUFFICES ASSUME TypeInv, [Next]_vars, exitCode # "none"
               PROVE  exitCode' = exitCode
    OBVIOUS
  <2>1. CASE MainStep \/ ToolReturns \/ ChildExits \/ SafetyNet
    BY <2>1, MainFrame
  <2>2. CASE HandlerStep
    BY <2>2 DEF HandlerStep, IgnoreSignal, HandleSignal, StoreCode, SnapshotRun, EmitCancelled,
      FlagCancel, ArmSafetyNet, TypeInv, HandlerOK, HandlerAt
  <2>3. CASE (\E s \in Signal : Raise(s)) \/ UNCHANGED vars
    BY <2>3 DEF Raise, vars, sigVars
  <2> QED BY <2>1, <2>2, <2>3 DEF Next
<1> QED BY <1>1, <1>2, <1>3, PTL DEF Spec, FirstSignalWins

-----------------------------------------------------------------------------
(* At most one command after the flag.                                     *)

\* CANCEL_REQUESTED is never taken back.
LEMMA CancelKept ==
  ASSUME [Next]_vars, cancel
  PROVE  cancel'
<1>1. CASE MainStep \/ ToolReturns \/ ChildExits \/ SafetyNet
  BY <1>1, MainFrame
<1>2. CASE HandlerStep \/ \E s \in Signal : Raise(s)
  BY <1>2 DEF HandlerStep, IgnoreSignal, HandleSignal, StoreCode, SnapshotRun, EmitCancelled,
    FlagCancel, ArmSafetyNet, Raise
<1>3. CASE UNCHANGED vars
  BY <1>3 DEF vars, sigVars
<1> QED BY <1>1, <1>2, <1>3 DEF Next

\* The region past the last spawn is not left: the decision after a command
\* looks at the flag, and a stopped chain goes straight to the end of the run.
LEMMA UnwindingStep ==
  ASSUME Unwinding, MainStep \/ ToolReturns
  PROVE  /\ late' = late
         /\ pc' \in InChild \cup {"decide"} \cup Ending \/ (pc' = "afterTarget" /\ stop')
<1> USE DEF Unwinding, At, Goto
<1>1. RunCommand \/ AfterTarget \/ Conclude
  BY DEF MainStep, ToolReturns, Prepare, WalkPlan, EnsureTools, PickCommand, Install, BeforeAll,
    BeginRun, SkipStep, EnterTarget, StepsDone, BeforeTarget, ToolKnown, BeforeTool, ToolReady,
    ToolFails, SkipCommand, EnterCommand, CommandsDone, NoShellVariant, DryCommand,
    CommandToolsDone, InChild, Ending
<1>2. CASE RunCommand
  <2>1. ~BeforeCommand /\ ~SpawnFails /\ ~Spawn /\ ~ContinueChain
    BY DEF BeforeCommand, SpawnFails, Spawn, ContinueChain, MustStop, CommandToolsDone, InChild,
      Ending
  <2>2. CASE PollExited \/ WaitFails \/ PollCancelled \/ PollSleeps \/ Wake
    <3>1. pc' \in {"afterCommand", "check", "kill", "sleep", "poll"} /\ late' = late
      BY <2>2 DEF PollExited, WaitFails, PollCancelled, PollSleeps, Wake, history
    <3> QED BY <3>1 DEF InChild, Ending
  <2>3. CASE Kill \/ AfterCommand
    <3>1. pc' \in {"afterCommand", "decide"} /\ late' = late
      BY <2>3 DEF Kill, AfterCommand, history
    <3> QED BY <3>1 DEF InChild
  <2>4. CASE StopChain
    BY <2>4 DEF StopChain, history
  <2> QED BY <1>2, <2>1, <2>2, <2>3, <2>4 DEF RunCommand
<1>3. CASE Conclude
  <2>1. pc' \in Ending /\ late' = late
    BY <1>3 DEF Conclude, CheckCancelled, CheckFinished, AfterAll, EndRun, Exit, history, Ending
  <2> QED BY <2>1
<1>4. CASE AfterTarget
  <2>1. pc = "afterTarget" /\ stop
    BY <1>4 DEF AfterTarget, InChild, Ending
  <2>2. pc' = "check" /\ late' = late
    BY <1>4, <2>1 DEF AfterTarget, history
  <2> QED BY <2>2 DEF Ending
<1> QED BY <1>1, <1>2, <1>3, <1>4

LEMMA LateInductive ==
  ASSUME TypeInv, LateOK, [Next]_vars
  PROVE  LateOK'
<1>1. CASE UNCHANGED <<pc, stop, late>>
  BY <1>1, CancelKept DEF LateOK, Unwinding
<1>2. CASE ChildExits \/ HandlerStep \/ SafetyNet \/ (\E s \in Signal : Raise(s)) \/ UNCHANGED vars
  BY <1>1, <1>2, HandlerFrame DEF ChildExits, vars, mainVars, books, history
<1>3. CASE (MainStep \/ ToolReturns) /\ late = 1 /\ Unwinding
  BY <1>3, UnwindingStep, CancelKept DEF LateOK, Unwinding
<1>4. CASE (MainStep \/ ToolReturns) /\ late = 0
  <2>1. CASE Spawn
    BY <1>4, <2>1 DEF Spawn, LateOK, Unwinding, InChild, Goto, sigVars
  <2>2. CASE UNCHANGED late
    BY <1>4, <2>2 DEF LateOK
  <2>3. Spawn \/ UNCHANGED late
    BY <1>4 DEF MainStep, ToolReturns, Prepare, WalkPlan, EnsureTools, PickCommand, RunCommand,
      Conclude, Install, BeforeAll, BeginRun, SkipStep, EnterTarget, StepsDone, BeforeTarget,
      AfterTarget, ToolKnown, BeforeTool, ToolReady, ToolFails, SkipCommand, EnterCommand,
      CommandsDone, NoShellVariant, DryCommand, BeforeCommand, SpawnFails, PollExited, WaitFails,
      PollCancelled, PollSleeps, Wake, Kill, AfterCommand, StopChain, ContinueChain,
      CheckCancelled, CheckFinished, AfterAll, EndRun, Exit, history
  <2> QED BY <2>1, <2>2, <2>3
<1> QED BY <1>2, <1>3, <1>4 DEF Next, LateOK

\* Once CANCEL_REQUESTED is set at most one more command is started, for every
\* plan and every moment the signal comes.
THEOREM OneLate == Spec => []OneLateSpawn
<1>1. Init => TypeInv /\ LateOK
  BY TypeInvInitially DEF Init, LateOK
<1>2. TypeInv /\ LateOK /\ [Next]_vars => (TypeInv /\ LateOK)'
  BY TypeInvInductive, LateInductive
<1>3. LateOK => OneLateSpawn
  BY DEF LateOK, OneLateSpawn
<1> QED BY <1>1, <1>2, <1>3, PTL DEF Spec

-----------------------------------------------------------------------------
(* The chain stops at a failure.                                           *)

\* Main comes from one attempt to where it may start the next only through the
\* decision to continue.
LEMMA ChainMoves ==
  ASSUME MainStep \/ ToolReturns, ~Spawn, ~SpawnFails, ~WaitFails, ~AfterCommand
  PROVE  \/ pc' \in Ending
         \/ pc \in Starting /\ ~(pc = "afterTarget" /\ stop) /\ pc' \in Starting
         \/ pc \in InChild /\ pc' \in InChild /\ si' = si /\ ci' = ci
         \/ StopChain \/ ContinueChain
<1> USE DEF At, Goto
<1>1. CASE Prepare \/ EnsureTools \/ ToolReturns
  <2>1. pc \in {"install", "beforeAll", "begin", "tools", "ensure"}
        /\ (pc' \in {"beforeAll", "begin", "step", "ensure", "tools"} \/ pc' = "check")
    BY <1>1 DEF Prepare, Install, BeforeAll, BeginRun, EnsureTools, ToolReturns, ToolKnown,
      BeforeTool, ToolReady, ToolFails
  <2> QED BY <2>1 DEF Starting, Early, InTarget, InCommand, InChild, Ending
<1>2. CASE SkipStep \/ EnterTarget \/ StepsDone \/ BeforeTarget
  <2>1. pc \in {"step", "tools"} /\ (pc' \in {"step", "tools", "command"} \/ pc' = "check")
    BY <1>2 DEF SkipStep, EnterTarget, StepsDone, BeforeTarget
  <2> QED BY <2>1 DEF Starting, Early, InTarget, InCommand, InChild, Ending
<1>3. CASE AfterTarget
  <2>1. pc = "afterTarget" /\ IF stop THEN pc' = "check" ELSE pc' = "step"
    BY <1>3 DEF AfterTarget
  <2> QED BY <2>1 DEF Starting, Early, InTarget, InCommand, InChild, Ending
<1>4. CASE PickCommand \/ BeforeCommand
  <2>1. pc \in {"command", "tools"}
        /\ (pc' \in {"command", "tools", "spawn", "afterTarget"} \/ pc' = "check")
    BY <1>4 DEF PickCommand, SkipCommand, EnterCommand, CommandsDone, NoShellVariant, DryCommand,
      CommandToolsDone, BeforeCommand
  <2> QED BY <2>1 DEF Starting, Early, InTarget, InCommand, InChild, Ending
<1>5. CASE PollExited \/ PollCancelled \/ PollSleeps \/ Wake \/ Kill
  <2>1. pc \in InChild /\ pc' \in InChild
    BY <1>5 DEF PollExited, PollCancelled, PollSleeps, Wake, Kill, InChild
  <2>2. si' = si /\ ci' = ci
    BY <1>5 DEF PollExited, PollCancelled, PollSleeps, Wake, Kill, cursor
  <2> QED BY <2>1, <2>2
<1>6. CASE Conclude
  BY <1>6 DEF Conclude, CheckCancelled, CheckFinished, AfterAll, EndRun, Exit, Ending
<1> QED BY <1>1, <1>2, <1>3, <1>4, <1>5, <1>6
     DEF MainStep, WalkPlan, RunCommand

\* A decision to continue is taken only after a command that passed.
LEMMA ContinuesPassed ==
  ASSUME TypeOK, ChainOK, ContinueChain
  PROVE  Passed(ran[Len(ran)])
<1> DEFINE a == ran[Len(ran)]
<1>1. pc = "decide" /\ (Success(last) \/ Tolerated)
  BY DEF ContinueChain, MustStop, At
<1>2. a \in AttemptRecord /\ a.end = last /\ a.step = si /\ a.index = ci
  BY <1>1, EmptySeq, ElementOfSeq DEF ChainOK, TypeOK
<1>3. last \in ChildEnd
  BY <1>2 DEF AttemptRecord, TypeOK, ChildEnd
<1>4. CommandOf(a) = CurCommand
  BY <1>2 DEF CommandOf, CurCommand
<1> QED BY <1>1, <1>2, <1>3, <1>4 DEF Passed, Success, Tolerated, ChildEnd

LEMMA ChainInductive ==
  ASSUME TypeInv, ChainOK, [Next]_vars
  PROVE  ChainOK'
<1> USE DEF TypeInv
<1>1. job' = job /\ Len(ran) \in Nat
  BY MainFrame, HandlerFrame, LenProperties DEF Next, vars, mainVars, TypeOK
\* Passed looks at the attempt's fields and at the job only.
<1>2. ASSUME NEW n, NEW m, ran'[n].step = ran[m].step, ran'[n].index = ran[m].index,
             ran'[n].end = ran[m].end, Passed(ran[m])
      PROVE  Passed(ran[n])'
  BY <1>1, <1>2 DEF Passed, CommandOf, CommandsAt, Plan
<1>3. CASE SpawnFails \/ Spawn
  <2>1. pc \in Starting /\ pc # "afterTarget" /\ pc' \in {"poll", "check"}
        /\ si' = si /\ ci' = ci
    BY <1>3 DEF SpawnFails, Spawn, At, Goto, Starting, Early, InTarget, InCommand, InChild, cursor
  <2>2. /\ Len(ran') = Len(ran) + 1 /\ \A n \in 1..Len(ran) : ran'[n] = ran[n]
        /\ ran'[Len(ran')].step = si /\ ran'[Len(ran')].index = ci
    BY <1>3, SpawnAppends DEF Attempt
  <2>3. \A n \in 1..Len(ran) : Passed(ran[n])'
    BY <1>2, <2>1, <2>2 DEF ChainOK
  <2>4. StopsAtFailure'
    BY <1>1, <2>2, <2>3 DEF StopsAtFailure
  <2>5. pc' # "decide" /\ pc' \notin Starting
    BY <2>1 DEF Starting, Early, InTarget, InCommand, InChild
  <2> QED BY <2>1, <2>2, <2>4, <2>5 DEF ChainOK
<1>4. CASE WaitFails \/ AfterCommand
  <2>1. pc \in InChild /\ pc' \in {"decide", "check"} /\ si' = si /\ ci' = ci
        /\ (pc' = "decide" => AfterCommand)
    BY <1>4 DEF WaitFails, AfterCommand, At, Goto, InChild, cursor
  <2>2. /\ Len(ran') = Len(ran) /\ Len(ran) \in Nat \ {0}
        /\ \A n \in 1..Len(ran) :
             /\ ran'[n].step = ran[n].step /\ ran'[n].index = ran[n].index
             /\ n # Len(ran) => ran'[n].end = ran[n].end
    BY <1>4, ChildEndNoted
  <2>3. StopsAtFailure'
    <3> SUFFICES ASSUME NEW n \in 1..(Len(ran) - 1) PROVE Passed(ran[n])'
      BY <2>2 DEF StopsAtFailure
    <3>1. n \in 1..Len(ran) /\ n # Len(ran) /\ Passed(ran[n])
      BY <2>2 DEF ChainOK, StopsAtFailure
    <3> QED BY <1>2, <2>2, <3>1
  <2>4. pc' = "decide" => ran' # <<>> /\ ran'[Len(ran')].end = last'
    <3> SUFFICES ASSUME pc' = "decide" PROVE ran' # <<>> /\ ran'[Len(ran')].end = last'
      OBVIOUS
    <3>1. AfterCommand /\ ~WaitFails
      BY <2>1 DEF WaitFails, Goto
    <3>2. ran'[Len(ran)].end = child /\ last' = child
      BY <2>2, <3>1, ChildEndNoted DEF AfterCommand
    <3> QED BY <2>2, <3>2, EmptySeq
  <2>5. ran'[Len(ran')].step = si' /\ ran'[Len(ran')].index = ci'
    BY <2>1, <2>2 DEF ChainOK
  <2>6. pc' \notin Starting
    BY <2>1 DEF Starting, Early, InTarget, InCommand, InChild
  <2> QED BY <2>3, <2>4, <2>5, <2>6 DEF ChainOK
<1>5. CASE UNCHANGED <<pc, si, ci, last, stop, ran>>
  BY <1>1, <1>5 DEF ChainOK, StopsAtFailure, Passed, CommandOf, CommandsAt, Plan
<1>6. CASE (MainStep \/ ToolReturns) /\ ~Spawn /\ ~SpawnFails /\ ~WaitFails /\ ~AfterCommand
  <2>1. ran' = ran
    BY <1>6, AttemptFrame
  <2>2. ASSUME NEW n, Passed(ran[n])
        PROVE  Passed(ran[n])'
    BY <1>2, <2>1, <2>2
  <2>3. StopsAtFailure'
    BY <2>1, <2>2 DEF ChainOK, StopsAtFailure
  <2>4. CASE pc' \in Ending
    <3>1. pc' # "decide" /\ pc' \notin InChild \cup {"decide"} /\ pc' \notin Starting
      BY <2>4 DEF Ending, Starting, Early, InTarget, InCommand, InChild
    <3> QED BY <2>3, <3>1 DEF ChainOK
  <2>5. CASE pc \in Starting /\ ~(pc = "afterTarget" /\ stop) /\ pc' \in Starting
    <3>1. pc' # "decide" /\ pc' \notin InChild \cup {"decide"}
      BY <2>5 DEF Starting, Early, InTarget, InCommand, InChild
    <3>2. \A n \in 1..Len(ran') : Passed(ran[n])'
      BY <2>1, <2>2, <2>5 DEF ChainOK
    <3> QED BY <2>3, <3>1, <3>2 DEF ChainOK
  <2>6. CASE pc \in InChild /\ pc' \in InChild /\ si' = si /\ ci' = ci
    <3>1. pc' # "decide" /\ pc' \notin Starting
      BY <2>6 DEF Starting, InChild
    <3> QED BY <2>1, <2>3, <2>6, <3>1 DEF ChainOK
  <2>7. CASE StopChain
    <3>1. pc' = "afterTarget" /\ stop'
      BY <2>7 DEF StopChain, Goto
    <3>2. pc' # "decide" /\ pc' \notin InChild \cup {"decide"}
      BY <3>1 DEF InChild
    <3> QED BY <2>3, <3>1, <3>2 DEF ChainOK
  <2>8. CASE ContinueChain
    <3>1. pc = "decide" /\ pc' = "command"
      BY <2>8 DEF ContinueChain, At, Goto
    <3>2. pc' # "decide" /\ pc' \notin InChild \cup {"decide"}
      BY <3>1 DEF InChild
    <3>3. Passed(ran[Len(ran)])
      BY <2>8, ContinuesPassed
    <3>4. \A n \in 1..Len(ran) : Passed(ran[n])
      BY <1>1, <3>3 DEF ChainOK, StopsAtFailure
    <3>5. \A n \in 1..Len(ran') : Passed(ran[n])'
      BY <2>1, <2>2, <3>4
    <3> QED BY <2>3, <3>2, <3>5 DEF ChainOK
  <2> QED BY <1>6, <2>4, <2>5, <2>6, <2>7, <2>8, ChainMoves
<1> QED
  <2>1. CASE ChildExits \/ HandlerStep \/ SafetyNet \/ (\E s \in Signal : Raise(s)) \/ UNCHANGED vars
    BY <1>5, <2>1, HandlerFrame DEF ChildExits, vars, mainVars, books, cursor, history
  <2> QED BY <1>3, <1>4, <1>6, <2>1 DEF Next

\* Execution stops at the first command that fails and is not tolerated, or that
\* cannot be launched or waited for, whatever the plan and the interleaving.
THEOREM ChainStops == Spec => []StopsAtFailure
<1>1. Init => TypeInv /\ ChainOK
  <2> SUFFICES ASSUME Init PROVE ChainOK
    BY TypeInvInitially
  <2>1. pc = "install" /\ 1..Len(ran) = {} /\ 1..(Len(ran) - 1) = {}
    BY EmptySeq DEF Init
  <2> QED BY <2>1 DEF ChainOK, StopsAtFailure, InChild
<1>2. TypeInv /\ ChainOK /\ [Next]_vars => (TypeInv /\ ChainOK)'
  BY TypeInvInductive, ChainInductive
<1>3. ChainOK => StopsAtFailure
  BY DEF ChainOK
<1> QED BY <1>1, <1>2, <1>3, PTL DEF Spec

-----------------------------------------------------------------------------
(* Tools before commands.                                                  *)

\* The ways of the main thread past the tool loops.
LEMMA ToolMoves ==
  ASSUME TypeOK, CursorOK, MainStep \/ ToolReturns
  PROVE  \/ pc' \in Ending
         \/ pc \in Early \ {"ensure"} /\ pc' \in {"beforeAll", "begin", "step"}
         \/ pc \in Early \ {"ensure"} /\ pc' = "tools" /\ ti' = 1
              /\ (ci' = 0 \/ (pc = "command" /\ si' = si /\ ci' = ci))
         \/ ToolKnown \/ BeforeTool \/ ToolReady \/ BeforeTarget \/ BeforeCommand
         \/ pc \in InTarget \ {"ensure"} /\ pc' \in {"command", "afterTarget"}
              /\ ci # 0 /\ si' = si
         \/ pc \in InCommand /\ pc' \in InCommand /\ si' = si /\ ci' = ci
<1> USE DEF At, Goto
<1>1. CASE Prepare \/ SkipStep
  <2>1. pc \in {"install", "beforeAll", "begin", "step"} /\ pc' \in {"beforeAll", "begin", "step"}
    BY <1>1 DEF Prepare, Install, BeforeAll, BeginRun, SkipStep
  <2> QED BY <2>1 DEF Early
<1>2. CASE EnterTarget
  BY <1>2 DEF EnterTarget, Early
<1>3. CASE StepsDone \/ ToolFails \/ NoShellVariant \/ SpawnFails \/ WaitFails
  BY <1>3 DEF StepsDone, ToolFails, NoShellVariant, SpawnFails, WaitFails, Ending
<1>4. CASE AfterTarget
  <2>1. pc = "afterTarget" /\ pc' \in {"check", "step"}
    BY <1>4 DEF AfterTarget
  <2> QED BY <2>1 DEF Ending, Early, InTarget
<1>5. CASE EnterCommand
  BY <1>5 DEF EnterCommand, Early, InTarget
<1>6. CASE SkipCommand \/ CommandsDone \/ DryCommand
  <2>1. pc \in {"command", "tools"} /\ pc' \in {"command", "afterTarget"} /\ si' = si
    BY <1>6 DEF SkipCommand, CommandsDone, DryCommand, CommandToolsDone, cursor
  <2>2. ci # 0
    BY <1>6 DEF SkipCommand, CommandsDone, DryCommand, CommandToolsDone, CursorOK
  <2> QED BY <2>1, <2>2 DEF InTarget
<1>7. CASE StopChain \/ ContinueChain
  <2>1. pc = "decide" /\ pc' \in {"command", "afterTarget"} /\ si' = si
    BY <1>7 DEF StopChain, ContinueChain, cursor
  <2>2. ci # 0
    BY <2>1 DEF CursorOK, InCommand
  <2> QED BY <2>1, <2>2 DEF InTarget, InCommand
<1>8. CASE Spawn \/ PollExited \/ PollCancelled \/ PollSleeps \/ Wake \/ Kill \/ AfterCommand
  <2>1. pc \in InCommand /\ pc' \in InCommand
    BY <1>8 DEF Spawn, PollExited, PollCancelled, PollSleeps, Wake, Kill, AfterCommand, InCommand,
      InChild
  <2>2. si' = si /\ ci' = ci
    BY <1>8 DEF Spawn, PollExited, PollCancelled, PollSleeps, Wake, Kill, AfterCommand, cursor
  <2> QED BY <2>1, <2>2
<1>9. CASE Conclude
  BY <1>9 DEF Conclude, CheckCancelled, CheckFinished, AfterAll, EndRun, Exit, Ending
<1> QED BY <1>1, <1>2, <1>3, <1>4, <1>5, <1>6, <1>7, <1>8, <1>9
     DEF MainStep, WalkPlan, EnsureTools, ToolReturns, PickCommand, RunCommand

\* Only BeforeTool adds to `ensured`, only ToolReady to `ready`.
LEMMA ToolFrame ==
  ASSUME [Next]_vars
  PROVE  /\ BeforeTool \/ ensured' = ensured
         /\ ToolReady \/ ready' = ready
<1>1. CASE Prepare \/ WalkPlan
  BY <1>1 DEF Prepare, Install, BeforeAll, BeginRun, WalkPlan, SkipStep, EnterTarget, StepsDone,
    BeforeTarget, AfterTarget, books, history
<1>2. CASE EnsureTools \/ ToolReturns
  BY <1>2 DEF EnsureTools, ToolReturns, ToolKnown, BeforeTool, ToolReady, ToolFails, books, history
<1>3. CASE PickCommand \/ Conclude
  BY <1>3 DEF PickCommand, SkipCommand, EnterCommand, CommandsDone, NoShellVariant, DryCommand,
    Conclude, CheckCancelled, CheckFinished, AfterAll, EndRun, Exit, books, history
<1>4. CASE RunCommand
  BY <1>4 DEF RunCommand, BeforeCommand, SpawnFails, Spawn, PollExited, WaitFails, PollCancelled,
    PollSleeps, Wake, Kill, AfterCommand, StopChain, ContinueChain, books, history
<1>5. CASE ChildExits
  BY <1>5 DEF ChildExits, mainVars, books, history
<1>6. CASE HandlerStep \/ SafetyNet \/ \E s \in Signal : Raise(s)
  BY <1>6, HandlerFrame
<1>7. CASE UNCHANGED vars
  BY <1>7 DEF vars, mainVars, books, history
<1> QED BY <1>1, <1>2, <1>3, <1>4, <1>5, <1>6, <1>7 DEF Next, MainStep

LEMMA ToolsInductive ==
  ASSUME TypeInv, ToolsOK, [Next]_vars
  PROVE  ToolsOK'
<1> USE DEF TypeInv
<1>1. job' = job /\ ready \subseteq ready'
  BY MainFrame, HandlerFrame, ToolFrame DEF Next, vars, mainVars, ToolReady
<1>2. /\ si' = si => CurTarget' = CurTarget /\ CommandsAt(si)' = CommandsAt(si)
      /\ si' = si /\ ci' = ci => CurCommand' = CurCommand /\ CurTools' = CurTools
  BY <1>1 DEF CurTarget, CommandsAt, CurCommand, CurTools, Plan
<1>3. CASE UNCHANGED <<pc, si, ti, ci, ensured, ready>>
  <2> HIDE DEF TypeInv
  <2> QED BY <1>1, <1>2, <1>3 DEF ToolsOK
<1>4. CASE pc' \in Ending
  BY <1>4 DEF ToolsOK, Early, InTarget, InCommand, InChild, Ending
\* A step outside the tool loops: `ensured` and `ready` stay, nothing is open.
<1>5. ASSUME pc \in Early \ {"ensure"}, pc' # "ensure", ensured' = ensured
      PROVE  ensured' \subseteq ready'
  BY <1>1, <1>5 DEF ToolsOK
<1>6. CASE pc \in Early \ {"ensure"} /\ pc' \in {"beforeAll", "begin", "step"} /\ ~BeforeTool
  <2>1. pc' # "ensure" /\ pc' \notin {"tools", "ensure"} /\ pc' \notin InTarget
        /\ pc' \notin InCommand
    BY <1>6 DEF InTarget, InCommand, InChild
  <2> QED BY <1>5, <1>6, <2>1, ToolFrame DEF ToolsOK
<1>7. CASE /\ pc \in Early \ {"ensure"} /\ pc' = "tools" /\ ti' = 1
           /\ ci' = 0 \/ (pc = "command" /\ si' = si /\ ci' = ci)
           /\ ~BeforeTool
  <2>1. pc' \notin InCommand /\ pc' # "ensure" /\ 1..(ti' - 1) = {}
    BY <1>7 DEF InCommand, InChild
  <2>2. ci' # 0 => Elements(job.targetTools[CurTarget])' \subseteq ready'
    BY <1>1, <1>2, <1>7 DEF ToolsOK, InTarget, Elements
  <2> QED BY <1>5, <1>7, <2>1, <2>2, ToolFrame DEF ToolsOK
<1>8. CASE /\ pc \in InTarget \ {"ensure"} /\ pc' \in {"command", "afterTarget"}
           /\ ci # 0 /\ si' = si /\ ~BeforeTool
  <2>1. pc' \notin InCommand /\ pc' \notin {"tools", "ensure"} /\ pc \in Early \ {"ensure"}
    BY <1>8 DEF InCommand, InChild, Early
  <2>2. Elements(job.targetTools[CurTarget])' \subseteq ready'
    BY <1>1, <1>2, <1>8 DEF ToolsOK, Elements
  <2> QED BY <1>5, <1>8, <2>1, <2>2, ToolFrame DEF ToolsOK
<1>9. CASE pc \in InCommand /\ pc' \in InCommand /\ si' = si /\ ci' = ci
  <2>1. /\ pc \in InTarget /\ pc \in Early \ {"ensure"} /\ pc \notin {"tools", "ensure"}
        /\ pc' \notin {"tools", "ensure"} /\ ci # 0
    BY <1>9 DEF InTarget, InCommand, InChild, Early, CursorOK
  <2>2. ensured' = ensured
    BY <2>1, ToolFrame DEF BeforeTool, At
  <2>3. /\ Elements(job.targetTools[CurTarget])' \subseteq ready'
        /\ Elements(job.commandTools[CurCommand])' \subseteq ready'
    BY <1>1, <1>2, <1>9, <2>1 DEF ToolsOK, Elements
  <2> QED BY <1>5, <2>1, <2>2, <2>3 DEF ToolsOK
<1>10. CASE ToolKnown
  <2>1. /\ pc = "tools" /\ pc' = "tools" /\ ti' = ti + 1 /\ si' = si /\ ci' = ci
        /\ ensured' = ensured /\ CurTools[ti] \in ensured
    BY <1>10 DEF ToolKnown, At, books
  <2>2. pc \in Early \ {"ensure"} /\ pc \in InTarget /\ pc' \notin InCommand
    BY <2>1 DEF Early, InTarget, InCommand, InChild
  <2>3. CurTools[ti] \in ready /\ ti \in Nat
    BY <2>1, <2>2 DEF ToolsOK, TypeOK
  <2>4. \A n \in 1..(ti' - 1) : CurTools'[n] \in ready'
    BY <1>1, <1>2, <2>1, <2>3 DEF ToolsOK
  <2>5. ci' # 0 => Elements(job.targetTools[CurTarget])' \subseteq ready'
    BY <1>1, <1>2, <2>1, <2>2 DEF ToolsOK, Elements
  <2> QED BY <1>5, <2>1, <2>2, <2>4, <2>5 DEF ToolsOK
<1>11. CASE BeforeTool
  <2>1. /\ pc = "tools" /\ pc' = "ensure" /\ ti' = ti /\ si' = si /\ ci' = ci
        /\ ensured' = ensured \cup {CurTools[ti]}
    BY <1>11 DEF BeforeTool, At, Goto, cursor
  <2>2. pc \in Early \ {"ensure"} /\ pc \in InTarget /\ pc' \notin InCommand
    BY <2>1 DEF Early, InTarget, InCommand, InChild
  <2>3. ensured' \subseteq ready' \cup {CurTools'[ti']}
    BY <1>1, <1>2, <2>1, <2>2 DEF ToolsOK
  <2>4. \A n \in 1..(ti' - 1) : CurTools'[n] \in ready'
    BY <1>1, <1>2, <2>1 DEF ToolsOK
  <2>5. ci' # 0 => Elements(job.targetTools[CurTarget])' \subseteq ready'
    BY <1>1, <1>2, <2>1, <2>2 DEF ToolsOK, Elements
  <2> QED BY <2>1, <2>2, <2>3, <2>4, <2>5 DEF ToolsOK
<1>12. CASE ToolReady
  <2>1. /\ pc = "ensure" /\ pc' = "tools" /\ ti' = ti + 1 /\ si' = si /\ ci' = ci
        /\ ensured' = ensured /\ ready' = ready \cup {CurTools[ti]} /\ ti \in Nat
    BY <1>12 DEF ToolReady, At, Goto, TypeOK
  <2>2. pc \in Early /\ pc \in InTarget /\ pc' \notin InCommand
    BY <2>1 DEF Early, InTarget, InCommand, InChild
  <2>3. ensured' \subseteq ready'
    BY <2>1, <2>2 DEF ToolsOK
  <2>4. \A n \in 1..(ti' - 1) : CurTools'[n] \in ready'
    BY <1>2, <2>1 DEF ToolsOK
  <2>5. ci' # 0 => Elements(job.targetTools[CurTarget])' \subseteq ready'
    BY <1>1, <1>2, <2>1, <2>2 DEF ToolsOK, Elements
  <2> QED BY <2>1, <2>2, <2>3, <2>4, <2>5 DEF ToolsOK
\* With the loop over, all of the target's tools, or of the command's, are ready.
<1>13. ASSUME pc = "tools", ti > Len(CurTools)
       PROVE  Elements(CurTools) \subseteq ready
  <2>1. Len(CurTools) \in Nat /\ ti \in Nat
    BY <1>13, CursorTyped, LenProperties DEF TypeOK
  <2> QED BY <1>13, <2>1 DEF ToolsOK, Elements
<1>14. CASE BeforeTarget
  <2>1. /\ pc = "tools" /\ pc' = "command" /\ si' = si /\ ci = 0 /\ ci' = 1
        /\ ti > Len(CurTools) /\ ensured' = ensured
    BY <1>14 DEF BeforeTarget, At, Goto, books
  <2>2. pc \in Early \ {"ensure"} /\ pc' \notin InCommand
    BY <2>1 DEF Early, InTarget, InCommand, InChild
  <2>3. Elements(job.targetTools[CurTarget]) \subseteq ready
    BY <1>13, <2>1 DEF CurTools
  <2>4. Elements(job.targetTools[CurTarget])' \subseteq ready'
    BY <1>1, <1>2, <2>1, <2>3 DEF Elements
  <2> QED BY <1>5, <2>1, <2>2, <2>4 DEF ToolsOK
<1>15. CASE BeforeCommand
  <2>1. /\ pc = "tools" /\ pc' = "spawn" /\ si' = si /\ ci' = ci /\ ci # 0
        /\ ti > Len(CurTools) /\ ensured' = ensured
    BY <1>15 DEF BeforeCommand, CommandToolsDone, At, Goto, cursor, books
  <2>2. pc \in Early \ {"ensure"} /\ pc \in InTarget
    BY <2>1 DEF Early, InTarget
  <2>3. Elements(job.commandTools[CurCommand])' \subseteq ready'
    BY <1>1, <1>2, <1>13, <2>1 DEF CurTools, Elements
  <2>4. Elements(job.targetTools[CurTarget])' \subseteq ready'
    BY <1>1, <1>2, <2>1, <2>2 DEF ToolsOK, Elements
  <2> QED BY <1>5, <2>1, <2>2, <2>3, <2>4 DEF ToolsOK
<1> QED
  <2>1. CASE ChildExits \/ HandlerStep \/ SafetyNet \/ (\E s \in Signal : Raise(s)) \/ UNCHANGED vars
    BY <1>3, <2>1, HandlerFrame DEF ChildExits, vars, mainVars, books, cursor, history
  <2>2. CASE MainStep \/ ToolReturns
    BY <1>4, <1>6, <1>7, <1>8, <1>9, <1>10, <1>11, <1>12, <1>14, <1>15, <2>2, ToolMoves
  <2> QED BY <2>1, <2>2 DEF Next

LEMMA ToolsBeforeInductive ==
  ASSUME TypeInv, ToolsOK, ToolsBeforeCommand, [Next]_vars
  PROVE  ToolsBeforeCommand'
<1> USE DEF TypeInv
<1> DEFINE Covered(a) ==
      Elements(job.targetTools[Plan[a.step].target])
        \cup Elements(job.commandTools[CommandOf(a)]) \subseteq ready
<1>1. job' = job /\ ready \subseteq ready'
  BY MainFrame, HandlerFrame, ToolFrame DEF Next, vars, mainVars, ToolReady
<1>2. ASSUME NEW n, NEW m, ran'[n].step = ran[m].step, ran'[n].index = ran[m].index,
             Covered(ran[m])
      PROVE  Covered(ran[n])'
  <2>1. /\ Plan'[ran'[n].step].target = Plan[ran[m].step].target
        /\ CommandOf(ran[n])' = CommandOf(ran[m])
    BY <1>1, <1>2 DEF CommandOf, CommandsAt, Plan
  <2> QED BY <1>1, <1>2, <2>1
<1>3. CASE UNCHANGED ran
  BY <1>2, <1>3 DEF ToolsBeforeCommand
<1>4. CASE SpawnFails \/ Spawn
  <2>1. pc \in InCommand /\ pc \in InTarget /\ ci # 0
    BY <1>4 DEF SpawnFails, Spawn, At, InCommand, InTarget, CursorOK
  <2>2. /\ Len(ran') = Len(ran) + 1 /\ Len(ran) \in Nat
        /\ \A n \in 1..Len(ran) : ran'[n] = ran[n]
        /\ ran'[Len(ran')].step = si /\ ran'[Len(ran')].index = ci
    BY <1>4, SpawnAppends DEF Attempt
  <2>3. \A n \in 1..Len(ran) : Covered(ran[n])'
    BY <1>2, <2>2 DEF ToolsBeforeCommand
  <2>4. Elements(job.targetTools[CurTarget]) \cup Elements(job.commandTools[CurCommand])
          \subseteq ready
    BY <2>1 DEF ToolsOK
  <2>5. Covered(ran[Len(ran)])'
    <3>1. /\ Plan'[ran'[Len(ran')].step].target = CurTarget
          /\ CommandOf(ran[Len(ran)])' = CurCommand
      BY <1>1, <2>2 DEF CommandOf, CommandsAt, Plan, CurTarget, CurCommand
    <3> QED BY <1>1, <2>4, <3>1
  <2> HIDE DEF Covered
  <2>6. \A n \in 1..Len(ran') : Covered(ran[n])'
    BY <2>2, <2>3, <2>5
  <2> QED BY <2>6 DEF ToolsBeforeCommand, Covered
<1>5. CASE WaitFails \/ AfterCommand
  BY <1>2, <1>5, ChildEndNoted DEF ToolsBeforeCommand
<1> QED BY <1>3, <1>4, <1>5, AttemptFrame

\* No command starts before an ensure has succeeded, in this run, for each tool
\* its target and it name: a tool already in `ensured` is never one whose
\* ensure is still to come or has failed.
THEOREM ToolsFirst == Spec => []ToolsBeforeCommand
<1>1. Init => TypeInv /\ ToolsOK /\ ToolsBeforeCommand
  <2> SUFFICES ASSUME Init PROVE ToolsOK /\ ToolsBeforeCommand
    BY TypeInvInitially
  <2>1. pc = "install" /\ ensured = {} /\ 1..Len(ran) = {}
    BY EmptySeq DEF Init
  <2> QED BY <2>1 DEF ToolsOK, ToolsBeforeCommand, InTarget, InCommand, InChild
<1>2. TypeInv /\ ToolsOK /\ ToolsBeforeCommand /\ [Next]_vars
        => (TypeInv /\ ToolsOK /\ ToolsBeforeCommand)'
  BY TypeInvInductive, ToolsInductive, ToolsBeforeInductive
<1> QED BY <1>1, <1>2, PTL DEF Spec
=============================================================================
