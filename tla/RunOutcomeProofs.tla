-------------------------- MODULE RunOutcomeProofs --------------------------
(***************************************************************************)
(* What a run has done and what it says it has done, for every job and      *)
(* every interleaving: the commands are those of the plan in its order, the *)
(* exit code tells how they ended, AfterAll does not contradict it, and the *)
(* events of the stream pair up.                                            *)
(*                                                                         *)
(* WalkOK and ReportOK extend the invariants of RakeRunProofs: the first    *)
(* relates the cursor of run_steps to the attempts, the second the locals   *)
(* that become the exit code to the last attempt.  BracketsOK relates what  *)
(* main is in the middle of to the brackets open in the stream.             *)
(***************************************************************************)
EXTENDS RakeRunProofs, FiniteSetTheorems

\* Where main has begun the command under the cursor and not moved on.
Underway == InChild \cup {"decide"}

\* The command has been attempted; the cursor has gone past it.
Begun(i, k) == \E m \in 1..Len(ran) : ran[m].step = i /\ ran[m].index = k
Past(i, k) ==
  \/ i < si
  \/ i = si /\ pc \in InTarget /\ k < ci
  \/ i = si /\ k = ci /\ (pc \in Underway \/ (pc = "afterTarget" /\ stop))

\* The commands begun are those the cursor has gone past, and all of them once
\* the plan is through.  A dry run begins none.
WalkOK ==
  /\ pc \in Early /\ ~job.dryRun =>
       \A i \in 1..Len(Plan) : \A k \in 1..Len(CommandsAt(i)) :
         Runnable(i, k) => (Past(i, k) <=> Begun(i, k))
  /\ pc \in Ending /\ result = "ok" /\ si > Len(Plan) /\ ~job.dryRun =>
       \A i \in 1..Len(Plan) : \A k \in 1..Len(CommandsAt(i)) :
         Runnable(i, k) => Begun(i, k)
  /\ pc \in InCommand \cup {"tools", "ensure"} /\ ci # 0 => CurCommand \notin job.offHost
  /\ pc = "afterTarget" /\ ~stop => ci > Len(CommandsAt(si))
  /\ job.dryRun => ran = <<>> /\ pc \notin InCommand

\* How the last attempt ended, as the status it leaves behind.
Noted(s) == IF ran = <<>> THEN s = "none" ELSE s = ran[Len(ran)].end

\* `last` of a target that has run a command, else the status of those before it,
\* is the end of the last attempt; a run leaves its loops with an unfinished plan
\* only after a failure, or because of the flag.
ReportOK ==
  /\ pc \in Early => result = "ok"
  /\ pc \in Early \ InTarget => Noted(status)
  /\ pc \in InTarget \ InChild => Noted(IF last = "none" THEN status ELSE last)
  /\ pc \in Ending /\ result = "ok" => Noted(status)
  /\ stop => pc = "afterTarget" \/ pc \in Ending
  /\ stop => last # "none"
  /\ stop /\ result = "ok" => cancel \/ ~Success(last)
  /\ pc \in Ending /\ result = "ok" =>
       \/ si > Len(Plan) /\ \A n \in 1..Len(ran) : Passed(ran[n])
       \/ stop /\ status = last
  /\ pc \in Ending \ {"check"} /\ stop /\ result = "ok" => ~Success(last)
  /\ proc \in {"ok", "failed", "one"} => pc = "done"
  /\ pc = "done" => proc = IF result = "error" THEN "one" ELSE ExitOf(status)

\* AfterAll is sent once, after the run has been judged.
AfterAllOK ==
  \A n \in 1..Len(events) :
    events[n].type = "AfterAll" => pc \in {"end", "exit", "done"} /\ events[n] = AfterAllEvent

-----------------------------------------------------------------------------
(* The plan and its order.                                                 *)

\* The ways of the main thread through the plan.
LEMMA WalkMoves ==
  ASSUME TypeOK, CursorOK, MainStep \/ ToolReturns
  PROVE  \/ pc' \in Ending
         \/ pc \in Early \ InTarget /\ pc' \in Early \ InTarget /\ si' = si
         \/ SkipStep \/ EnterTarget \/ BeforeTarget \/ SkipCommand \/ EnterCommand
         \/ DryCommand \/ BeforeCommand \/ Spawn \/ ContinueChain \/ StopChain
         \/ CommandsDone \/ (AfterTarget /\ ~stop)
         \/ pc \in {"tools", "ensure"} /\ pc' \in {"tools", "ensure"} /\ si' = si /\ ci' = ci
         \/ pc \in Underway /\ pc' \in Underway /\ si' = si /\ ci' = ci
<1> USE DEF At, Goto
<1>1. CASE Prepare
  <2>1. pc \in {"install", "beforeAll", "begin"} /\ pc' \in {"beforeAll", "begin", "step"}
    BY <1>1 DEF Prepare, Install, BeforeAll, BeginRun
  <2>2. si' = si
    BY <1>1 DEF Prepare, Install, BeforeAll, BeginRun, cursor
  <2> QED BY <2>1, <2>2 DEF Early, InTarget, InCommand, InChild
<1>2. CASE StepsDone \/ ToolFails \/ NoShellVariant \/ SpawnFails \/ WaitFails
  BY <1>2 DEF StepsDone, ToolFails, NoShellVariant, SpawnFails, WaitFails, Ending
<1>3. CASE ToolKnown \/ BeforeTool \/ ToolReady
  <2>1. pc \in {"tools", "ensure"} /\ pc' \in {"tools", "ensure"}
    BY <1>3 DEF ToolKnown, BeforeTool, ToolReady
  <2>2. si' = si /\ ci' = ci
    BY <1>3 DEF ToolKnown, BeforeTool, ToolReady, cursor
  <2> QED BY <2>1, <2>2
<1>4. CASE AfterTarget
  BY <1>4 DEF AfterTarget, Ending
<1>5. CASE PollExited \/ PollCancelled \/ PollSleeps \/ Wake \/ Kill \/ AfterCommand
  <2>1. pc \in Underway /\ pc' \in Underway
    BY <1>5 DEF PollExited, PollCancelled, PollSleeps, Wake, Kill, AfterCommand, Underway, InChild
  <2>2. si' = si /\ ci' = ci
    BY <1>5 DEF PollExited, PollCancelled, PollSleeps, Wake, Kill, AfterCommand, cursor
  <2> QED BY <2>1, <2>2
<1>6. CASE Conclude
  BY <1>6 DEF Conclude, CheckCancelled, CheckFinished, AfterAll, EndRun, Exit, Ending
<1> QED BY <1>1, <1>2, <1>3, <1>4, <1>5, <1>6
     DEF MainStep, WalkPlan, EnsureTools, ToolReturns, PickCommand, RunCommand

\* The `?`s of run_steps and run_one.
Errs == ToolFails \/ NoShellVariant \/ SpawnFails \/ WaitFails

\* The loops are left at their end, by a stop or with an error; then nothing moves
\* the cursor or the flag of run_one.
LEMMA EndingMoves ==
  ASSUME TypeOK, MainStep \/ ToolReturns
  PROVE  /\ pc \in Ending => Conclude /\ pc' \in Ending /\ UNCHANGED <<si, last, stop, ran>>
         /\ pc \in Early /\ pc' \in Ending =>
              StepsDone \/ (AfterTarget /\ stop) \/ (Errs /\ result' = "error")
         /\ pc \in Early \cup Ending /\ Early \cap Ending = {}
<1>1. pc \in Early \cup Ending /\ Early \cap Ending = {}
  BY DEF TypeOK, Label, Early, Ending, InTarget, InCommand, InChild
<1>2. CASE Conclude
  <2>1. pc \in Ending /\ pc' \in Ending /\ UNCHANGED <<si, last, stop, ran>>
    BY <1>2 DEF Conclude, CheckCancelled, CheckFinished, AfterAll, EndRun, Exit, cursor, books,
      history, At, Goto, Ending
  <2> QED BY <1>1, <1>2, <2>1
<1>3. CASE ToolFails \/ NoShellVariant \/ SpawnFails \/ WaitFails
  <2>1. pc \in Early /\ result' = "error"
    BY <1>3 DEF ToolFails, NoShellVariant, CommandToolsDone, SpawnFails, WaitFails, At, Early,
      InTarget, InCommand, InChild
  <2> QED BY <1>1, <1>3, <2>1 DEF Errs
<1>4. CASE StepsDone \/ AfterTarget
  <2>1. /\ pc \in Early
        /\ AfterTarget /\ ~stop => pc' = "step"
    BY <1>4 DEF StepsDone, AfterTarget, At, Goto, Early, InTarget
  <2> QED BY <1>1, <1>4, <2>1 DEF Ending
<1>5. CASE Prepare \/ SkipStep \/ EnterTarget \/ BeforeTarget \/ EnsureTools \/ ToolReady
             \/ SkipCommand \/ EnterCommand \/ CommandsDone \/ DryCommand \/ BeforeCommand
  <2>1. pc \notin Ending /\ pc' \notin Ending
    BY <1>5 DEF Prepare, EnsureTools, Install, BeforeAll, BeginRun, SkipStep, EnterTarget,
      BeforeTarget, ToolKnown, BeforeTool, ToolReady, SkipCommand, EnterCommand, CommandsDone,
      DryCommand, CommandToolsDone, BeforeCommand, At, Goto, Ending
  <2> QED BY <1>1, <2>1
<1>6. CASE Spawn \/ PollExited \/ PollCancelled \/ PollSleeps \/ Wake \/ Kill \/ AfterCommand
             \/ StopChain \/ ContinueChain
  <2>1. pc \notin Ending /\ pc' \notin Ending
    BY <1>6 DEF Spawn, PollExited, PollCancelled, PollSleeps, Wake, Kill, AfterCommand,
      StopChain, ContinueChain, At, Goto, Ending
  <2> QED BY <1>1, <2>1
<1> QED BY <1>2, <1>3, <1>4, <1>5, <1>6
     DEF MainStep, ToolReturns, WalkPlan, PickCommand, RunCommand

\* run_impl judges the run before anything else.
LEMMA EarlyLeft ==
  ASSUME TypeOK, MainStep \/ ToolReturns, pc \in Early
  PROVE  pc' \in Early \/ pc' = "check"
<1>1. CASE Prepare \/ WalkPlan \/ EnsureTools \/ ToolReturns
  BY <1>1 DEF Prepare, Install, BeforeAll, BeginRun, WalkPlan, SkipStep, EnterTarget, StepsDone,
    BeforeTarget, AfterTarget, EnsureTools, ToolReturns, ToolKnown, BeforeTool, ToolReady,
    ToolFails, Goto, Early, InTarget
<1>2. CASE PickCommand
  BY <1>2 DEF PickCommand, SkipCommand, EnterCommand, CommandsDone, NoShellVariant, DryCommand,
    Goto, Early, InTarget
<1>3. CASE RunCommand
  BY <1>3 DEF RunCommand, BeforeCommand, SpawnFails, Spawn, PollExited, WaitFails, PollCancelled,
    PollSleeps, Wake, Kill, AfterCommand, StopChain, ContinueChain, Goto, Early, InTarget,
    InCommand, InChild
<1>4. ~Conclude
  BY DEF Conclude, CheckCancelled, CheckFinished, AfterAll, EndRun, Exit, At, Early, InTarget,
    InCommand, InChild
<1> QED BY <1>1, <1>2, <1>3, <1>4 DEF MainStep

\* How a step changes the attempts' places: only a spawn adds one.
LEMMA BegunMoves ==
  ASSUME TypeInv, [Next]_vars
  PROVE  /\ ~(Spawn \/ SpawnFails) => \A i, k : Begun(i, k)' <=> Begun(i, k)
         /\ Spawn \/ SpawnFails =>
              \A i, k : Begun(i, k)' <=> Begun(i, k) \/ (i = si /\ k = ci)
<1> USE DEF TypeInv
<1>1. CASE ran' = ran /\ ~(Spawn \/ SpawnFails)
  BY <1>1 DEF Begun
<1>2. CASE Spawn \/ SpawnFails
  <2>1. /\ Len(ran') = Len(ran) + 1 /\ Len(ran) \in Nat
        /\ \A n \in 1..Len(ran) : ran'[n] = ran[n]
        /\ ran'[Len(ran) + 1].step = si /\ ran'[Len(ran) + 1].index = ci
    BY <1>2, SpawnAppends DEF Attempt
  <2>2. 1..Len(ran') = 1..Len(ran) \cup {Len(ran) + 1}
    BY <2>1
  <2> QED BY <1>2, <2>1, <2>2 DEF Begun
<1>3. CASE (WaitFails \/ AfterCommand) /\ ~(Spawn \/ SpawnFails)
  <2>1. /\ Len(ran') = Len(ran)
        /\ \A n \in 1..Len(ran) :
             ran'[n].step = ran[n].step /\ ran'[n].index = ran[n].index
    BY <1>3, ChildEndNoted
  <2> QED BY <1>3, <2>1 DEF Begun
<1> QED BY <1>1, <1>2, <1>3, AttemptFrame

\* Main's cursor passes a runnable command exactly when it begins it.
LEMMA WalkInductive ==
  ASSUME TypeInv, ReportOK, WalkOK, MainStep \/ ToolReturns
  PROVE  WalkOK'
<1> USE DEF TypeInv
<1>1. /\ job' = job /\ Plan' = Plan /\ Len(Plan) \in Nat /\ [Next]_vars
      /\ si \in Nat \ {0} /\ ci \in Nat
      /\ \A i \in 1..Len(Plan) : Len(CommandsAt(i)) \in Nat
  BY MainFrame, JobTyped DEF Next, Plan, TypeOK
<1>2. \A i, k : Runnable(i, k)' <=> Runnable(i, k)
  BY <1>1 DEF Runnable, Runs, CommandsAt
<1>3. \A i : CommandsAt(i)' = CommandsAt(i)
  BY <1>1 DEF CommandsAt
\* Outside Ending the commands begun are those the cursor has gone past.
<1>4. ASSUME pc' \in Early, ~job.dryRun,
             NEW i \in 1..Len(Plan), NEW k \in 1..Len(CommandsAt(i)), Runnable(i, k)
      PROVE  Past(i, k)' <=> Begun(i, k)'
  <2> USE DEF Past, At, Goto
  <2>0. /\ i \in Nat \ {0} /\ k \in Nat \ {0} /\ pc' \notin Ending
        /\ k <= Len(CommandsAt(i)) /\ Runs(i)
        /\ (i = si => CurCommand = CommandsAt(si)[ci] /\ k <= Len(CommandsAt(si)))
    BY <1>1, <1>4 DEF Early, Ending, InTarget, InCommand, InChild, Runnable, CurCommand
  <2>1. pc \in Early => (Past(i, k) <=> Begun(i, k))
    BY <1>4 DEF WalkOK
  <2>2. ~(Spawn \/ SpawnFails) => (Begun(i, k)' <=> Begun(i, k))
    BY <1>1, BegunMoves
  <2>3. CASE pc \in Early \ InTarget /\ pc' \in Early \ InTarget /\ si' = si
    <3>1. ~(Spawn \/ SpawnFails) /\ pc \notin Underway /\ pc' \notin Underway
          /\ pc # "afterTarget" /\ pc' # "afterTarget"
      BY <2>3 DEF Spawn, SpawnFails, InTarget, InCommand, Underway
    <3> QED BY <2>1, <2>2, <2>3, <3>1
  <2>4. CASE SkipStep
    <3>1. /\ pc = "step" /\ pc' = "step" /\ si' = si + 1 /\ i # si
          /\ ~(Spawn \/ SpawnFails)
      BY <2>0, <2>4 DEF SkipStep, Spawn, SpawnFails, Runs
    <3>2. "step" \notin InTarget \cup Underway /\ "step" \in Early
      BY DEF InTarget, InCommand, InChild, Underway, Early
    <3> QED BY <1>1, <2>0, <2>1, <2>2, <3>1, <3>2
  <2>5. CASE EnterTarget
    <3>1. pc = "step" /\ pc' = "tools" /\ si' = si /\ ci' = 0 /\ ~(Spawn \/ SpawnFails)
      BY <2>5 DEF EnterTarget, Spawn, SpawnFails
    <3>2. /\ "step" \notin InTarget \cup Underway /\ "step" \in Early
          /\ "tools" \in InTarget /\ "tools" \notin Underway
      BY DEF InTarget, InCommand, InChild, Underway, Early
    <3> QED BY <1>1, <2>0, <2>1, <2>2, <3>1, <3>2
  <2>6. CASE BeforeTarget \/ SkipCommand
    <3>1. /\ pc \in {"tools", "command"} /\ pc' = "command" /\ si' = si /\ ci' = ci + 1
          /\ ~(Spawn \/ SpawnFails)
          /\ (i = si => k # ci)
      <4>1. CASE BeforeTarget
        BY <2>0, <4>1 DEF BeforeTarget, Spawn, SpawnFails
      <4>2. CASE SkipCommand
        BY <1>4, <4>2 DEF SkipCommand, Spawn, SpawnFails, Runnable, CurCommand
      <4> QED BY <2>6, <4>1, <4>2
    <3>2. {"tools", "command"} \subseteq InTarget \ Underway /\ InTarget \subseteq Early
      BY DEF InTarget, InCommand, InChild, Underway, Early
    <3> QED BY <1>1, <2>0, <2>1, <2>2, <3>1, <3>2
  <2>7. CASE EnterCommand \/ BeforeCommand
             \/ (pc \in {"tools", "ensure"} /\ pc' \in {"tools", "ensure"} /\ si' = si /\ ci' = ci)
    <3>1. /\ pc \in {"tools", "ensure", "command"} /\ pc' \in {"tools", "ensure", "spawn"}
          /\ si' = si /\ ci' = ci /\ ~(Spawn \/ SpawnFails)
      BY <2>7 DEF EnterCommand, BeforeCommand, CommandToolsDone, cursor, Spawn, SpawnFails
    <3>2. /\ {"tools", "ensure", "command", "spawn"} \subseteq InTarget \ Underway
          /\ InTarget \subseteq Early
      BY DEF InTarget, InCommand, InChild, Underway, Early
    <3> QED BY <2>1, <2>2, <3>1, <3>2
  <2>8. ~DryCommand
    BY <1>4 DEF DryCommand
  <2>9. CASE Spawn
    <3>1. /\ pc = "spawn" /\ pc' = "poll" /\ si' = si /\ ci' = ci
          /\ (Begun(i, k)' <=> Begun(i, k) \/ (i = si /\ k = ci))
      BY <1>1, <2>9, BegunMoves DEF Spawn, cursor
    <3>2. /\ "spawn" \in InTarget \ Underway /\ InTarget \subseteq Early
          /\ "poll" \in InTarget \cap Underway
      BY DEF InTarget, InCommand, InChild, Underway, Early
    <3> QED BY <2>1, <3>1, <3>2
  <2>10. CASE pc \in Underway /\ pc' \in Underway /\ si' = si /\ ci' = ci
    <3>1. ~(Spawn \/ SpawnFails) /\ Underway \subseteq InTarget /\ InTarget \subseteq Early
      BY <2>10 DEF Spawn, SpawnFails, InTarget, InCommand, InChild, Underway, Early
    <3> QED BY <2>1, <2>2, <2>10, <3>1
  <2>11. CASE ContinueChain
    <3>1. pc = "decide" /\ pc' = "command" /\ si' = si /\ ci' = ci + 1 /\ ~(Spawn \/ SpawnFails)
      BY <2>11 DEF ContinueChain, Spawn, SpawnFails
    <3>2. /\ "decide" \in InTarget \cap Underway /\ InTarget \subseteq Early
          /\ "command" \in InTarget \ Underway
      BY DEF InTarget, InCommand, InChild, Underway, Early
    <3> QED BY <1>1, <2>0, <2>1, <2>2, <3>1, <3>2
  <2>12. CASE StopChain
    <3>1. /\ pc = "decide" /\ pc' = "afterTarget" /\ si' = si /\ ci' = ci /\ stop'
          /\ ~(Spawn \/ SpawnFails)
      BY <2>12 DEF StopChain, cursor, Spawn, SpawnFails
    <3>2. /\ "decide" \in InTarget \cap Underway /\ InTarget \subseteq Early
          /\ "afterTarget" \in InTarget
      BY DEF InTarget, InCommand, InChild, Underway, Early
    <3> QED BY <2>1, <2>2, <3>1, <3>2
  <2>13. CASE CommandsDone
    <3>1. /\ pc = "command" /\ pc' = "afterTarget" /\ si' = si /\ ci' = ci
          /\ ci > Len(CommandsAt(si)) /\ ~(Spawn \/ SpawnFails)
      BY <2>13 DEF CommandsDone, cursor, Spawn, SpawnFails
    <3>2. /\ "command" \in InTarget \ Underway /\ InTarget \subseteq Early
          /\ "afterTarget" \in InTarget \ Underway
      BY DEF InTarget, InCommand, InChild, Underway, Early
    <3>3. i = si => k # ci
      BY <1>1, <2>0, <3>1
    <3> QED BY <2>1, <2>2, <3>1, <3>2, <3>3
  <2>14. CASE AfterTarget /\ ~stop
    <3>1. /\ pc = "afterTarget" /\ pc' = "step" /\ si' = si + 1
          /\ ci > Len(CommandsAt(si)) /\ ~(Spawn \/ SpawnFails)
      BY <2>14 DEF AfterTarget, WalkOK, Spawn, SpawnFails
    <3>2. /\ "step" \notin InTarget \cup Underway /\ InTarget \subseteq Early
          /\ "afterTarget" \in InTarget \ Underway
      BY DEF InTarget, InCommand, InChild, Underway, Early
    <3>3. i = si => k < ci
      BY <1>1, <2>0, <3>1
    <3> QED BY <1>1, <2>0, <2>1, <2>2, <2>14, <3>1, <3>2, <3>3
  <2> QED BY <2>0, <2>3, <2>4, <2>5, <2>6, <2>7, <2>8, <2>9, <2>10, <2>11, <2>12, <2>13,
             <2>14, WalkMoves
\* Once the plan is through there is nothing left to begin.
<1>5. ASSUME pc' \in Ending, result' = "ok", si' > Len(Plan), ~job.dryRun,
             NEW i \in 1..Len(Plan), NEW k \in 1..Len(CommandsAt(i)), Runnable(i, k)
      PROVE  Begun(i, k)'
  <2>1. result = "ok" /\ ~SpawnFails
    BY <1>1, <1>5, OutcomeFrame DEF CheckCancelled, SpawnFails
  <2>2. ~Spawn
    BY <1>5 DEF Spawn, Goto, Ending
  <2>3. Begun(i, k)' <=> Begun(i, k)
    BY <1>1, <2>1, <2>2, BegunMoves
  <2>4. CASE pc \in Ending /\ si' = si
    BY <1>5, <2>1, <2>3, <2>4 DEF WalkOK
  <2>5. CASE StepsDone
    <3>1. pc = "step" /\ si > Len(Plan)
      BY <2>5 DEF StepsDone, At
    <3>2. pc \in Early /\ i < si
      BY <1>1, <3>1 DEF Early
    <3> QED BY <1>5, <2>3, <3>2 DEF WalkOK, Past
  <2>6. (pc \in Ending /\ si' = si) \/ StepsDone
    <3>1. ~(AfterTarget /\ stop)
      <4> SUFFICES ASSUME AfterTarget, stop PROVE FALSE
        OBVIOUS
      <4>1. pc = "afterTarget" /\ si' = si
        BY DEF AfterTarget, At
      <4> QED BY <1>1, <1>5, <4>1 DEF CursorOK, InTarget
    <3> QED BY <1>5, <3>1, EndingMoves
  <2> QED BY <2>4, <2>5, <2>6
\* What is under the cursor was not skipped.
<1>6. (pc \in InCommand \cup {"tools", "ensure"} /\ ci # 0 => CurCommand \notin job.offHost)'
  <2> SUFFICES ASSUME pc' \in InCommand \cup {"tools", "ensure"}, ci' # 0
               PROVE  CurCommand' \notin job.offHost
    BY <1>1
  <2> USE DEF At, Goto
  <2>1. CASE pc \in InCommand \cup {"tools", "ensure"} /\ si' = si /\ ci' = ci
    BY <1>3, <2>1 DEF WalkOK, CurCommand
  <2>2. CASE EnterCommand
    BY <1>3, <2>2 DEF EnterCommand, CurCommand
  <2>3. CASE BeforeCommand \/ Spawn
    <3>1. pc \in InCommand \cup {"tools", "ensure"}
      BY <2>3 DEF BeforeCommand, CommandToolsDone, Spawn, InCommand
    <3>2. si' = si /\ ci' = ci
      BY <2>3 DEF BeforeCommand, Spawn, cursor
    <3> QED BY <2>1, <3>1, <3>2
  <2>4. ~EnterTarget
    BY DEF EnterTarget
  <2>5. Underway \subseteq InCommand
    BY DEF Underway, InCommand
  <2>6. /\ pc' \notin Ending /\ pc' \notin Early \ InTarget
        /\ pc' \notin {"step", "command", "afterTarget"}
    BY DEF Early, InTarget, InCommand, InChild, Ending
  <2>7. ~(SkipStep \/ BeforeTarget \/ SkipCommand \/ DryCommand \/ ContinueChain \/ StopChain
           \/ CommandsDone \/ (AfterTarget /\ ~stop))
    BY <2>6 DEF SkipStep, BeforeTarget, SkipCommand, DryCommand, ContinueChain, StopChain,
      CommandsDone, AfterTarget
  <2> QED BY <2>1, <2>2, <2>3, <2>4, <2>5, <2>6, <2>7, WalkMoves
\* run_one's loop over the commands ends with the list unless it is stopped.
<1>7. (pc = "afterTarget" /\ ~stop => ci > Len(CommandsAt(si)))'
  <2> SUFFICES ASSUME pc' = "afterTarget", ~stop' PROVE ci' > Len(CommandsAt(si))'
    OBVIOUS
  <2>1. ~StopChain
    BY DEF StopChain
  <2>2. CommandsDone
    <3>1. /\ pc' \notin Ending /\ pc' \notin Early \ InTarget /\ pc' \notin Underway
          /\ pc' \notin {"step", "command", "tools", "ensure", "spawn", "poll"}
      BY DEF Early, InTarget, InCommand, InChild, Ending, Underway
    <3>2. ~(SkipStep \/ EnterTarget \/ BeforeTarget \/ SkipCommand \/ EnterCommand \/ DryCommand
             \/ BeforeCommand \/ Spawn \/ ContinueChain \/ (AfterTarget /\ ~stop))
      BY <3>1 DEF SkipStep, EnterTarget, BeforeTarget, SkipCommand, EnterCommand, DryCommand,
        BeforeCommand, Spawn, ContinueChain, AfterTarget, At, Goto
    <3> QED BY <2>1, <3>1, <3>2, WalkMoves
  <2>3. si' = si /\ ci' = ci /\ ci > Len(CommandsAt(si))
    BY <2>2 DEF CommandsDone, cursor
  <2> QED BY <1>3, <2>3
\* A dry run stays out of run_one's spawn.
<1>8. (job.dryRun => ran = <<>> /\ pc \notin InCommand)'
  <2> SUFFICES ASSUME job.dryRun PROVE ran' = <<>> /\ pc' \notin InCommand
    BY <1>1
  <2>1. ran = <<>> /\ pc \notin InCommand
    BY DEF WalkOK
  <2>2. ~(SpawnFails \/ Spawn \/ WaitFails \/ AfterCommand \/ BeforeCommand)
    BY <2>1 DEF SpawnFails, Spawn, WaitFails, AfterCommand, BeforeCommand, At, InCommand, InChild
  <2>3. ran' = <<>>
    BY <1>1, <2>1, <2>2, AttemptFrame
  <2>4. pc \notin Underway /\ "tools" \notin InCommand /\ Ending \cap InCommand = {}
        /\ {"step", "command", "afterTarget", "tools", "ensure"} \cap InCommand = {}
        /\ InCommand \cap (Early \ InTarget) = {}
    BY <2>1 DEF Underway, InCommand, InChild, Ending, InTarget
  <2>5. SkipStep \/ EnterTarget \/ BeforeTarget \/ SkipCommand \/ EnterCommand \/ DryCommand
          \/ ContinueChain \/ StopChain \/ CommandsDone \/ (AfterTarget /\ ~stop)
          => pc' \in {"step", "command", "afterTarget", "tools"}
    BY DEF SkipStep, EnterTarget, BeforeTarget, SkipCommand, EnterCommand, DryCommand,
      ContinueChain, StopChain, CommandsDone, AfterTarget, At, Goto
  <2> QED BY <2>2, <2>3, <2>4, <2>5, WalkMoves
<1> QED BY <1>1, <1>2, <1>3, <1>4, <1>5, <1>6, <1>7, <1>8 DEF WalkOK

\* The signal thread and the child do not move the cursor.
LEMMA WalkRests ==
  ASSUME WalkOK, UNCHANGED <<job, pc, si, ci, stop, result, ran>>
  PROVE  WalkOK'
<1>1. /\ Plan' = Plan /\ CurCommand' = CurCommand
      /\ \A i : CommandsAt(i)' = CommandsAt(i)
  BY DEF Plan, CommandsAt, CurCommand
<1>2. \A i, k : /\ Past(i, k)' <=> Past(i, k)
                /\ Begun(i, k)' <=> Begun(i, k)
                /\ Runnable(i, k)' <=> Runnable(i, k)
  BY <1>1 DEF Past, Begun, Runnable, Runs
<1>3. CommandsAt(si)' = CommandsAt(si)
  BY DEF CommandsAt, Plan
<1> QED BY <1>1, <1>2, <1>3 DEF WalkOK

\* What RunsInPlanOrder says of the n-th attempt of the history h.
InOrder(h, n) ==
  /\ Runnable(h[n].step, h[n].index)
  /\ \A i \in 1..Len(Plan) : \A k \in 1..Len(CommandsAt(i)) :
       Runnable(i, k) =>
         (Precedes(i, k, h[n].step, h[n].index)
            <=> \E m \in 1..(n - 1) : h[m].step = i /\ h[m].index = k)

\* Each command is started when all that the plan puts before it have been, and
\* nothing behind it.
LEMMA OrderInductive ==
  ASSUME TypeInv, WalkOK, RunsInPlanOrder, [Next]_vars
  PROVE  RunsInPlanOrder'
<1> USE DEF TypeInv
<1>1. /\ job' = job /\ Plan' = Plan /\ Len(ran) \in Nat /\ si \in Nat /\ ci \in Nat
      /\ \A i : CommandsAt(i)' = CommandsAt(i)
  BY MainFrame, HandlerFrame, LenProperties
  DEF Next, vars, mainVars, Plan, CommandsAt, TypeOK
<1>2. \A i, k : Runnable(i, k)' <=> Runnable(i, k)
  BY <1>1 DEF Runnable, Runs
<1>0. ASSUME NEW n, InOrder(ran', n)
      PROVE  InOrder(ran, n)'
  BY <1>0, <1>1, <1>2 DEF InOrder, Precedes
<1>10. (\A n \in 1..Len(ran') : InOrder(ran', n)) => RunsInPlanOrder'
  <2> SUFFICES ASSUME \A n \in 1..Len(ran') : InOrder(ran', n) PROVE RunsInPlanOrder'
    OBVIOUS
  <2>1. \A n \in 1..Len(ran') : InOrder(ran, n)'
    BY <1>0
  <2> QED BY <2>1 DEF RunsInPlanOrder, InOrder
<1>3. CASE ran' = ran
  <2>1. \A n \in 1..Len(ran) : InOrder(ran, n)
    BY DEF RunsInPlanOrder, InOrder
  <2> QED BY <1>3, <1>10, <2>1
<1>4. CASE WaitFails \/ AfterCommand
  <2>1. /\ Len(ran') = Len(ran)
        /\ \A n \in 1..Len(ran) :
             ran'[n].step = ran[n].step /\ ran'[n].index = ran[n].index
    BY <1>4, ChildEndNoted
  <2>2. ASSUME NEW n \in 1..Len(ran)
        PROVE  InOrder(ran', n)
    <3>1. \A m \in 1..(n - 1) : m \in 1..Len(ran)
      BY <1>1
    <3>2. InOrder(ran, n)
      BY DEF RunsInPlanOrder, InOrder
    <3>3. /\ ran'[n].step = ran[n].step /\ ran'[n].index = ran[n].index
          /\ \A m \in 1..(n - 1) : ran'[m].step = ran[m].step /\ ran'[m].index = ran[m].index
      BY <2>1, <3>1
    <3> QED BY <3>2, <3>3 DEF InOrder
  <2> QED BY <1>10, <2>1, <2>2
<1>5. CASE Spawn \/ SpawnFails
  <2>1. /\ Len(ran') = Len(ran) + 1
        /\ \A n \in 1..Len(ran) : ran'[n] = ran[n]
        /\ ran'[Len(ran) + 1].step = si /\ ran'[Len(ran) + 1].index = ci
    BY <1>5, SpawnAppends DEF Attempt
  <2>2. pc = "spawn" /\ ~job.dryRun
    BY <1>5 DEF Spawn, SpawnFails, At, WalkOK, InCommand
  <2>3. Runnable(si, ci)
    BY <1>1, <2>2 DEF WalkOK, CursorOK, InCommand, InTarget, Runnable, Runs, CurCommand, TypeOK
  <2>4. ASSUME NEW i \in 1..Len(Plan), NEW k \in 1..Len(CommandsAt(i)), Runnable(i, k)
        PROVE  Precedes(i, k, si, ci) <=> Begun(i, k)
    <3>1. Past(i, k) <=> Begun(i, k)
      BY <2>2, <2>4 DEF WalkOK, Early, InTarget, InCommand
    <3>2. Past(i, k) <=> Precedes(i, k, si, ci)
      BY <2>2 DEF Past, Precedes, InTarget, InCommand, InChild, Underway
    <3> QED BY <3>1, <3>2
  <2>5. ASSUME NEW n \in 1..Len(ran')
        PROVE  InOrder(ran', n)
    <3>1. CASE n \in 1..Len(ran)
      <4>1. ran'[n] = ran[n] /\ \A m \in 1..(n - 1) : ran'[m] = ran[m]
        BY <1>1, <2>1, <3>1
      <4>2. InOrder(ran, n)
        BY <3>1 DEF RunsInPlanOrder, InOrder
      <4> QED BY <4>1, <4>2 DEF InOrder
    <3>2. CASE n = Len(ran) + 1
      <4>1. ran'[n].step = si /\ ran'[n].index = ci /\ n - 1 = Len(ran)
        BY <1>1, <2>1, <3>2
      <4>2. ASSUME NEW i, NEW k
            PROVE  Begun(i, k) <=> \E m \in 1..(n - 1) : ran'[m].step = i /\ ran'[m].index = k
        BY <2>1, <4>1 DEF Begun
      <4> HIDE DEF Begun
      <4>3. ASSUME NEW i \in 1..Len(Plan), NEW k \in 1..Len(CommandsAt(i)), Runnable(i, k)
            PROVE  Precedes(i, k, si, ci)
                     <=> \E m \in 1..(n - 1) : ran'[m].step = i /\ ran'[m].index = k
        BY <2>4, <4>2, <4>3
      <4> QED BY <2>3, <4>1, <4>3 DEF InOrder
    <3> QED BY <1>1, <2>1, <3>1, <3>2
  <2> QED BY <1>10, <2>5
<1> QED BY <1>3, <1>4, <1>5, AttemptFrame

-----------------------------------------------------------------------------
(* The status and the exit code.                                           *)

\* Where the locals of run_one are written, and that an error leaves the loops.
LEMMA LocalsFrame ==
  ASSUME MainStep \/ ToolReturns
  PROVE  /\ last' = last \/ EnterTarget \/ AfterCommand
         /\ stop' = stop \/ EnterTarget \/ StopChain
         /\ result' = result \/ pc' \in Ending
<1> USE DEF Goto, Ending
<1>1. CASE Prepare \/ WalkPlan \/ EnsureTools \/ ToolReturns
  BY <1>1 DEF Prepare, Install, BeforeAll, BeginRun, WalkPlan, SkipStep, EnterTarget, StepsDone,
    BeforeTarget, AfterTarget, EnsureTools, ToolReturns, ToolKnown, BeforeTool, ToolReady,
    ToolFails, books
<1>2. CASE PickCommand \/ Conclude
  BY <1>2 DEF PickCommand, SkipCommand, EnterCommand, CommandsDone, NoShellVariant, DryCommand,
    Conclude, CheckCancelled, CheckFinished, AfterAll, EndRun, Exit, books
<1>3. CASE RunCommand
  BY <1>3 DEF RunCommand, BeforeCommand, SpawnFails, Spawn, PollExited, WaitFails, PollCancelled,
    PollSleeps, Wake, Kill, AfterCommand, StopChain, ContinueChain, books
<1> QED BY <1>1, <1>2, <1>3 DEF MainStep

\* The status in the making is the end of the last attempt.
LEMMA NotedInductive ==
  ASSUME TypeInv, ReportOK, MainStep \/ ToolReturns
  PROVE  /\ (pc \in Early \ InTarget => Noted(status))'
         /\ (pc \in InTarget \ InChild => Noted(IF last = "none" THEN status ELSE last))'
         /\ (pc \in Ending /\ result = "ok" => Noted(status))'
<1> USE DEF TypeInv
<1> DEFINE Sum == IF last = "none" THEN status ELSE last
<1>1. [Next]_vars
  BY DEF Next
<1>2. /\ ran' = ran /\ status' = status /\ Noted(status) => Noted(status)'
      /\ ran' = ran /\ status' = status /\ last' = last /\ Noted(Sum) => Noted(Sum)'
      /\ ran' = ran /\ status' = Sum /\ Noted(Sum) => Noted(status)'
      /\ ran' = ran /\ status' = status /\ last' = "none" /\ Noted(status) => Noted(Sum)'
  BY DEF Noted
<1> HIDE DEF Sum
<1>3. pc' \in Early \cup Ending /\ Early \cap Ending = {} /\ InTarget \subseteq Early
  BY <1>1, TypeInvInductive DEF TypeOK, Label, Early, Ending, InTarget, InCommand, InChild
<1>4. CASE pc' \in Early
  <2> USE DEF At, Goto
  <2>0. pc \in Early /\ pc' \notin Ending
    BY <1>3, <1>4, EndingMoves
  <2>1. status' = status \/ AfterTarget
    BY <1>1, <2>0, OutcomeFrame DEF CheckCancelled, Ending
  <2>2. CASE pc \in Early \ InTarget /\ pc' \in Early \ InTarget
    <3>1. ran' = ran /\ status' = status
      BY <1>1, <2>1, <2>2, AttemptFrame DEF SpawnFails, Spawn, WaitFails, AfterCommand,
        AfterTarget, InTarget, InCommand, InChild
    <3> QED BY <1>2, <2>0, <2>2, <3>1 DEF ReportOK
  <2>3. CASE EnterTarget
    <3>1. /\ pc = "step" /\ pc' = "tools" /\ last' = "none" /\ ran' = ran /\ status' = status
      BY <2>3 DEF EnterTarget, history
    <3>2. "step" \in Early \ InTarget /\ "tools" \in InTarget
      BY DEF Early, InTarget, InCommand, InChild
    <3> QED BY <1>2, <2>0, <3>1, <3>2 DEF ReportOK, Sum
  <2>4. CASE BeforeTarget \/ SkipCommand \/ EnterCommand \/ DryCommand \/ BeforeCommand
             \/ ContinueChain \/ StopChain \/ CommandsDone
             \/ (pc \in {"tools", "ensure"} /\ pc' \in {"tools", "ensure"})
    <3>1. /\ pc \in {"tools", "ensure", "command", "decide"}
          /\ pc' \in {"tools", "ensure", "command", "spawn", "afterTarget"}
      BY <2>4 DEF BeforeTarget, SkipCommand, EnterCommand, DryCommand, BeforeCommand,
        ContinueChain, StopChain, CommandsDone, CommandToolsDone
    <3>2. ran' = ran /\ status' = status /\ last' = last
      BY <1>1, <2>1, <3>1, AttemptFrame, LocalsFrame DEF SpawnFails, Spawn, WaitFails,
        AfterCommand, AfterTarget, EnterTarget
    <3>3. pc \in InTarget \ InChild /\ pc' \in InTarget
      BY <3>1 DEF InTarget, InCommand, InChild
    <3> QED BY <1>2, <1>3, <2>0, <3>2, <3>3 DEF ReportOK, Sum
  <2>5. CASE Spawn \/ (pc \in Underway /\ pc' \in InChild)
    <3>1. pc' \in InChild /\ InChild \subseteq InTarget
      BY <2>5 DEF Spawn, InTarget, InCommand, InChild
    <3> QED BY <1>3, <3>1
  <2>6. CASE pc \in Underway /\ pc' = "decide"
    <3>1. AfterCommand
      BY <2>6 DEF Underway, InChild, MainStep, ToolReturns, Prepare, WalkPlan, EnsureTools,
        PickCommand, RunCommand, Conclude, Install, BeforeAll, BeginRun, SkipStep, EnterTarget,
        StepsDone, BeforeTarget, AfterTarget, ToolKnown, BeforeTool, ToolReady, ToolFails,
        SkipCommand, EnterCommand, CommandsDone, NoShellVariant, DryCommand, CommandToolsDone,
        BeforeCommand, SpawnFails, Spawn, PollExited, WaitFails, PollCancelled, PollSleeps,
        Wake, Kill, StopChain, ContinueChain, CheckCancelled, CheckFinished, AfterAll, EndRun,
        Exit
    <3>2. /\ ~WaitFails /\ last' = child /\ child # "none"
      BY <3>1 DEF AfterCommand, WaitFails, ChildOK, ChildEnd
    <3>3. ran' # <<>> /\ ran'[Len(ran')].end = last'
      BY <3>1, <3>2, ChildEndNoted, EmptySeq DEF AfterCommand
    <3>4. Noted(Sum)'
      BY <3>2, <3>3 DEF Noted, Sum
    <3> QED BY <1>3, <2>0, <2>6, <3>4 DEF Sum, InTarget, InCommand
  <2>7. CASE SkipStep
    <3>1. /\ pc = "step" /\ pc' = "step"
      BY <2>7 DEF SkipStep
    <3> QED BY <2>2, <2>0, <1>4, <3>1 DEF InTarget, InCommand, InChild
  <2>8. CASE AfterTarget /\ ~stop
    <3>1. /\ pc = "afterTarget" /\ pc' = "step" /\ ran' = ran /\ status' = Sum
      BY <2>8 DEF AfterTarget, history, Sum
    <3>2. "afterTarget" \in InTarget \ InChild /\ "step" \notin InTarget
      BY DEF InTarget, InCommand, InChild
    <3> QED BY <1>2, <2>0, <3>1, <3>2 DEF ReportOK, Sum
  <2>9. Underway = InChild \cup {"decide"}
    BY DEF Underway
  <2> QED BY <2>0, <2>2, <2>3, <2>4, <2>5, <2>6, <2>7, <2>8, <2>9, WalkMoves
<1>5. CASE pc' \in Ending
  <2> SUFFICES ASSUME result' = "ok" PROVE Noted(status)'
    BY <1>3, <1>5
  <2>1. result = "ok" /\ ~CheckCancelled
    BY <1>1, OutcomeFrame DEF CheckCancelled
  <2>2. CASE pc \in Ending
    <3>1. ran' = ran /\ ~AfterTarget
      BY <2>2, EndingMoves DEF AfterTarget, At, Ending
    <3>2. status' = status
      BY <1>1, <2>1, <3>1, OutcomeFrame
    <3> QED BY <1>2, <2>1, <2>2, <3>1, <3>2 DEF ReportOK
  <2>3. CASE StepsDone
    <3>1. pc = "step" /\ ran' = ran /\ status' = status
      BY <2>3 DEF StepsDone, At, books, history
    <3>2. "step" \in Early \ InTarget
      BY DEF Early, InTarget, InCommand, InChild
    <3> QED BY <1>2, <3>1, <3>2 DEF ReportOK
  <2>4. CASE AfterTarget /\ stop
    <3>1. pc = "afterTarget" /\ ran' = ran /\ status' = Sum
      BY <2>4 DEF AfterTarget, At, history, Sum
    <3>2. "afterTarget" \in InTarget \ InChild
      BY DEF InTarget, InCommand, InChild
    <3> QED BY <1>2, <3>1, <3>2 DEF ReportOK, Sum
  <2> QED BY <1>5, <2>2, <2>3, <2>4, EndingMoves
<1> QED BY <1>3, <1>4, <1>5 DEF Sum

\* Whatever run_one stops for is still to be seen when the run is judged.
LEMMA StopInductive ==
  ASSUME TypeInv, ChainOK, ReportOK, MainStep \/ ToolReturns
  PROVE  /\ (pc \in Early => result = "ok")'
         /\ (stop => pc = "afterTarget" \/ pc \in Ending)'
         /\ (stop => last # "none")'
         /\ (stop /\ result = "ok" => cancel \/ ~Success(last))'
         /\ (pc \in Ending /\ result = "ok" =>
               \/ si > Len(Plan) /\ \A n \in 1..Len(ran) : Passed(ran[n])
               \/ stop /\ status = last)'
         /\ (pc \in Ending \ {"check"} /\ stop /\ result = "ok" => ~Success(last))'
<1> USE DEF TypeInv, At, Goto
<1>1. /\ [Next]_vars /\ job' = job /\ Plan' = Plan
      /\ pc' \in Early \cup Ending /\ Early \cap Ending = {} /\ pc \in Early \cup Ending
      /\ InTarget \subseteq Early /\ stop \in BOOLEAN /\ stop' \in BOOLEAN
      /\ \A n : ran' = ran /\ Passed(ran[n]) => Passed(ran[n])'
  BY MainFrame, TypeInvInductive
  DEF Next, TypeOK, Label, Early, Ending, InTarget, InCommand, InChild, Plan, Passed, CommandOf,
    CommandsAt
<1>2. (pc \in Early => result = "ok")'
  BY <1>1, LocalsFrame, EndingMoves DEF ReportOK
<1>3. result' = "ok" => result = "ok"
  BY <1>1, OutcomeFrame DEF CheckCancelled
<1>4. CASE pc \in Ending
  <2>1. Conclude /\ pc' \in Ending /\ UNCHANGED <<si, last, stop, ran>>
    BY <1>4, EndingMoves
  <2>2. result' = "ok" => status' = status
    BY <1>1, <2>1, OutcomeFrame DEF CheckCancelled, AfterTarget, Conclude, CheckFinished, AfterAll,
      EndRun, Exit
  <2>3. (pc \in Ending \ {"check"} /\ stop /\ result = "ok" => ~Success(last))'
    <3> SUFFICES ASSUME stop, result' = "ok" PROVE ~Success(last)'
      BY <2>1
    <3>1. ~CheckCancelled
      BY DEF CheckCancelled
    <3>2. CASE pc = "check"
      <4>1. ~cancel
        BY <2>1, <3>1, <3>2 DEF Conclude, CheckFinished, AfterAll, EndRun, Exit
      <4>2. ~Success(last)
        BY <1>3, <4>1 DEF ReportOK
      <4> QED BY <2>1, <4>2 DEF Success
    <3>3. CASE pc # "check"
      BY <1>3, <1>4, <2>1, <3>3 DEF ReportOK, Success
    <3> QED BY <3>2, <3>3
  <2>4. (stop /\ result = "ok" => cancel \/ ~Success(last))'
    BY <1>1, <1>3, <2>1, CancelKept DEF ReportOK, Success
  <2>5. (pc \in Ending /\ result = "ok" =>
           \/ si > Len(Plan) /\ \A n \in 1..Len(ran) : Passed(ran[n])
           \/ stop /\ status = last)'
    BY <1>1, <1>3, <1>4, <2>1, <2>2 DEF ReportOK
  <2> QED BY <1>2, <2>1, <2>3, <2>4, <2>5 DEF ReportOK
<1>5. CASE pc \in Early /\ pc # "afterTarget"
  <2>1. ~stop /\ (EnterTarget => ~stop')
    BY <1>1, <1>5 DEF ReportOK, EnterTarget
  <2>2. CASE StopChain
    <3>1. pc = "decide" /\ pc' = "afterTarget" /\ last' = last /\ MustStop
      BY <2>2 DEF StopChain
    <3>2. last # "none"
      <4>1. ran # <<>> /\ ran[Len(ran)].end = last
        BY <3>1 DEF ChainOK
      <4>2. ran[Len(ran)] \in AttemptRecord
        BY <4>1, EmptySeq, ElementOfSeq DEF TypeOK
      <4> QED BY <4>1, <4>2 DEF AttemptRecord, ChildEnd
    <3>3. (stop /\ result = "ok" => cancel \/ ~Success(last))'
      BY <1>1, <3>1, CancelKept DEF MustStop, Success
    <3>4. pc' \notin Ending
      BY <3>1 DEF Ending
    <3> QED BY <1>2, <3>1, <3>2, <3>3, <3>4
  <2>3. CASE ~StopChain
    <3>1. ~stop'
      BY <1>1, <2>1, <2>3, LocalsFrame
    <3>2. (pc \in Ending /\ result = "ok" =>
             \/ si > Len(Plan) /\ \A n \in 1..Len(ran) : Passed(ran[n])
             \/ stop /\ status = last)'
      <4> SUFFICES ASSUME pc' \in Ending, result' = "ok"
                   PROVE  (si > Len(Plan) /\ \A n \in 1..Len(ran) : Passed(ran[n]))'
        OBVIOUS
      <4>1. StepsDone
        BY <1>5, <2>1, EndingMoves
      <4>2. pc = "step" /\ si > Len(Plan) /\ si' = si /\ ran' = ran
        BY <4>1 DEF StepsDone, cursor, history
      <4>3. \A n \in 1..Len(ran) : Passed(ran[n])
        BY <4>2 DEF ChainOK, Starting, Early, InChild
      <4> QED BY <1>1, <4>2, <4>3
    <3> QED BY <1>2, <3>1, <3>2
  <2> QED BY <2>2, <2>3
<1>6. CASE pc = "afterTarget"
  <2>1. AfterTarget
    BY <1>6 DEF MainStep, ToolReturns, Prepare, WalkPlan, EnsureTools, PickCommand, RunCommand,
      Conclude, Install, BeforeAll, BeginRun, SkipStep, EnterTarget, StepsDone, BeforeTarget,
      ToolKnown, BeforeTool, ToolReady, ToolFails, SkipCommand, EnterCommand, CommandsDone,
      NoShellVariant, DryCommand, CommandToolsDone, BeforeCommand, SpawnFails, Spawn, PollExited,
      WaitFails, PollCancelled, PollSleeps, Wake, Kill, AfterCommand, StopChain, ContinueChain,
      CheckCancelled, CheckFinished, AfterAll, EndRun, Exit
  <2>2. /\ UNCHANGED <<last, stop>> /\ status' = (IF last = "none" THEN status ELSE last)
        /\ pc' = IF stop THEN "check" ELSE "step"
    BY <2>1 DEF AfterTarget
  <2>3. (stop /\ result = "ok" => cancel \/ ~Success(last))'
    BY <1>1, <1>3, <2>2, CancelKept DEF ReportOK, Success
  <2>4. "check" \in Ending /\ "step" \notin Ending
    BY DEF Ending
  <2> QED BY <1>2, <2>2, <2>3, <2>4 DEF ReportOK
<1> QED BY <1>1, <1>4, <1>5, <1>6

\* The exit code is computed once, from the judged status.
LEMMA ProcInductive ==
  ASSUME TypeInv, ReportOK, [Next]_vars
  PROVE  /\ (proc \in {"ok", "failed", "one"} => pc = "done")'
         /\ (pc = "done" => proc = IF result = "error" THEN "one" ELSE ExitOf(status))'
<1> USE DEF TypeInv
<1>1. CASE Exit
  <2>1. /\ pc' = "done" /\ status' = status /\ result' = result
        /\ proc' = IF result = "error" THEN "one" ELSE ExitOf(status)
    BY <1>1 DEF Exit, Goto, books
  <2> QED BY <2>1 DEF ExitOf
<1>2. pc = "done" => pc' = "done" /\ UNCHANGED <<status, result>>
  <2> SUFFICES ASSUME pc = "done" PROVE pc' = "done" /\ UNCHANGED <<status, result>>
    OBVIOUS
  <2>1. UNCHANGED <<status, result>>
    BY Concluding DEF Ending
  <2>2. CASE MainStep \/ ToolReturns
    <3>1. Conclude
      BY <2>2, EndingMoves DEF Ending
    <3> QED BY <3>1 DEF Conclude, CheckCancelled, CheckFinished, AfterAll, EndRun, Exit, At
  <2>3. CASE ~(MainStep \/ ToolReturns)
    BY <2>1, <2>3, HandlerFrame DEF Next, ChildExits, vars, mainVars
  <2> QED BY <2>2, <2>3
<1>3. pc' = "done" => pc = "done" \/ Exit
  <2> SUFFICES ASSUME pc' = "done", ~Exit PROVE pc = "done"
    OBVIOUS
  <2>1. CASE MainStep \/ ToolReturns
    <3>1. Conclude \/ pc \in Early
      BY <2>1, EndingMoves
    <3>2. CASE Conclude
      BY <3>2 DEF Conclude, CheckCancelled, CheckFinished, AfterAll, EndRun, Goto
    <3>3. CASE pc \in Early
      <4>1. pc' \in Early \/ pc' = "check"
        BY <2>1, <3>3, EarlyLeft
      <4> QED BY <4>1 DEF Early, InTarget, InCommand, InChild
    <3> QED BY <3>1, <3>2, <3>3
  <2>2. CASE ~(MainStep \/ ToolReturns)
    BY <2>2, HandlerFrame DEF Next, ChildExits, vars, mainVars
  <2> QED BY <2>1, <2>2
<1>4. CASE SafetyNet
  <2>1. /\ proc' \in Signal /\ proc = "alive"
    BY <1>4 DEF SafetyNet, HandlerOK, TypeOK
  <2>2. ExitOf(status) # "alive"
    BY SignalAssumption DEF ExitOf, Status, ChildEnd, TypeOK
  <2>3. pc # "done" /\ ~Exit
    BY <1>4, <2>1, <2>2, SignalAssumption DEF ReportOK, Exit, SafetyNet, mainVars, Goto, At
  <2> QED BY <1>3, <2>1, <2>3, SignalAssumption DEF ChildEnd
<1>5. CASE proc' = proc /\ ~Exit
  BY <1>2, <1>3, <1>5 DEF ReportOK, ExitOf
<1> QED BY <1>1, <1>4, <1>5, OutcomeFrame

\* What is behind the report rests while the other threads move.
LEMMA ReportRests ==
  ASSUME [Next]_vars, UNCHANGED <<job, pc, si, last, stop, status, result, ran>>, ReportOK
  PROVE  /\ (pc \in Early => result = "ok")'
         /\ (pc \in Early \ InTarget => Noted(status))'
         /\ (pc \in InTarget \ InChild => Noted(IF last = "none" THEN status ELSE last))'
         /\ (pc \in Ending /\ result = "ok" => Noted(status))'
         /\ (stop => pc = "afterTarget" \/ pc \in Ending)'
         /\ (stop => last # "none")'
         /\ (stop /\ result = "ok" => cancel \/ ~Success(last))'
         /\ (pc \in Ending /\ result = "ok" =>
               \/ si > Len(Plan) /\ \A n \in 1..Len(ran) : Passed(ran[n])
               \/ stop /\ status = last)'
         /\ (pc \in Ending \ {"check"} /\ stop /\ result = "ok" => ~Success(last))'
<1>1. /\ Plan' = Plan
      /\ \A n : Passed(ran[n]) => Passed(ran[n])'
      /\ \A t : Noted(t)' <=> Noted(t)
      /\ Success(last)' <=> Success(last)
  BY DEF Plan, Passed, CommandOf, CommandsAt, Noted, Success
<1>2. (IF last = "none" THEN status ELSE last)' = (IF last = "none" THEN status ELSE last)
  OBVIOUS
<1>3. (stop /\ result = "ok" => cancel \/ ~Success(last))'
  BY <1>1, CancelKept DEF ReportOK
<1> QED BY <1>1, <1>2, <1>3 DEF ReportOK, Noted

LEMMA ReportInductive ==
  ASSUME TypeInv, ChainOK, ReportOK, [Next]_vars
  PROVE  ReportOK'
<1>1. CASE MainStep \/ ToolReturns
  BY <1>1, NotedInductive, StopInductive, ProcInductive DEF ReportOK
<1>2. CASE ~(MainStep \/ ToolReturns)
  <2>1. UNCHANGED <<job, pc, si, last, stop, status, result, ran>>
    BY <1>2, HandlerFrame DEF Next, ChildExits, vars, mainVars, cursor, books, history
  <2> QED BY <2>1, ReportRests, ProcInductive DEF ReportOK
<1> QED BY <1>1, <1>2

\* The exit code is that of a finished run whose last attempt ended as it says.
LEMMA ExitExplained ==
  ASSUME TypeInv, WalkOK, ReportOK
  PROVE  ExitCodeExplained
<1> USE DEF TypeInv
<1>1. ASSUME proc \in {"ok", "failed"} \/ (proc = "one" /\ result # "error")
      PROVE  /\ pc = "done" /\ pc \in Ending /\ result = "ok" /\ Noted(status)
             /\ proc = ExitOf(status) /\ status \notin Signal
  <2>1. pc = "done" /\ result # "error" /\ proc = ExitOf(status)
    BY <1>1 DEF ReportOK
  <2>2. status \notin Signal
    BY <1>1, <2>1, SignalAssumption DEF ExitOf, ChildEnd
  <2>3. result # "cancelled"
    BY <2>2 DEF StatusOK, HandlerOK
  <2>4. result = "ok" /\ pc \in Ending
    BY <2>1, <2>3 DEF TypeOK, Ending
  <2> QED BY <2>1, <2>2, <2>4 DEF ReportOK
<1>2. ASSUME proc = "ok", ~job.dryRun, NEW i \in 1..Len(Plan), NEW k \in 1..Len(CommandsAt(i)),
             Runnable(i, k)
      PROVE  \E n \in 1..Len(ran) : ran[n].step = i /\ ran[n].index = k /\ Passed(ran[n])
  <2>1. pc \in Ending /\ pc = "done" /\ result = "ok" /\ status \in {"none", "ok"}
    <3>1. pc \in Ending /\ pc = "done" /\ result = "ok" /\ ExitOf(status) = "ok"
          /\ status \notin Signal
      BY <1>1, <1>2
    <3> QED BY <3>1 DEF ExitOf, TypeOK, Status, ChildEnd
  <2>2. si > Len(Plan) /\ \A n \in 1..Len(ran) : Passed(ran[n])
    BY <2>1 DEF ReportOK, Success
  <2>3. Begun(i, k)
    BY <1>2, <2>1, <2>2 DEF WalkOK
  <2> QED BY <2>2, <2>3 DEF Begun
<1>3. ASSUME proc = "failed"
      PROVE  ran # <<>> /\ ran[Len(ran)].end = "failed"
  <2>1. Noted(status) /\ ExitOf(status) = "failed" /\ status \notin Signal
    BY <1>1, <1>3
  <2>2. status = "failed"
    BY <2>1 DEF ExitOf, TypeOK, Status, ChildEnd
  <2> QED BY <2>1, <2>2 DEF Noted
<1>4. ASSUME proc = "one", result # "error"
      PROVE  ran # <<>> /\ ran[Len(ran)].end = "killed"
  <2>1. Noted(status) /\ ExitOf(status) = "one" /\ status \notin Signal
    BY <1>1, <1>4
  <2>2. status = "killed"
    BY <2>1 DEF ExitOf, TypeOK, Status, ChildEnd
  <2> QED BY <2>1, <2>2 DEF Noted
<1> QED BY <1>2, <1>3, <1>4 DEF ExitCodeExplained

\* The inductive invariant of this module.
OutcomeInv == TypeInv /\ ChainOK /\ ReportOK /\ WalkOK /\ RunsInPlanOrder

LEMMA OutcomeInitially ==
  ASSUME Init
  PROVE  OutcomeInv
<1>1. TypeInv
  BY TypeInvInitially
<1>2. /\ pc = "install" /\ ci = 0 /\ si = 1 /\ last = "none" /\ stop = FALSE /\ status = "none"
      /\ result = "ok" /\ proc = "alive" /\ ran = <<>> /\ 1..Len(ran) = {} /\ 1..(Len(ran) - 1) = {}
  BY EmptySeq DEF Init
<1>3. pc \in Early \ InTarget /\ pc \notin Ending /\ pc \notin InCommand \cup {"tools", "ensure"}
      /\ pc \notin InChild \cup {"decide"}
  BY <1>2 DEF Early, InTarget, InCommand, InChild, Ending
<1>4. ChainOK
  BY <1>2, <1>3 DEF ChainOK, StopsAtFailure
<1>5. ReportOK
  BY <1>2, <1>3 DEF ReportOK, Noted
<1>6. WalkOK
  <2>1. \A i \in 1..Len(Plan) : \A k : ~Past(i, k)
    BY <1>2, <1>3 DEF Past, Underway
  <2>2. \A i, k : ~Begun(i, k)
    BY <1>2 DEF Begun
  <2> QED BY <1>2, <1>3, <2>1, <2>2 DEF WalkOK
<1>7. RunsInPlanOrder
  BY <1>2 DEF RunsInPlanOrder
<1> QED BY <1>1, <1>4, <1>5, <1>6, <1>7 DEF OutcomeInv

LEMMA OutcomeInductive ==
  ASSUME OutcomeInv, [Next]_vars
  PROVE  OutcomeInv'
<1> USE DEF OutcomeInv
<1>1. TypeInv' /\ ChainOK' /\ ReportOK' /\ RunsInPlanOrder'
  BY TypeInvInductive, ChainInductive, ReportInductive, OrderInductive
<1>2. CASE MainStep \/ ToolReturns
  BY <1>1, <1>2, WalkInductive
<1>3. CASE ~(MainStep \/ ToolReturns)
  <2>1. UNCHANGED <<job, pc, si, ci, stop, result, ran>>
    BY <1>3, HandlerFrame DEF Next, ChildExits, vars, mainVars, cursor, books, history
  <2> QED BY <1>1, <2>1, WalkRests
<1> QED BY <1>2, <1>3

\* For every plan, and whatever tools, signals and children do: when a command is
\* started, exactly the commands the plan puts before it have been (run_steps,
\* run_one); none is left out, none is started twice.
THEOREM PlanOrder == Spec => []RunsInPlanOrder
<1>1. OutcomeInv => RunsInPlanOrder
  BY DEF OutcomeInv
<1> QED BY <1>1, OutcomeInitially, OutcomeInductive, PTL DEF Spec

\* The process's exit code tells what the chain did (run_impl, exit_code, main): 0
\* only if every command the plan asks for was run and passed, the code of the last
\* attempt if that one failed, 1 only after a kill or an error.
THEOREM ExitExplains == Spec => []ExitCodeExplained
<1>1. OutcomeInv => ExitCodeExplained
  BY ExitExplained DEF OutcomeInv
<1> QED BY <1>1, OutcomeInitially, OutcomeInductive, PTL DEF Spec

-----------------------------------------------------------------------------
(* Who sends what.                                                         *)

\* What a step sends: the positions it adds to the stream.
Sent == (Len(events) + 1)..Len(events')
Grown ==
  /\ Len(events) \in Nat /\ Len(events') \in Nat /\ Len(events) <= Len(events')
  /\ \A n \in 1..Len(events) : events'[n] = events[n]
SentOnly(e) == Len(events') = Len(events) + 1 /\ events'[Len(events) + 1] = e

\* Sequences of one and of two events at the end of the stream.
LEMMA SentOne ==
  ASSUME TypeOK, NEW e, events' = events \/ events' = events \o <<e>>
  PROVE  /\ Grown
         /\ events' = events => Sent = {}
         /\ events' = events \o <<e>> => SentOnly(e) /\ Sent = {Len(events) + 1}
         /\ \A n \in Sent : events'[n] = e
<1> DEFINE S == EventRecord \cup {e}
<1>1. events \in Seq(S) /\ e \in S /\ Len(events) \in Nat
  BY SeqMonotonic, LenProperties DEF TypeOK
<1> HIDE DEF S
<1>2. CASE events' = events
  <2>1. Sent = {}
    BY <1>1, <1>2 DEF Sent
  <2>2. events' # events \o <<e>>
    BY <1>1, <1>2, AppendIsConcat, AppendProperties
  <2> QED BY <1>1, <1>2, <2>1, <2>2 DEF Grown
<1>3. CASE events' = events \o <<e>>
  <2>1. events' = Append(events, e)
    BY <1>1, <1>3, AppendIsConcat
  <2>2. /\ Len(events') = Len(events) + 1
        /\ \A n \in 1..Len(events) : events'[n] = events[n]
        /\ events'[Len(events) + 1] = e
    BY <1>1, <2>1, AppendProperties
  <2>3. Sent = {Len(events) + 1}
    BY <1>1, <2>2 DEF Sent
  <2>4. events' # events
    BY <1>1, <2>2
  <2> QED BY <1>1, <2>2, <2>3, <2>4 DEF Grown, SentOnly
<1> QED BY <1>2, <1>3

LEMMA SentTwo ==
  ASSUME TypeOK, NEW d, NEW e, events' = events \o (<<d>> \o <<e>>)
  PROVE  /\ Grown /\ Sent = {Len(events) + 1, Len(events) + 2}
         /\ events'[Len(events) + 1] = d /\ events'[Len(events) + 2] = e
<1> DEFINE S == EventRecord \cup {d, e}
<1>1. events \in Seq(S) /\ d \in S /\ e \in S /\ Len(events) \in Nat
  BY SeqMonotonic, LenProperties DEF TypeOK
<1> HIDE DEF S
<1>2. /\ <<d>> \o <<e>> \in Seq(S) /\ Len(<<d>> \o <<e>>) = 2
      /\ (<<d>> \o <<e>>)[1] = d /\ (<<d>> \o <<e>>)[2] = e
  <2>1. /\ <<d>> \in Seq(S) /\ Len(<<d>>) = 1 /\ <<d>>[1] = d
        /\ <<e>> \in Seq(S) /\ Len(<<e>>) = 1 /\ <<e>>[1] = e
    BY <1>1
  <2>2. <<d>> \o <<e>> = Append(<<d>>, e)
    BY <1>1, <2>1, AppendIsConcat
  <2> QED BY <1>1, <2>1, <2>2, AppendProperties
<1> DEFINE new == <<d>> \o <<e>>
<1> HIDE DEF new
<1>3. /\ Len(events') = Len(events) + 2
      /\ \A n \in 1..(Len(events) + 2) :
           events'[n] = IF n <= Len(events) THEN events[n] ELSE new[n - Len(events)]
  BY <1>1, <1>2, ConcatProperties DEF new
<1>4. events'[Len(events) + 1] = d /\ events'[Len(events) + 2] = e
  <2>1. (Len(events) + 1) - Len(events) = 1 /\ (Len(events) + 2) - Len(events) = 2
    BY <1>1
  <2> QED BY <1>1, <1>2, <1>3, <2>1 DEF new
<1>5. Sent = {Len(events) + 1, Len(events) + 2}
  <2>1. Sent = (Len(events) + 1)..(Len(events) + 2)
    BY <1>3 DEF Sent
  <2> QED BY <1>1, <2>1
<1> QED BY <1>1, <1>3, <1>4, <1>5 DEF Grown

\* The actions that send an event of each type of the four pairs.
Sender(type) ==
  CASE type = "BeforeAll" -> BeforeAll [] type = "AfterAll" -> AfterAll
    [] type = "BeforeTarget" -> BeforeTarget [] type = "AfterTarget" -> AfterTarget
    [] type = "BeforeCommand" -> BeforeCommand
    [] type = "AfterCommand" -> SpawnFails \/ WaitFails \/ AfterCommand
    [] type = "BeforeTool" -> BeforeTool [] type = "AfterTool" -> ToolReady
    [] OTHER -> TRUE

\* The stream only grows, and each event comes from the action that sends its type.
LEMMA Senders ==
  ASSUME TypeOK, [Next]_vars
  PROVE  Grown /\ \A n \in Sent : Sender(events'[n].type)
<1>1. ASSUME NEW e, NEW t, Sender(e.type), Emit(<<e>>) \/ EmitFor(t, <<e>>)
      PROVE  Grown /\ \A n \in Sent : Sender(events'[n].type)
  <2>1. events' = events \/ events' = events \o <<e>>
    BY <1>1 DEF Emit, EmitFor
  <2>2. Grown /\ \A n \in Sent : events'[n] = e
    BY <2>1, SentOne
  <2> QED BY <1>1, <2>2
<1>2. CASE UNCHANGED events
  <2> DEFINE e == "none"
  <2>1. Grown /\ Sent = {}
    BY <1>2, SentOne
  <2> QED BY <2>1
<1>3. CASE BeforeAll
  BY <1>1, <1>3 DEF BeforeAll, Plain, Event, Sender
<1>4. CASE SkipStep
  BY <1>1, <1>4 DEF SkipStep, Plain, Event, Sender
<1>5. CASE BeforeTool
  BY <1>1, <1>5 DEF BeforeTool, Plain, Event, Sender
<1>6. CASE ToolReady
  BY <1>1, <1>6 DEF ToolReady, Plain, Event, Sender
<1>7. CASE SkipCommand
  BY <1>1, <1>7 DEF SkipCommand, Plain, Event, Sender
<1>8. CASE BeforeCommand
  BY <1>1, <1>8 DEF BeforeCommand, Plain, Event, Sender
<1>9. CASE BeforeTarget
  <2> DEFINE d == Plain("BeforeTarget", CurTarget, "run")
             e == Plain("NoTimeTracking", CurTarget, "run")
  <2>1. /\ d.type = "BeforeTarget" /\ e.type = "NoTimeTracking"
        /\ EmitFor(CurTarget, <<d>> \o IF CurTarget \in job.untracked THEN <<e>> ELSE <<>>)
    BY <1>9 DEF BeforeTarget, Plain, Event
  <2> HIDE DEF d, e
  <2>2. Sender(d.type) /\ Sender(e.type)
    BY <1>9, <2>1 DEF Sender
  <2>3. CASE CurTarget \in job.untracked
    <3>1. events' = events \/ events' = events \o (<<d>> \o <<e>>)
      BY <2>1, <2>3 DEF EmitFor
    <3>2. events' # events => Grown /\ \A n \in Sent : events'[n] \in {d, e}
      BY <3>1, SentTwo
    <3> QED BY <1>2, <2>2, <3>2
  <2>4. CASE CurTarget \notin job.untracked
    <3>1. <<d>> \o <<>> = <<d>>
      BY ConcatEmptySeq
    <3>2. EmitFor(CurTarget, <<d>>)
      BY <2>1, <2>4, <3>1
    <3> QED BY <1>1, <2>2, <3>2
  <2> QED BY <2>3, <2>4
<1>10. CASE SpawnFails \/ WaitFails \/ AfterCommand
  <2>1. PICK code, ok, stops : AfterCommandEvent(code, ok, stops)
    BY <1>10 DEF SpawnFails, WaitFails, AfterCommand
  <2> DEFINE e == Event("AfterCommand", CurTarget, CurCommand, code, ok, stops)
  <2>2. EmitFor(CurTarget, <<e>>) /\ e.type = "AfterCommand"
    BY <2>1 DEF AfterCommandEvent, Event
  <2> HIDE DEF e
  <2>3. Sender(e.type)
    BY <1>10, <2>2 DEF Sender
  <2> QED BY <1>1, <2>2, <2>3
<1>11. CASE AfterTarget
  BY <1>1, <1>11 DEF AfterTarget, Event, Sender
<1>12. CASE AfterAll
  <2>1. Sender(AfterAllEvent.type)
    BY <1>12 DEF Sender, AfterAllEvent, Event, TypeOK
  <2> QED BY <1>1, <1>12, <2>1 DEF AfterAll
<1>13. CASE EmitCancelled
  <2>1. CASE snapshot
    BY <1>1, <1>13, <2>1 DEF EmitCancelled, Event, Sender
  <2>2. CASE ~snapshot
    <3>1. events \o <<>> = events
      BY ConcatEmptySeq DEF TypeOK
    <3>2. Emit(<<>>)
      BY <1>13, <2>2 DEF EmitCancelled
    <3> QED BY <1>2, <3>1, <3>2 DEF Emit
  <2> QED BY <2>1, <2>2
<1>14. CASE Prepare \/ WalkPlan \/ EnsureTools \/ ToolReturns
  BY <1>2, <1>3, <1>4, <1>5, <1>6, <1>9, <1>11, <1>14 DEF Prepare, Install, BeginRun, WalkPlan,
    EnterTarget, StepsDone, EnsureTools, ToolReturns, ToolKnown, ToolFails
<1>15. CASE PickCommand \/ RunCommand
  BY <1>2, <1>7, <1>8, <1>10, <1>15 DEF PickCommand, EnterCommand, CommandsDone, NoShellVariant,
    DryCommand, RunCommand, Spawn, PollExited, PollCancelled, PollSleeps, Wake, Kill,
    StopChain, ContinueChain
<1>16. CASE Conclude \/ ChildExits
  BY <1>2, <1>12, <1>16 DEF Conclude, CheckCancelled, CheckFinished, EndRun, Exit, ChildExits
<1>17. CASE HandlerStep \/ SafetyNet \/ \E s \in Signal : Raise(s)
  BY <1>2, <1>13, <1>17 DEF HandlerStep, IgnoreSignal, HandleSignal, StoreCode, SnapshotRun,
    FlagCancel, ArmSafetyNet, SafetyNet, Raise
<1>18. CASE UNCHANGED vars
  BY <1>2, <1>18 DEF vars
<1> QED BY <1>14, <1>15, <1>16, <1>17, <1>18 DEF Next, MainStep

-----------------------------------------------------------------------------
(* AfterAll.                                                               *)

\* AfterAll stays what the judged run says, for its status and result stay.
LEMMA AfterAllInductive ==
  ASSUME TypeInv, AfterAllOK, [Next]_vars
  PROVE  AfterAllOK'
<1> USE DEF TypeInv
<1> DEFINE Told == {"end", "exit", "done"}
<1>1. /\ pc \in Told => pc' \in Told /\ AfterAllEvent' = AfterAllEvent
      /\ AfterAll => pc' \in Told /\ AfterAllEvent' = AfterAllEvent
  <2>1. pc \in Told => UNCHANGED <<status, result>>
    BY Concluding DEF Ending
  <2>2. AfterAll => pc' \in Told /\ UNCHANGED <<status, result>>
    BY DEF AfterAll, Goto, books
  <2>3. CASE MainStep \/ ToolReturns
    <3>1. pc \in Told => Conclude
      BY <2>3, EndingMoves DEF Ending
    <3>2. pc \in Told => pc' \in Told
      BY <3>1 DEF Conclude, CheckCancelled, CheckFinished, AfterAll, EndRun, Exit, At, Goto
    <3> QED BY <2>1, <2>2, <3>2 DEF AfterAllEvent
  <2>4. CASE ~(MainStep \/ ToolReturns)
    <3>1. pc' = pc /\ ~AfterAll
      BY <2>4, HandlerFrame DEF Next, ChildExits, vars, mainVars, MainStep, Conclude
    <3> QED BY <2>1, <3>1 DEF AfterAllEvent
  <2> QED BY <2>3, <2>4
<1>2. ASSUME NEW n \in 1..Len(events), events[n].type = "AfterAll"
      PROVE  pc' \in Told /\ events[n] = AfterAllEvent'
  BY <1>1, <1>2 DEF AfterAllOK
<1>3. ASSUME NEW n \in Sent, events'[n].type = "AfterAll"
      PROVE  pc' \in Told /\ events'[n] = AfterAllEvent'
  <2>1. AfterAll
    BY <1>3, Senders DEF Sender
  <2>2. events' = events \/ events' = events \o <<AfterAllEvent>>
    BY <2>1 DEF AfterAll, Emit
  <2>3. events'[n] = AfterAllEvent
    BY <2>2, SentOne
  <2> QED BY <1>1, <2>1, <2>3
<1>4. Grown
  BY Senders
<1> QED BY <1>2, <1>3, <1>4 DEF AfterAllOK, Grown, Sent

\* AfterAll and the process agree: what the stream calls a failure is a failing exit
\* code, and a code in the stream is the exit code (run_impl, exit_code, main).
THEOREM AfterAllAgrees == Spec => []AfterAllAgreesWithExit
<1>1. Init => OutcomeInv /\ AfterAllOK
  <2> SUFFICES ASSUME Init PROVE AfterAllOK
    BY OutcomeInitially
  <2>1. 1..Len(events) = {}
    BY EmptySeq DEF Init
  <2> QED BY <2>1 DEF AfterAllOK
<1>2. OutcomeInv /\ AfterAllOK /\ [Next]_vars => (OutcomeInv /\ AfterAllOK)'
  <2> SUFFICES ASSUME OutcomeInv, AfterAllOK, [Next]_vars PROVE AfterAllOK'
    BY OutcomeInductive
  <2> QED BY AfterAllInductive DEF OutcomeInv
<1>3. OutcomeInv /\ AfterAllOK => AfterAllAgreesWithExit
  <2> SUFFICES ASSUME OutcomeInv, AfterAllOK, pc = "done", NEW n \in 1..Len(events),
                      events[n].type = "AfterAll"
               PROVE  /\ ~events[n].ok => proc # "ok"
                      /\ events[n].code # "none" => proc = events[n].code
    BY DEF AfterAllAgreesWithExit
  <2> USE DEF OutcomeInv, TypeInv
  <2>1. events[n] = AfterAllEvent
    BY DEF AfterAllOK
  <2>2. proc = IF result = "error" THEN "one" ELSE ExitOf(status)
    BY DEF ReportOK
  <2>3. CASE result = "ok"
    <3>1. events[n] = Event("AfterAll", "run", "run", Code(status), Success(status), FALSE)
      BY <2>1, <2>3 DEF AfterAllEvent
    <3>2. events[n].code = Code(status) /\ events[n].ok = Success(status)
      BY <3>1 DEF Event
    <3>3. status \notin Signal
      BY <2>3 DEF StatusOK
    <3> QED BY <2>2, <2>3, <3>2, <3>3 DEF Code, Success, ExitOf, TypeOK, Status, ChildEnd
  <2>4. CASE result = "error"
    BY <2>1, <2>4 DEF AfterAllEvent, Event
  <2>5. CASE result = "cancelled"
    <3>1. events[n] = Event("AfterAll", "run", "run", status, FALSE, FALSE) /\ status \in Signal
      BY <2>1, <2>5 DEF AfterAllEvent, StatusOK, HandlerOK
    <3>2. status \notin {"none", "killed", "ok"}
      BY <3>1, SignalAssumption DEF ChildEnd
    <3> QED BY <2>2, <2>5, <3>1, <3>2 DEF Event, ExitOf
  <2> QED BY <2>3, <2>4, <2>5 DEF TypeOK
<1> QED BY <1>1, <1>2, <1>3, PTL DEF Spec

-----------------------------------------------------------------------------
(* The brackets of the stream.                                             *)

\* Where the run, a target, a command or a tool has been announced and its end
\* not yet reported, to a stream that hears of the target.
Heard == Live /\ CurTarget \notin job.silent
AllOpen == Live /\ pc \in (Early \ {"install", "beforeAll"}) \cup {"check", "afterAll"}
TargetOpen == pc \in InTarget /\ (pc \in {"tools", "ensure"} => ci # 0) /\ Heard
CommandOpen == pc \in {"spawn"} \cup InChild /\ Heard
ToolOpen == pc = "ensure" /\ Heard

\* The last event of the pair is the opening one, of this target and what it is about.
OpenedBy(closer, target, about) ==
  \E n \in 1..Len(events) :
    /\ events[n].type = Opener[closer]
    /\ events[n].target = target /\ events[n].about = about
    /\ \A k \in (n + 1)..Len(events) : events[k].type \notin {Opener[closer], closer}

\* No error has left the loops; nothing is said of the events of a run that has one.
Whole == pc \in Ending => ReturnedOk

PairOK(closer, open, target, about) ==
  /\ open => OpenedBy(closer, target, about)
  /\ Whole => Count(Opener[closer]) = Count(closer) + IF open THEN 1 ELSE 0

\* What main has announced is the last open bracket of its kind, and the only one
\* unless an error has left the loops, and with them brackets open.
BracketsOK ==
  /\ PairOK("AfterAll", AllOpen, "run", "run")
  /\ PairOK("AfterTarget", TargetOpen, CurTarget, "run")
  /\ PairOK("AfterCommand", CommandOpen, CurTarget, CurCommand)
  /\ PairOK("AfterTool", ToolOpen, CurTarget, CurTools[ti])

\* The first two parts of EventsPairUp.
Closed == \A m \in 1..Len(events) :
            events[m].type \in DOMAIN Opener => \E n \in 1..(m - 1) : Opens(n, m)
Nested == \A m \in 1..Len(events) : events[m].type = "BeforeCommand" =>
            \E n \in 1..(m - 1) :
              /\ events[n].type = "BeforeTarget" /\ events[n].target = events[m].target
              /\ \A k \in n..m : events[k].type # "AfterTarget"

\* The pairs have no event in common.
LEMMA Pairs ==
  /\ DOMAIN Opener = {"AfterAll", "AfterTarget", "AfterCommand", "AfterTool"}
  /\ Opener["AfterAll"] = "BeforeAll" /\ Opener["AfterTarget"] = "BeforeTarget"
  /\ Opener["AfterCommand"] = "BeforeCommand" /\ Opener["AfterTool"] = "BeforeTool"
  /\ \A c \in DOMAIN Opener : Opener[c] \notin DOMAIN Opener
BY DEF Opener

-----------------------------------------------------------------------------
(* Pairs and a growing stream.                                             *)

LEMMA CountRests ==
  ASSUME Grown, NEW t, \A n \in Sent : events'[n].type # t
  PROVE  Count(t)' = Count(t)
<1> DEFINE Of == {n \in 1..Len(events) : events[n].type = t}
<1>1. ASSUME NEW n
      PROVE  n \in Of' <=> n \in Of
  <2>1. n \in 1..Len(events') <=> n \in 1..Len(events) \/ n \in Sent
    BY DEF Grown, Sent
  <2>2. n \in 1..Len(events) => events'[n] = events[n]
    BY DEF Grown
  <2> QED BY <2>1, <2>2
<1> HIDE DEF Of
<1>2. Of' = Of
  BY <1>1 DEF Of
<1> QED BY <1>2 DEF Count, Of

LEMMA CountGrows ==
  ASSUME Grown, NEW t, Sent # {},
         \A n \in Sent : events'[n].type = t <=> n = Len(events) + 1
  PROVE  Count(t)' = Count(t) + 1 /\ Count(t) \in Nat
<1> DEFINE Of == {n \in 1..Len(events) : events[n].type = t}
<1>1. Of' = Of \cup {Len(events) + 1} /\ Len(events) + 1 \notin Of
  BY DEF Grown, Sent
<1>2. IsFiniteSet(Of)
  <2>1. 1 \in Int /\ Len(events) \in Int
    BY DEF Grown
  <2>2. IsFiniteSet(1..Len(events)) /\ Of \in SUBSET (1..Len(events))
    BY <2>1, FS_Interval
  <2> QED BY <2>2, FS_Subset
<1>3. Cardinality(Of') = Cardinality(Of) + 1
  BY <1>1, <1>2, FS_AddElement
<1>4. Cardinality(Of) \in Nat
  BY <1>2, FS_CardinalityType
<1> QED BY <1>3, <1>4 DEF Count

LEMMA OpenedRests ==
  ASSUME Grown, NEW c, NEW t, NEW a, OpenedBy(c, t, a),
         \A n \in Sent : events'[n].type \notin {Opener[c], c}
  PROVE  OpenedBy(c, t, a)'
<1>1. PICK n \in 1..Len(events) :
        /\ events[n].type = Opener[c] /\ events[n].target = t /\ events[n].about = a
        /\ \A k \in (n + 1)..Len(events) : events[k].type \notin {Opener[c], c}
  BY DEF OpenedBy
<1>2. n \in 1..Len(events') /\ events'[n] = events[n]
  BY DEF Grown
<1>3. ASSUME NEW k \in (n + 1)..Len(events')
      PROVE  events'[k].type \notin {Opener[c], c}
  <2>1. k \in (n + 1)..Len(events) \/ k \in Sent
    BY <1>3 DEF Grown, Sent
  <2>2. CASE k \in (n + 1)..Len(events)
    <3>1. k \in 1..Len(events)
      BY <2>2 DEF Grown
    <3> QED BY <1>1, <2>2, <3>1 DEF Grown
  <2> QED BY <2>1, <2>2
<1> QED BY <1>1, <1>2, <1>3 DEF OpenedBy

LEMMA OpenedNow ==
  ASSUME Grown, NEW c, NEW t, NEW a, Sent # {},
         events'[Len(events) + 1].type = Opener[c],
         events'[Len(events) + 1].target = t, events'[Len(events) + 1].about = a,
         \A n \in Sent : n # Len(events) + 1 => events'[n].type \notin {Opener[c], c}
  PROVE  OpenedBy(c, t, a)'
<1> DEFINE m == Len(events) + 1
<1>1. m \in 1..Len(events')
  BY DEF Grown, Sent
<1>2. ASSUME NEW k \in (m + 1)..Len(events')
      PROVE  events'[k].type \notin {Opener[c], c}
  <2>1. k \in Sent /\ k # m
    BY <1>2 DEF Grown, Sent
  <2> QED BY <2>1
<1> HIDE DEF m
<1>3. events'[m].type = Opener[c] /\ events'[m].target = t /\ events'[m].about = a
  BY DEF m
<1> QED BY <1>1, <1>2, <1>3 DEF OpenedBy

\* A closing event finds the bracket it closes.
LEMMA ClosesOpened ==
  ASSUME Grown, NEW e, SentOnly(e), OpenedBy(e.type, e.target, e.about),
         NEW m, m = Len(events) + 1
  PROVE  \E n \in 1..(m - 1) : Opens(n, m)'
<1>1. PICK n \in 1..Len(events) :
        /\ events[n].type = Opener[e.type]
        /\ events[n].target = e.target /\ events[n].about = e.about
        /\ \A k \in (n + 1)..Len(events) : events[k].type \notin {Opener[e.type], e.type}
  BY DEF OpenedBy
<1>3. events'[m] = e /\ events'[n] = events[n] /\ n \in 1..(m - 1)
  BY DEF SentOnly, Grown
<1>4. ASSUME NEW k \in (n + 1)..(m - 1)
      PROVE  events'[k].type \notin {Opener[e.type], e.type}
  <2>1. k \in (n + 1)..Len(events) /\ k \in 1..Len(events)
    BY <1>4 DEF Grown
  <2> QED BY <1>1, <2>1 DEF Grown
<1>5. Opens(n, m)'
  BY <1>1, <1>3, <1>4 DEF Opens
<1> QED BY <1>3, <1>5

-----------------------------------------------------------------------------
(* The three ways of a pair through a step: nothing, its opening, its end. *)

ClosesIn(closer) ==
  \A m \in Sent : events'[m].type = closer => \E n \in 1..(m - 1) : Opens(n, m)'

LEMMA PairRests ==
  ASSUME Grown, NEW c \in DOMAIN Opener, \A n \in Sent : events'[n].type \notin {Opener[c], c}
  PROVE  /\ \A t, a : OpenedBy(c, t, a) => OpenedBy(c, t, a)'
         /\ Count(c)' = Count(c) /\ Count(Opener[c])' = Count(Opener[c])
         /\ ClosesIn(c)
BY OpenedRests, CountRests DEF ClosesIn

LEMMA PairOpens ==
  ASSUME Grown, NEW c \in DOMAIN Opener, NEW t, NEW a, Sent # {},
         events'[Len(events) + 1] = Plain(Opener[c], t, a),
         \A n \in Sent : n # Len(events) + 1 => events'[n].type \notin {Opener[c], c}
  PROVE  /\ OpenedBy(c, t, a)'
         /\ Count(c)' = Count(c) /\ Count(Opener[c])' = Count(Opener[c]) + 1
         /\ ClosesIn(c)
<1>1. /\ events'[Len(events) + 1].type = Opener[c] /\ events'[Len(events) + 1].target = t
      /\ events'[Len(events) + 1].about = a /\ Opener[c] # c
  BY Pairs DEF Plain, Event
<1>2. OpenedBy(c, t, a)'
  BY <1>1, OpenedNow
<1>3. \A n \in Sent : events'[n].type # c
  BY <1>1
<1>4. Len(events) + 1 \in Sent
  BY DEF Grown, Sent
<1>5. \A n \in Sent : events'[n].type = Opener[c] <=> n = Len(events) + 1
  BY <1>1
<1>6. Count(c)' = Count(c) /\ Count(Opener[c])' = Count(Opener[c]) + 1
  BY <1>3, <1>5, CountRests, CountGrows
<1> QED BY <1>2, <1>3, <1>6 DEF ClosesIn

LEMMA PairCloses ==
  ASSUME Grown, NEW e, SentOnly(e), e.type \in DOMAIN Opener, OpenedBy(e.type, e.target, e.about)
  PROVE  /\ Count(e.type)' = Count(e.type) + 1 /\ Count(e.type) \in Nat
         /\ Count(Opener[e.type])' = Count(Opener[e.type])
         /\ ClosesIn(e.type)
<1>1. Sent = {Len(events) + 1} /\ Opener[e.type] # e.type
  <2>1. Sent = (Len(events) + 1)..(Len(events) + 1)
    BY DEF Sent, SentOnly
  <2> QED BY <2>1, Pairs DEF Grown
<1>2. \A n \in Sent : events'[n] = e
  BY <1>1 DEF SentOnly
<1>3. Count(e.type)' = Count(e.type) + 1 /\ Count(e.type) \in Nat
  BY <1>1, <1>2, CountGrows
<1>4. Count(Opener[e.type])' = Count(Opener[e.type])
  BY <1>1, <1>2, CountRests
<1>5. ClosesIn(e.type)
  BY <1>1, ClosesOpened DEF ClosesIn
<1> QED BY <1>3, <1>4, <1>5

\* The same for a step that sends one event, or none.
LEMMA OpensOne ==
  ASSUME TypeOK, NEW c \in DOMAIN Opener, NEW t, NEW a,
         events' = events \o <<Plain(Opener[c], t, a)>>
  PROVE  /\ OpenedBy(c, t, a)' /\ ClosesIn(c)
         /\ Count(c)' = Count(c) /\ Count(Opener[c])' = Count(Opener[c]) + 1
<1> DEFINE e == Plain(Opener[c], t, a)
<1>1. Grown /\ SentOnly(e) /\ Sent = {Len(events) + 1}
  BY SentOne
<1> QED BY <1>1, PairOpens DEF SentOnly

LEMMA ClosesOne ==
  ASSUME TypeOK, NEW c \in DOMAIN Opener, NEW e, e.type = c, events' = events \o <<e>>,
         OpenedBy(c, e.target, e.about)
  PROVE  /\ ClosesIn(c)
         /\ Count(c)' = Count(c) + 1 /\ Count(Opener[c])' = Count(Opener[c])
<1>1. Grown /\ SentOnly(e)
  BY SentOne
<1> QED BY <1>1, PairCloses

LEMMA SendsNone ==
  ASSUME TypeOK, NEW c \in DOMAIN Opener, events' = events
  PROVE  /\ \A t, a : OpenedBy(c, t, a) => OpenedBy(c, t, a)'
         /\ Count(c)' = Count(c) /\ Count(Opener[c])' = Count(Opener[c])
         /\ ClosesIn(c)
<1> DEFINE e == "none"
<1>1. Grown /\ Sent = {}
  BY SentOne
<1> QED BY <1>1, PairRests

\* An error is never taken back, not by a cancellation either.
LEMMA WholeKept ==
  ASSUME OutcomeInv, [Next]_vars
  PROVE  /\ job' = job /\ (Whole' => Whole)
         /\ (MainStep \/ ToolReturns) /\ Errs => ~Whole'
<1> USE DEF OutcomeInv, TypeInv
<1>1. CASE MainStep \/ ToolReturns
  <2>1. job' = job
    BY <1>1, MainFrame
  <2>2. CASE pc \in Ending
    <3>1. Conclude /\ pc' \in Ending /\ UNCHANGED <<si, stop>>
      BY <1>1, <2>2, EndingMoves
    <3>2. ~Errs
      BY <2>2 DEF Errs, ToolFails, NoShellVariant, CommandToolsDone, SpawnFails, WaitFails, At, Ending
    <3> QED BY <2>1, <2>2, <3>1, <3>2 DEF Whole, ReturnedOk, Plan
  <2>3. CASE pc \in Early
    <3>1. Whole
      BY <1>1, <2>3, EndingMoves DEF Whole
    <3>2. ASSUME Errs PROVE ~Whole'
      <4>1. /\ pc \in InTarget \ {"afterTarget"} /\ pc' = "check"
            /\ UNCHANGED <<si, stop>>
        BY <3>2 DEF Errs, ToolFails, NoShellVariant, CommandToolsDone, SpawnFails, WaitFails, At,
          Goto, cursor, InTarget, InCommand, InChild
      <4>2. si \in Nat /\ si <= Len(Plan) /\ Len(Plan)' = Len(Plan)
        BY <2>1, <4>1 DEF TypeOK, CursorOK, Plan
      <4>3. ~stop
        BY <1>1, <2>3, <4>1, EndingMoves DEF ReportOK
      <4>4. Len(Plan) \in Nat
        BY JobTyped DEF TypeOK
      <4> QED BY <4>1, <4>2, <4>3, <4>4 DEF Whole, ReturnedOk, Ending
    <3> QED BY <2>1, <3>1, <3>2
  <2> QED BY <1>1, <2>2, <2>3, EndingMoves
<1>2. CASE ~(MainStep \/ ToolReturns)
  <2>1. UNCHANGED <<job, pc, si, stop>>
    BY <1>2, HandlerFrame DEF Next, ChildExits, vars, mainVars, cursor, books
  <2> QED BY <1>2, <2>1 DEF Whole, ReturnedOk, Plan
<1> QED BY <1>1, <1>2

LEMMA CountTyped ==
  ASSUME TypeOK, NEW t
  PROVE  Count(t) \in Nat
<1> DEFINE Of == {n \in 1..Len(events) : events[n].type = t}
<1>1. 1 \in Int /\ Len(events) \in Int
  BY LenProperties DEF TypeOK
<1>2. IsFiniteSet(1..Len(events)) /\ Of \in SUBSET (1..Len(events))
  BY <1>1, FS_Interval
<1>3. IsFiniteSet(Of)
  BY <1>2, FS_Subset
<1> QED BY <1>3, FS_CardinalityType DEF Count

\* The run's bracket.
LEMMA AllMoves ==
  ASSUME OutcomeInv, [Next]_vars, ~BeforeAll, ~AfterAll
  PROVE  AllOpen' <=> AllOpen
<1> USE DEF OutcomeInv, TypeInv
<1>1. Live' = Live
  BY WholeKept DEF Live
<1> DEFINE In == (Early \ {"install", "beforeAll"}) \cup {"check", "afterAll"}
<1>2. pc' \in In <=> pc \in In
  <2>1. CASE MainStep \/ ToolReturns
    <3>1. CASE pc \in Early
      <4>1. pc' \in Early \/ pc' = "check"
        BY <2>1, <3>1, EarlyLeft
      <4>2. pc \in {"install", "beforeAll"} <=> pc' \in {"install", "beforeAll"}
        BY <2>1 DEF MainStep, ToolReturns, Prepare, WalkPlan, EnsureTools, PickCommand,
          RunCommand, Conclude, Install, BeforeAll, BeginRun, SkipStep, EnterTarget, StepsDone,
          BeforeTarget, AfterTarget, ToolKnown, BeforeTool, ToolReady, ToolFails, SkipCommand,
          EnterCommand, CommandsDone, NoShellVariant, DryCommand, CommandToolsDone,
          BeforeCommand, SpawnFails, Spawn, PollExited, WaitFails, PollCancelled, PollSleeps,
          Wake, Kill, AfterCommand, StopChain, ContinueChain, CheckCancelled, CheckFinished,
          AfterAll, EndRun, Exit, At, Goto
      <4> QED BY <3>1, <4>1, <4>2 DEF Early, InTarget, InCommand, InChild
    <3>2. CASE pc \notin Early
      <4>1. Conclude /\ pc \in Ending
        BY <2>1, <3>2, EndingMoves
      <4>2. \/ pc = "check" /\ pc' = "afterAll"
            \/ pc \in {"end", "exit"} /\ pc' \in {"exit", "done"}
        BY <4>1 DEF Conclude, CheckCancelled, CheckFinished, EndRun, Exit, At, Goto
      <4> QED BY <3>2, <4>2 DEF Early, InTarget, InCommand, InChild
    <3> QED BY <3>1, <3>2
  <2>2. CASE ~(MainStep \/ ToolReturns)
    BY <2>2, HandlerFrame DEF Next, ChildExits, vars, mainVars
  <2> QED BY <2>1, <2>2
<1> QED BY <1>1, <1>2 DEF AllOpen

LEMMA AllPair ==
  ASSUME OutcomeInv, PairOK("AfterAll", AllOpen, "run", "run"), [Next]_vars
  PROVE  PairOK("AfterAll", AllOpen, "run", "run")' /\ ClosesIn("AfterAll")
<1> USE DEF OutcomeInv, TypeInv
<1> DEFINE c == "AfterAll"
<1>1. /\ c \in DOMAIN Opener /\ Opener[c] = "BeforeAll"
      /\ Live' = Live /\ (Whole' => Whole)
      /\ Grown /\ \A n \in Sent : Sender(events'[n].type)
      /\ Count(c) \in Nat
  BY Pairs, WholeKept, Senders, CountTyped DEF Live
<1>2. CASE (AllOpen' <=> AllOpen) /\ \A n \in Sent : events'[n].type \notin {Opener[c], c}
  BY <1>1, <1>2, PairRests DEF PairOK
<1>3. CASE BeforeAll
  <2>1. pc = "beforeAll" /\ pc' = "begin" /\ Emit(<<Plain("BeforeAll", "run", "run")>>)
    BY <1>3 DEF BeforeAll, At, Goto
  <2>2. ~AllOpen /\ (AllOpen' <=> Live)
    BY <1>1, <2>1 DEF AllOpen, Early
  <2>3. Live => /\ OpenedBy(c, "run", "run")' /\ ClosesIn(c)
                /\ Count(c)' = Count(c) /\ Count(Opener[c])' = Count(Opener[c]) + 1
    BY <1>1, <2>1, OpensOne DEF Emit
  <2>4. ~Live => events' = events
    BY <2>1 DEF Emit
  <2> QED BY <1>1, <2>2, <2>3, <2>4, SendsNone DEF PairOK
<1>4. CASE AfterAll
  <2>1. /\ pc = "afterAll" /\ pc' = "end" /\ Emit(<<AfterAllEvent>>)
        /\ AfterAllEvent.type = c /\ AfterAllEvent.target = "run" /\ AfterAllEvent.about = "run"
    BY <1>4 DEF AfterAll, At, Goto, AfterAllEvent, Event, TypeOK
  <2>2. (AllOpen <=> Live) /\ ~AllOpen'
    BY <1>1, <2>1 DEF AllOpen, Early, InTarget, InCommand, InChild
  <2>3. Live => /\ ClosesIn(c)
                /\ Count(c)' = Count(c) + 1 /\ Count(Opener[c])' = Count(Opener[c])
    BY <1>1, <2>1, <2>2, ClosesOne DEF Emit, PairOK
  <2>4. ~Live => events' = events
    BY <2>1 DEF Emit
  <2> QED BY <1>1, <2>2, <2>3, <2>4, SendsNone DEF PairOK
<1>5. CASE ~BeforeAll /\ ~AfterAll
  <2>1. \A n \in Sent : events'[n].type \notin {Opener[c], c}
    BY <1>1, <1>5 DEF Sender
  <2> QED BY <1>2, <1>5, <2>1, AllMoves
<1> QED BY <1>3, <1>4, <1>5

\* A target's bracket.
LEMMA TargetMoves ==
  ASSUME OutcomeInv, [Next]_vars, ~BeforeTarget, ~AfterTarget
  PROVE  /\ TargetOpen' => TargetOpen /\ CurTarget' = CurTarget
         /\ Whole' => (TargetOpen' <=> TargetOpen)
<1> USE DEF OutcomeInv, TypeInv, At, Goto
<1>1. job' = job /\ (Whole' => Whole)
  BY WholeKept
<1>2. si' = si => (Heard' <=> Heard) /\ CurTarget' = CurTarget
  BY <1>1 DEF Heard, Live, CurTarget, Plan
<1> DEFINE In == pc \in InTarget /\ (pc \in {"tools", "ensure"} => ci # 0)
<1>3. TargetOpen <=> In /\ Heard
  BY DEF TargetOpen
<1>4. CASE si' = si /\ (In' <=> In)
  BY <1>2, <1>3, <1>4 DEF TargetOpen
<1>5. CASE ~In /\ ~In'
  BY <1>3, <1>5 DEF TargetOpen
<1>6. CASE MainStep \/ ToolReturns
  <2>1. CASE pc' \in Ending
    <3>1. ~In'
      BY <2>1 DEF Ending, InTarget, InCommand, InChild
    <3>2. ASSUME Whole' PROVE ~In
      <4>1. CASE pc \in Ending
        BY <4>1 DEF Ending, InTarget, InCommand, InChild
      <4>2. CASE pc \in Early
        <5>1. StepsDone
          BY <1>6, <2>1, <3>2, <4>2, EndingMoves, WholeKept
        <5> QED BY <5>1 DEF StepsDone, InTarget, InCommand, InChild
      <4> QED BY <1>6, <4>1, <4>2, EndingMoves
    <3> QED BY <1>3, <3>1, <3>2 DEF TargetOpen
  <2>2. CASE pc \in Early \ InTarget /\ pc' \in Early \ InTarget /\ si' = si
    BY <1>5, <2>2
  <2>3. CASE SkipStep \/ EnterTarget
    <3>1. pc = "step" /\ (pc' = "step" \/ (pc' = "tools" /\ ci' = 0))
      BY <2>3 DEF SkipStep, EnterTarget
    <3> QED BY <1>5, <3>1 DEF InTarget, InCommand, InChild
  <2>4. CASE SkipCommand \/ EnterCommand \/ CommandsDone
    <3>1. /\ pc = "command" /\ si' = si
          /\ pc' \in {"command", "afterTarget"} \/ (pc' = "tools" /\ ci' = ci)
      BY <2>4 DEF SkipCommand, EnterCommand, CommandsDone, cursor
    <3> QED BY <1>4, <3>1 DEF CursorOK, InTarget
  <2>5. CASE DryCommand \/ BeforeCommand
    <3>1. pc = "tools" /\ ci > 0 /\ si' = si /\ pc' \in {"command", "spawn"}
      BY <2>5 DEF DryCommand, BeforeCommand, CommandToolsDone, cursor
    <3> QED BY <1>4, <3>1 DEF TypeOK, InTarget, InCommand
  <2>6. CASE Spawn \/ ContinueChain \/ StopChain
    <3>1. /\ pc \in {"spawn", "decide"} /\ si' = si
          /\ pc' \in {"poll", "command", "afterTarget"}
      BY <2>6 DEF Spawn, ContinueChain, StopChain, cursor
    <3> QED BY <1>4, <3>1 DEF InTarget, InCommand, InChild
  <2>7. CASE pc \in {"tools", "ensure"} /\ pc' \in {"tools", "ensure"} /\ si' = si /\ ci' = ci
    BY <1>4, <2>7 DEF InTarget
  <2>8. CASE pc \in Underway /\ pc' \in Underway /\ si' = si /\ ci' = ci
    BY <1>4, <2>8 DEF InTarget, InCommand, InChild, Underway
  <2> QED BY <1>6, <2>1, <2>2, <2>3, <2>4, <2>5, <2>6, <2>7, <2>8, WalkMoves
<1>7. CASE ~(MainStep \/ ToolReturns)
  <2>1. UNCHANGED <<pc, si, ci>>
    BY <1>7, HandlerFrame DEF Next, ChildExits, vars, mainVars, cursor
  <2> QED BY <1>4, <2>1
<1> QED BY <1>6, <1>7

LEMMA TargetPair ==
  ASSUME OutcomeInv, PairOK("AfterTarget", TargetOpen, CurTarget, "run"), [Next]_vars
  PROVE  PairOK("AfterTarget", TargetOpen, CurTarget, "run")' /\ ClosesIn("AfterTarget")
<1> USE DEF OutcomeInv, TypeInv
<1> DEFINE c == "AfterTarget"
<1>1. /\ c \in DOMAIN Opener /\ Opener[c] = "BeforeTarget"
      /\ job' = job /\ (Whole' => Whole)
      /\ Grown /\ \A n \in Sent : Sender(events'[n].type)
      /\ Count(c) \in Nat
  BY Pairs, WholeKept, Senders, CountTyped
<1>2. PICK t : t = CurTarget
  OBVIOUS
<1>3. CASE BeforeTarget
  <2> DEFINE d == Plain("BeforeTarget", t, "run")
             e == Plain("NoTimeTracking", t, "run")
  <2>1. /\ pc = "tools" /\ ci = 0 /\ pc' = "command" /\ CurTarget' = t
        /\ EmitFor(t, <<d>> \o IF t \in job.untracked THEN <<e>> ELSE <<>>)
    BY <1>1, <1>2, <1>3 DEF BeforeTarget, At, Goto, CurTarget, Plan
  <2>2. ~TargetOpen /\ (TargetOpen' <=> Heard)
    BY <1>1, <1>2, <2>1 DEF TargetOpen, Heard, Live, InTarget
  <2>3. ASSUME Heard
        PROVE  /\ OpenedBy(c, t, "run")' /\ ClosesIn(c)
               /\ Count(c)' = Count(c) /\ Count(Opener[c])' = Count(Opener[c]) + 1
    <3>1. events' = events \o (<<d>> \o IF t \in job.untracked THEN <<e>> ELSE <<>>)
      BY <1>2, <2>1, <2>3 DEF EmitFor, Heard
    <3>2. CASE t \in job.untracked
      <4> HIDE DEF d, e
      <4>1. events' = events \o (<<d>> \o <<e>>)
        BY <3>1, <3>2
      <4>2. /\ Grown /\ Sent = {Len(events) + 1, Len(events) + 2}
            /\ events'[Len(events) + 1] = d /\ events'[Len(events) + 2] = e
        BY <4>1, SentTwo
      <4>3. e.type \notin {Opener[c], c}
        BY <1>1 DEF e, Plain, Event
      <4>4. events'[Len(events) + 1] = Plain(Opener[c], t, "run")
        BY <1>1, <4>2 DEF d
      <4> QED BY <1>1, <4>2, <4>3, <4>4, PairOpens
    <3>3. CASE t \notin job.untracked
      <4>1. <<d>> \o <<>> = <<d>>
        BY ConcatEmptySeq
      <4>2. events' = events \o <<d>>
        BY <3>1, <3>3, <4>1
      <4> QED BY <1>1, <4>2, OpensOne
    <3> QED BY <3>2, <3>3
  <2>4. ~Heard => events' = events
    BY <1>2, <2>1 DEF EmitFor, Heard
  <2> QED BY <1>1, <1>2, <2>1, <2>2, <2>3, <2>4, SendsNone DEF PairOK, OpenedBy
<1>4. CASE AfterTarget
  <2>1. PICK e : /\ e.type = c /\ e.target = t /\ e.about = "run"
                 /\ EmitFor(t, <<e>>)
    BY <1>2, <1>4 DEF AfterTarget, Event
  <2>2. pc = "afterTarget" /\ pc' \in {"check", "step"}
    BY <1>4 DEF AfterTarget, At, Goto
  <2>3. (TargetOpen <=> Heard) /\ ~TargetOpen'
    BY <2>2 DEF TargetOpen, InTarget, InCommand, InChild
  <2>4. Heard => OpenedBy(c, t, "run") /\ events' = events \o <<e>>
    BY <1>2, <2>1, <2>3 DEF EmitFor, Heard, PairOK
  <2>5. Heard => /\ ClosesIn(c)
                 /\ Count(c)' = Count(c) + 1 /\ Count(Opener[c])' = Count(Opener[c])
    BY <1>1, <2>1, <2>4, ClosesOne
  <2>6. ~Heard => events' = events
    BY <1>2, <2>1 DEF EmitFor, Heard
  <2> QED BY <1>1, <2>3, <2>5, <2>6, SendsNone DEF PairOK
<1>5. CASE ~BeforeTarget /\ ~AfterTarget
  <2>1. \A n \in Sent : events'[n].type \notin {Opener[c], c}
    BY <1>1, <1>5 DEF Sender
  <2>2. /\ OpenedBy(c, t, "run") => OpenedBy(c, t, "run")'
        /\ Count(c)' = Count(c) /\ Count(Opener[c])' = Count(Opener[c]) /\ ClosesIn(c)
    BY <1>1, <2>1, PairRests
  <2>3. TargetOpen' => OpenedBy(c, t, "run")' /\ CurTarget' = t
    BY <1>2, <1>5, <2>2, TargetMoves DEF PairOK
  <2>4. Whole' => (TargetOpen' <=> TargetOpen)
    BY <1>5, TargetMoves
  <2> QED BY <1>1, <2>2, <2>3, <2>4 DEF PairOK, OpenedBy
<1> QED BY <1>3, <1>4, <1>5

\* A command's bracket.
LEMMA CommandMoves ==
  ASSUME OutcomeInv, [Next]_vars, ~BeforeCommand, ~(SpawnFails \/ WaitFails \/ AfterCommand)
  PROVE  \/ CommandOpen' /\ CommandOpen /\ CurTarget' = CurTarget /\ CurCommand' = CurCommand
         \/ ~CommandOpen' /\ ~CommandOpen
<1> USE DEF OutcomeInv, TypeInv, At, Goto
<1>1. job' = job
  BY WholeKept
<1>2. UNCHANGED <<si, ci>> =>
        (Heard' <=> Heard) /\ CurTarget' = CurTarget /\ CurCommand' = CurCommand
  BY <1>1 DEF Heard, Live, CurTarget, CurCommand, CommandsAt, Plan
<1> DEFINE In == pc \in {"spawn"} \cup InChild
<1>3. CASE UNCHANGED <<si, ci>> /\ (In' <=> In)
  BY <1>2, <1>3 DEF CommandOpen
<1>4. CASE ~In /\ ~In'
  BY <1>4 DEF CommandOpen
<1>5. CASE Spawn \/ PollExited \/ PollCancelled \/ PollSleeps \/ Wake \/ Kill
  <2>1. UNCHANGED <<si, ci>>
    BY <1>5 DEF Spawn, PollExited, PollCancelled, PollSleeps, Wake, Kill, cursor
  <2>2. In /\ In'
    BY <1>5 DEF Spawn, PollExited, PollCancelled, PollSleeps, Wake, Kill, InChild
  <2> QED BY <1>3, <2>1, <2>2
<1>6. CASE Prepare \/ WalkPlan \/ EnsureTools \/ ToolReturns \/ PickCommand \/ Conclude
             \/ StopChain \/ ContinueChain
  <2>1. ~In
    BY <1>6 DEF Prepare, WalkPlan, EnsureTools, ToolReturns, PickCommand, Conclude,
      Install, BeforeAll, BeginRun, SkipStep, EnterTarget, StepsDone, BeforeTarget, AfterTarget,
      ToolKnown, BeforeTool, ToolReady, ToolFails, SkipCommand, EnterCommand, CommandsDone,
      NoShellVariant, DryCommand, CommandToolsDone, StopChain, ContinueChain, CheckCancelled,
      CheckFinished, AfterAll, EndRun, Exit, InChild
  <2>2. ~In'
    BY <1>6, <2>1 DEF Prepare, WalkPlan, EnsureTools, ToolReturns, PickCommand, Conclude,
      Install, BeforeAll, BeginRun, SkipStep, EnterTarget, StepsDone, BeforeTarget, AfterTarget,
      ToolKnown, BeforeTool, ToolReady, ToolFails, SkipCommand, EnterCommand, CommandsDone,
      NoShellVariant, DryCommand, StopChain, ContinueChain, CheckCancelled,
      CheckFinished, AfterAll, EndRun, Exit, InChild
  <2> QED BY <1>4, <2>1, <2>2
<1>7. CASE ~(MainStep \/ ToolReturns)
  <2>1. UNCHANGED <<pc, si, ci>>
    BY <1>7, HandlerFrame DEF Next, ChildExits, vars, mainVars, cursor
  <2> QED BY <1>3, <2>1
<1> QED BY <1>5, <1>6, <1>7 DEF MainStep, RunCommand

LEMMA CommandPair ==
  ASSUME OutcomeInv, PairOK("AfterCommand", CommandOpen, CurTarget, CurCommand), [Next]_vars
  PROVE  /\ PairOK("AfterCommand", CommandOpen, CurTarget, CurCommand)'
         /\ ClosesIn("AfterCommand")
<1> USE DEF OutcomeInv, TypeInv
<1> DEFINE c == "AfterCommand"
<1>1. /\ c \in DOMAIN Opener /\ Opener[c] = "BeforeCommand"
      /\ job' = job /\ (Whole' => Whole)
      /\ Grown /\ \A n \in Sent : Sender(events'[n].type)
      /\ Count(c) \in Nat
  BY Pairs, WholeKept, Senders, CountTyped
<1>2. PICK t, a : t = CurTarget /\ a = CurCommand
  OBVIOUS
<1>3. CASE BeforeCommand
  <2>1. /\ pc = "tools" /\ pc' = "spawn" /\ UNCHANGED <<si, ci>>
        /\ EmitFor(t, <<Plain("BeforeCommand", t, a)>>)
    BY <1>2, <1>3 DEF BeforeCommand, CommandToolsDone, At, Goto, cursor
  <2>2. CurTarget' = t /\ CurCommand' = a
    BY <1>1, <1>2, <2>1 DEF CurTarget, CurCommand, CommandsAt, Plan
  <2>3. ~CommandOpen /\ (CommandOpen' <=> Heard)
    BY <1>1, <1>2, <2>1, <2>2 DEF CommandOpen, Heard, Live, InChild
  <2>4. Heard => events' = events \o <<Plain("BeforeCommand", t, a)>>
    BY <1>2, <2>1 DEF EmitFor, Heard
  <2>5. Heard => /\ OpenedBy(c, t, a)' /\ ClosesIn(c)
                 /\ Count(c)' = Count(c) /\ Count(Opener[c])' = Count(Opener[c]) + 1
    BY <1>1, <2>4, OpensOne
  <2>6. ~Heard => events' = events
    BY <1>2, <2>1 DEF EmitFor, Heard
  <2> QED BY <1>1, <2>2, <2>3, <2>5, <2>6, SendsNone DEF PairOK, OpenedBy
<1>4. CASE SpawnFails \/ WaitFails \/ AfterCommand
  <2>1. PICK code, ok, stops : AfterCommandEvent(code, ok, stops)
    BY <1>4 DEF SpawnFails, WaitFails, AfterCommand
  <2>2. PICK e : e.type = c /\ e.target = t /\ e.about = a /\ EmitFor(t, <<e>>)
    BY <1>2, <2>1 DEF AfterCommandEvent, Event
  <2>3. pc \in {"spawn", "poll", "kill", "afterCommand"} /\ pc' \in {"check", "decide"}
    BY <1>4 DEF SpawnFails, WaitFails, AfterCommand, At, Goto
  <2>4. (CommandOpen <=> Heard) /\ ~CommandOpen'
    BY <2>3 DEF CommandOpen, InChild
  <2>5. Heard => OpenedBy(c, t, a) /\ events' = events \o <<e>>
    BY <1>2, <2>2, <2>4 DEF EmitFor, Heard, PairOK
  <2>6. Heard => /\ ClosesIn(c)
                 /\ Count(c)' = Count(c) + 1 /\ Count(Opener[c])' = Count(Opener[c])
    BY <1>1, <2>2, <2>5, ClosesOne
  <2>7. ~Heard => events' = events
    BY <1>2, <2>2 DEF EmitFor, Heard
  <2> QED BY <1>1, <2>4, <2>6, <2>7, SendsNone DEF PairOK
<1>5. CASE ~BeforeCommand /\ ~(SpawnFails \/ WaitFails \/ AfterCommand)
  <2>1. \A n \in Sent : events'[n].type \notin {Opener[c], c}
    BY <1>1, <1>5 DEF Sender
  <2>2. /\ OpenedBy(c, t, a) => OpenedBy(c, t, a)'
        /\ Count(c)' = Count(c) /\ Count(Opener[c])' = Count(Opener[c]) /\ ClosesIn(c)
    BY <1>1, <2>1, PairRests
  <2>3. \/ CommandOpen' /\ CommandOpen /\ CurTarget' = CurTarget /\ CurCommand' = CurCommand
        \/ ~CommandOpen' /\ ~CommandOpen
    BY <1>5, CommandMoves
  <2>4. CommandOpen' => OpenedBy(c, t, a)' /\ CurTarget' = t /\ CurCommand' = a
    BY <1>2, <2>2, <2>3 DEF PairOK
  <2> QED BY <1>1, <2>2, <2>3, <2>4 DEF PairOK, OpenedBy
<1> QED BY <1>3, <1>4, <1>5

\* A tool's bracket.
LEMMA ToolPair ==
  ASSUME OutcomeInv, PairOK("AfterTool", ToolOpen, CurTarget, CurTools[ti]), [Next]_vars
  PROVE  PairOK("AfterTool", ToolOpen, CurTarget, CurTools[ti])' /\ ClosesIn("AfterTool")
<1> USE DEF OutcomeInv, TypeInv, At, Goto
<1> DEFINE c == "AfterTool"
<1>1. /\ c \in DOMAIN Opener /\ Opener[c] = "BeforeTool"
      /\ job' = job /\ (Whole' => Whole)
      /\ Grown /\ \A n \in Sent : Sender(events'[n].type)
      /\ Count(c) \in Nat
  BY Pairs, WholeKept, Senders, CountTyped
<1>2. PICK t, a : t = CurTarget /\ a = CurTools[ti]
  OBVIOUS
<1>3. UNCHANGED <<si, ti, ci>> => CurTarget' = t /\ CurTools[ti]' = a /\ (Heard' <=> Heard)
  BY <1>1, <1>2 DEF CurTarget, CurTools, CurCommand, CommandsAt, Plan, Heard, Live
<1>4. CASE BeforeTool
  <2>1. /\ pc = "tools" /\ pc' = "ensure" /\ UNCHANGED <<si, ti, ci>>
        /\ EmitFor(t, <<Plain("BeforeTool", t, a)>>)
    BY <1>2, <1>4 DEF BeforeTool, cursor
  <2>2. ~ToolOpen /\ (ToolOpen' <=> Heard)
    BY <1>3, <2>1 DEF ToolOpen
  <2>3. Heard => events' = events \o <<Plain("BeforeTool", t, a)>>
    BY <1>2, <2>1 DEF EmitFor, Heard
  <2>4. Heard => /\ OpenedBy(c, t, a)' /\ ClosesIn(c)
                 /\ Count(c)' = Count(c) /\ Count(Opener[c])' = Count(Opener[c]) + 1
    BY <1>1, <2>3, OpensOne
  <2>5. ~Heard => events' = events
    BY <1>2, <2>1 DEF EmitFor, Heard
  <2> QED BY <1>1, <1>3, <2>1, <2>2, <2>4, <2>5, SendsNone DEF PairOK, OpenedBy
<1>5. CASE ToolReady
  <2>1. pc = "ensure" /\ pc' = "tools" /\ EmitFor(t, <<Plain("AfterTool", t, a)>>)
    BY <1>2, <1>5 DEF ToolReady
  <2>2. (ToolOpen <=> Heard) /\ ~ToolOpen'
    BY <2>1 DEF ToolOpen
  <2>3. PICK e : e.type = c /\ e.target = t /\ e.about = a /\ EmitFor(t, <<e>>)
    BY <2>1 DEF Plain, Event
  <2>4. Heard => OpenedBy(c, t, a) /\ events' = events \o <<e>>
    BY <1>2, <2>2, <2>3 DEF EmitFor, Heard, PairOK
  <2>5. Heard => /\ ClosesIn(c)
                 /\ Count(c)' = Count(c) + 1 /\ Count(Opener[c])' = Count(Opener[c])
    BY <1>1, <2>3, <2>4, ClosesOne
  <2>6. ~Heard => events' = events
    BY <1>2, <2>3 DEF EmitFor, Heard
  <2> QED BY <1>1, <2>2, <2>5, <2>6, SendsNone DEF PairOK
<1>6. CASE ~BeforeTool /\ ~ToolReady
  <2>1. \A n \in Sent : events'[n].type \notin {Opener[c], c}
    BY <1>1, <1>6 DEF Sender
  <2>2. /\ OpenedBy(c, t, a) => OpenedBy(c, t, a)'
        /\ Count(c)' = Count(c) /\ Count(Opener[c])' = Count(Opener[c]) /\ ClosesIn(c)
    BY <1>1, <2>1, PairRests
  <2>3. \/ UNCHANGED <<pc, si, ti, ci>>
        \/ pc' # "ensure" /\ (pc = "ensure" => ~Whole')
    <3>1. CASE MainStep \/ ToolReturns
      <4>1. pc = "ensure" => ToolFails
        BY <1>6, <3>1 DEF MainStep, ToolReturns, Prepare, WalkPlan, EnsureTools, PickCommand,
          RunCommand, Conclude, Install, BeforeAll, BeginRun, SkipStep, EnterTarget, StepsDone,
          BeforeTarget, AfterTarget, ToolKnown, SkipCommand,
          EnterCommand, CommandsDone, NoShellVariant, DryCommand, CommandToolsDone,
          BeforeCommand, SpawnFails, Spawn, PollExited, WaitFails, PollCancelled, PollSleeps,
          Wake, Kill, AfterCommand, StopChain, ContinueChain, CheckCancelled, CheckFinished,
          AfterAll, EndRun, Exit
      <4>2. pc # "ensure" => pc' # "ensure"
        BY <1>6, <3>1 DEF MainStep, ToolReturns, Prepare, WalkPlan, EnsureTools, PickCommand,
          RunCommand, Conclude, Install, BeforeAll, BeginRun, SkipStep, EnterTarget, StepsDone,
          BeforeTarget, AfterTarget, ToolKnown, ToolFails, SkipCommand,
          EnterCommand, CommandsDone, NoShellVariant, DryCommand,
          BeforeCommand, SpawnFails, Spawn, PollExited, WaitFails, PollCancelled, PollSleeps,
          Wake, Kill, AfterCommand, StopChain, ContinueChain, CheckCancelled, CheckFinished,
          AfterAll, EndRun, Exit
      <4> QED BY <3>1, <4>1, <4>2, WholeKept DEF ToolFails, Errs
    <3>2. CASE ~(MainStep \/ ToolReturns)
      BY <3>2, HandlerFrame DEF Next, ChildExits, vars, mainVars, cursor
    <3> QED BY <3>1, <3>2
  <2>4. /\ ToolOpen' => ToolOpen /\ CurTarget' = t /\ CurTools[ti]' = a
        /\ Whole' => (ToolOpen' <=> ToolOpen)
    BY <1>3, <2>3 DEF ToolOpen
  <2>5. ToolOpen' => OpenedBy(c, t, a)'
    BY <1>2, <2>2, <2>4 DEF PairOK
  <2> QED BY <1>1, <2>2, <2>4, <2>5 DEF PairOK, OpenedBy
<1> QED BY <1>4, <1>5, <1>6

-----------------------------------------------------------------------------
(* EventsPairUp.                                                           *)

\* What a position says of the stream before it, it says for good.
LEMMA ClosedInductive ==
  ASSUME Grown, Closed, \A c \in DOMAIN Opener : ClosesIn(c)
  PROVE  Closed'
<1> SUFFICES ASSUME NEW m \in 1..Len(events'), events'[m].type \in DOMAIN Opener
             PROVE  \E n \in 1..(m - 1) : Opens(n, m)'
  BY DEF Closed
<1>1. CASE m \in Sent
  BY <1>1 DEF ClosesIn
<1>2. CASE m \in 1..Len(events)
  <2>1. PICK n \in 1..(m - 1) : Opens(n, m)
    BY <1>2 DEF Grown, Closed
  <2>2. \A k \in n..m : events'[k] = events[k]
    BY <1>2, <2>1 DEF Grown
  <2>3. events'[n] = events[n] /\ events'[m] = events[m]
    BY <2>2
  <2>4. Opens(n, m)'
    BY <2>1, <2>2, <2>3 DEF Opens
  <2> QED BY <2>4
<1> QED BY <1>1, <1>2 DEF Grown, Sent

\* A command starts inside its target's bracket.
LEMMA NestedInductive ==
  ASSUME OutcomeInv, BracketsOK, Nested, [Next]_vars
  PROVE  Nested'
<1> USE DEF OutcomeInv, TypeInv
<1>1. Grown /\ \A n \in Sent : Sender(events'[n].type)
  BY Senders
<1> SUFFICES ASSUME NEW m \in 1..Len(events'), events'[m].type = "BeforeCommand"
             PROVE  \E n \in 1..(m - 1) :
                      /\ events'[n].type = "BeforeTarget" /\ events'[n].target = events'[m].target
                      /\ \A k \in n..m : events'[k].type # "AfterTarget"
  BY DEF Nested
<1>2. CASE m \in Sent
  <2>1. BeforeCommand
    BY <1>1, <1>2 DEF Sender
  <2> DEFINE e == Plain("BeforeCommand", CurTarget, CurCommand)
  <2>2. EmitFor(CurTarget, <<e>>) /\ pc = "tools" /\ ci > 0
    BY <2>1 DEF BeforeCommand, CommandToolsDone, At
  <2>3. Sent # {}
    BY <1>2
  <2>4. events' = events \/ (Heard /\ events' = events \o <<e>>)
    BY <2>2 DEF EmitFor, Heard
  <2>5. Heard /\ SentOnly(e) /\ Sent = {Len(events) + 1}
    BY <2>3, <2>4, SentOne
  <2>6. TargetOpen
    BY <2>2, <2>5 DEF TargetOpen, InTarget, TypeOK
  <2>7. PICK n \in 1..Len(events) :
          /\ events[n].type = "BeforeTarget" /\ events[n].target = CurTarget
          /\ \A k \in (n + 1)..Len(events) : events[k].type # "AfterTarget"
    BY <2>6, Pairs DEF BracketsOK, PairOK, OpenedBy
  <2>8. m = Len(events) + 1 /\ events'[m] = e /\ e.target = CurTarget
    BY <1>2, <2>5 DEF SentOnly, Plain, Event
  <2>9. n \in 1..(m - 1) /\ events'[n] = events[n]
    BY <1>1, <2>8 DEF Grown
  <2>10. ASSUME NEW k \in n..m
         PROVE  events'[k].type # "AfterTarget"
    <3>1. CASE k = m
      BY <3>1
    <3>2. CASE k = n
      BY <2>7, <2>9, <3>2
    <3>3. CASE k # m /\ k # n
      <4>1. k \in (n + 1)..Len(events) /\ k \in 1..Len(events)
        BY <1>1, <2>8, <2>10, <3>3 DEF Grown
      <4> QED BY <1>1, <2>7, <4>1 DEF Grown
    <3> QED BY <3>1, <3>2, <3>3
  <2> QED BY <2>7, <2>8, <2>9, <2>10
<1>3. CASE m \in 1..Len(events)
  <2>1. events'[m] = events[m]
    BY <1>1, <1>3 DEF Grown
  <2>2. PICK n \in 1..(m - 1) :
          /\ events[n].type = "BeforeTarget" /\ events[n].target = events[m].target
          /\ \A k \in n..m : events[k].type # "AfterTarget"
    BY <1>3, <2>1 DEF Nested
  <2>3. \A k \in n..m : events'[k] = events[k]
    BY <1>1, <1>3, <2>2 DEF Grown
  <2>4. events'[n] = events[n]
    BY <2>3
  <2> QED BY <2>1, <2>2, <2>3, <2>4
<1> QED BY <1>1, <1>2, <1>3 DEF Grown, Sent

StreamInv == OutcomeInv /\ AfterAllOK /\ BracketsOK /\ Closed /\ Nested

LEMMA StreamInitially ==
  ASSUME Init
  PROVE  StreamInv
<1>0. OutcomeInv
  BY OutcomeInitially
<1>1. pc = "install" /\ 1..Len(events) = {}
  BY EmptySeq DEF Init
<1>2. Closed /\ Nested
  BY <1>1 DEF Closed, Nested
<1>3. ~AllOpen /\ ~TargetOpen /\ ~CommandOpen /\ ~ToolOpen
  BY <1>1 DEF AllOpen, TargetOpen, CommandOpen, ToolOpen, InTarget, InCommand, InChild
<1>4. \A t : Count(t) = 0
  BY <1>1, FS_EmptySet DEF Count
<1>5. BracketsOK
  BY <1>3, <1>4 DEF BracketsOK, PairOK
<1>6. AfterAllOK
  BY <1>1 DEF AfterAllOK
<1> QED BY <1>0, <1>2, <1>5, <1>6 DEF StreamInv

LEMMA StreamInductive ==
  ASSUME StreamInv, [Next]_vars
  PROVE  StreamInv'
<1> USE DEF StreamInv
<1>1. OutcomeInv' /\ AfterAllOK'
  BY OutcomeInductive, AfterAllInductive DEF OutcomeInv
<1>2. /\ BracketsOK'
      /\ ClosesIn("AfterAll") /\ ClosesIn("AfterTarget")
      /\ ClosesIn("AfterCommand") /\ ClosesIn("AfterTool")
  BY AllPair, TargetPair, CommandPair, ToolPair DEF BracketsOK
<1>3. Closed'
  <2>1. \A c \in DOMAIN Opener : ClosesIn(c)
    BY <1>2, Pairs
  <2> QED BY <2>1, Senders, ClosedInductive DEF OutcomeInv, TypeInv
<1>4. Nested'
  BY NestedInductive
<1> QED BY <1>1, <1>2, <1>3, <1>4

\* What a listener may rely on, for every job and every interleaving of the two
\* threads that emit: each After event closes the last Before event of the same
\* target and command or tool (run_steps, run_one, spawn_resolved), a command's lie
\* inside its target's, and unless run_steps returned an error, in a cancelled run
\* too, nothing is open once AfterAll has come.
THEOREM EventsPaired == Spec => []EventsPairUp
<1>1. StreamInv => EventsPairUp
  <2> SUFFICES ASSUME StreamInv, NEW m \in 1..Len(events)
               PROVE  /\ events[m].type \in DOMAIN Opener => \E n \in 1..(m - 1) : Opens(n, m)
                      /\ events[m].type = "BeforeCommand" =>
                           \E n \in 1..(m - 1) :
                             /\ events[n].type = "BeforeTarget"
                             /\ events[n].target = events[m].target
                             /\ \A k \in n..m : events[k].type # "AfterTarget"
                      /\ events[m].type = "AfterAll" /\ ReturnedOk =>
                           \A type \in DOMAIN Opener : Count(type) = Count(Opener[type])
    BY DEF EventsPairUp
  <2>1. ASSUME events[m].type = "AfterAll", ReturnedOk
        PROVE  \A type \in DOMAIN Opener : Count(type) = Count(Opener[type])
    <3>1. pc \in {"end", "exit", "done"}
      BY <2>1 DEF StreamInv, AfterAllOK
    <3>2. ~AllOpen /\ ~TargetOpen /\ ~CommandOpen /\ ~ToolOpen
      BY <3>1 DEF AllOpen, TargetOpen, CommandOpen, ToolOpen, Early, InTarget, InCommand, InChild
    <3>3. \A type \in DOMAIN Opener : Count(Opener[type]) = Count(type) + 0
      BY <2>1, <3>2, Pairs DEF StreamInv, BracketsOK, PairOK, Whole
    <3> QED BY <3>3, CountTyped DEF StreamInv, OutcomeInv, TypeInv
  <2> QED BY <2>1 DEF StreamInv, Closed, Nested
<1> QED BY <1>1, StreamInitially, StreamInductive, PTL DEF Spec
=============================================================================
