------------------------ MODULE RunRefinementProofs ------------------------
(***************************************************************************)
(* The run between two other specifications.  It is a behaviour of          *)
(* CommandChain, and so keeps its promise: for every job and every          *)
(* interleaving what has been started is a prefix of the agenda, and all of *)
(* it at exit 0.  And RakeTimed's runs are runs, that keep more: for every  *)
(* Poll < Delay a command under way when the flag goes up is killed well    *)
(* before the safety net fires.                                             *)
(*                                                                         *)
(* RefineInv extends the invariant of RunOutcomeProofs by what ties the     *)
(* cursor of run_steps to the agenda: Through and OnHost count it off.      *)
(* TimedInv says by how much the safety net is behind main's nap.           *)
(***************************************************************************)
EXTENDS RunOutcomeProofs, RakeRunChain, RakeTimed, Recursion

-----------------------------------------------------------------------------
(* Sequences that begin others.                                            *)

Begins(s, t) == Len(s) <= Len(t) /\ \A n \in 1..Len(s) : t[n] = s[n]

LEMMA BeginsTransitive ==
  ASSUME NEW X, NEW s \in Seq(X), NEW t \in Seq(X), NEW u \in Seq(X), Begins(s, t), Begins(t, u)
  PROVE  Begins(s, u)
<1>1. Len(s) \in Nat /\ Len(t) \in Nat /\ Len(u) \in Nat
  BY LenProperties
<1> QED BY <1>1 DEF Begins

LEMMA BeginsConcat ==
  ASSUME NEW X, NEW s \in Seq(X), NEW t \in Seq(X), NEW u \in Seq(X)
  PROVE  /\ s \o t \in Seq(X) /\ Begins(s, s) /\ Begins(s, s \o t)
         /\ Begins(t, u) => Begins(s \o t, s \o u)
<1>1. Len(s) \in Nat /\ Len(t) \in Nat /\ Len(u) \in Nat
  BY LenProperties
<1>2. /\ s \o t \in Seq(X) /\ Len(s \o t) = Len(s) + Len(t)
      /\ \A n \in 1..(Len(s) + Len(t)) :
           (s \o t)[n] = IF n <= Len(s) THEN s[n] ELSE t[n - Len(s)]
  BY ConcatProperties
<1>3. /\ s \o u \in Seq(X) /\ Len(s \o u) = Len(s) + Len(u)
      /\ \A n \in 1..(Len(s) + Len(u)) :
           (s \o u)[n] = IF n <= Len(s) THEN s[n] ELSE u[n - Len(s)]
  BY ConcatProperties
<1>4. Begins(s, s) /\ Begins(s, s \o t)
  BY <1>1, <1>2 DEF Begins
<1>5. ASSUME Begins(t, u) PROVE Begins(s \o t, s \o u)
  <2>1. Len(t) <= Len(u) /\ \A n \in 1..Len(t) : u[n] = t[n]
    BY <1>5 DEF Begins
  <2>2. ASSUME NEW n \in 1..(Len(s) + Len(t)) PROVE (s \o u)[n] = (s \o t)[n]
    <3>1. n \in 1..(Len(s) + Len(u))
      BY <1>1, <2>1
    <3>2. CASE n <= Len(s)
      BY <1>2, <1>3, <3>1, <3>2
    <3>3. CASE ~(n <= Len(s))
      <4>1. n - Len(s) \in 1..Len(t)
        BY <1>1, <3>3
      <4> QED BY <1>2, <1>3, <2>1, <3>1, <3>3, <4>1
    <3> QED BY <3>2, <3>3
  <2> QED BY <1>1, <1>2, <1>3, <2>1, <2>2 DEF Begins
<1> QED BY <1>2, <1>4, <1>5

\* A sequence that one more element extends to a beginning of t begins t itself, and
\* the element is the next of t.
LEMMA BeginsAppend ==
  ASSUME NEW X, NEW s \in Seq(X), NEW t \in Seq(X), NEW e \in X, Begins(Append(s, e), t)
  PROVE  Len(s) < Len(t) /\ e = t[Len(s) + 1]
<1>1. Len(s) \in Nat /\ Len(t) \in Nat /\ Len(Append(s, e)) = Len(s) + 1
      /\ Append(s, e)[Len(s) + 1] = e
  BY LenProperties, AppendProperties
<1>2. Len(s) + 1 \in 1..Len(Append(s, e))
  BY <1>1
<1> QED BY <1>1, <1>2 DEF Begins

LEMMA ConcatAppend ==
  ASSUME NEW X, NEW s \in Seq(X), NEW t \in Seq(X), NEW e \in X
  PROVE  s \o Append(t, e) = Append(s \o t, e)
BY ConcatProperties, AppendProperties, LenProperties

\* What grows at its end only: every stage begins the last.
LEMMA StagesBegin ==
  ASSUME NEW N \in Nat, NEW X, NEW f \in [0..N -> Seq(X)],
         \A n \in 1..N : Begins(f[n - 1], f[n]), NEW k \in 0..N
  PROVE  Begins(f[k], f[N])
<1> DEFINE Good(n) == k <= n => Begins(f[k], f[n])
           S == {n \in 0..N : Good(n)}
<1>1. 0 \in S
  <2>1. f[0] \in Seq(X) /\ 0 \in 0..N
    OBVIOUS
  <2>2. Begins(f[0], f[0])
    BY <2>1, BeginsConcat
  <2>3. k <= 0 => k = 0
    OBVIOUS
  <2>4. Good(0)
    BY <2>2, <2>3
  <2> QED BY <2>1, <2>4
<1>2. ASSUME NEW n \in 1..N, n - 1 \in S PROVE n \in S
  <2>1. n \in 0..N /\ n - 1 \in 0..N /\ Good(n - 1)
    BY <1>2
  <2>2. f[k] \in Seq(X) /\ f[n] \in Seq(X) /\ f[n - 1] \in Seq(X)
    BY <2>1
  <2>3. CASE k <= n - 1
    <3>1. Begins(f[k], f[n])
      BY <2>1, <2>2, <2>3, BeginsTransitive
    <3> QED BY <2>1, <3>1
  <2>4. CASE k > n - 1
    <3>1. k <= n => k = n
      BY <2>4
    <3>2. Begins(f[n], f[n])
      BY <2>2, BeginsConcat
    <3>3. Good(n)
      BY <3>1, <3>2
    <3> QED BY <2>1, <3>3
  <2> QED BY <2>3, <2>4
<1> HIDE DEF S
<1>3. 0..N \subseteq S
  BY <1>1, <1>2, BoundedInduction
<1> QED BY <1>3 DEF S

-----------------------------------------------------------------------------
(* The agenda.                                                             *)

\* The commands of a step that this host runs, one after the other.
LEMMA OnHostShape ==
  ASSUME job \in Jobs, NEW i \in 1..Len(Plan)
  PROVE  /\ OnHost(i, 0) = <<>>
         /\ \A k \in 1..Len(CommandsAt(i)) : OnHost(i, k) =
              IF CommandsAt(i)[k] \in job.offHost THEN OnHost(i, k - 1)
              ELSE Append(OnHost(i, k - 1), CommandsAt(i)[k])
         /\ \A k \in 0..Len(CommandsAt(i)) :
              /\ OnHost(i, k) \in Seq(Command)
              /\ Begins(OnHost(i, k), OnHost(i, Len(CommandsAt(i))))
<1>1. PICK N \in Nat : N = Len(CommandsAt(i))
  BY JobTyped
<1>2. PICK c : c = CommandsAt(i)
  OBVIOUS
<1> DEFINE X == Seq(Command)
           h == [n \in 1..N |->
                   [s \in X |-> IF c[n] \in job.offHost THEN s ELSE Append(s, c[n])]]
           Body(f, n) == IF n = 0 THEN <<>>
                         ELSE IF c[n] \in job.offHost THEN f[n - 1] ELSE Append(f[n - 1], c[n])
<1>3. \A n \in 1..N : c[n] \in Command
  BY <1>1, <1>2, JobTyped
<1>4. <<>> \in X /\ \A s \in X, e \in Command : Append(s, e) \in X /\ s \o <<e>> = Append(s, e)
  BY EmptySeq, AppendProperties, AppendIsConcat
<1>5. \A s, e : s \in X /\ e \in Command => Begins(s, s) /\ Begins(s, Append(s, e))
  BY BeginsConcat, AppendProperties, LenProperties DEF Begins
<1> HIDE DEF X
<1>6. h \in [1..N -> [X -> X]]
  BY <1>3, <1>4
<1>7. \E f \in [0..N -> X] : f = [n \in 0..N |-> Body(f, n)]
  <2> HIDE DEF h
  <2>1. PICK f \in [0..N -> X] : f[0] = <<>> /\ \A n \in 1..N : f[n] = h[n][f[n - 1]]
    <3>1. \E f : Recursive(f, N, X, <<>>, h)
      BY <1>4, <1>6, RecursiveFunction
    <3> QED BY <3>1 DEF Recursive
  <2>2. ASSUME NEW n \in 1..N PROVE f[n] = Body(f, n)
    <3>1. n # 0 /\ f[n - 1] \in X
      OBVIOUS
    <3>2. h[n] = [s \in X |-> IF c[n] \in job.offHost THEN s ELSE Append(s, c[n])]
      BY DEF h
    <3>3. h[n][f[n - 1]] = IF c[n] \in job.offHost THEN f[n - 1] ELSE Append(f[n - 1], c[n])
      BY <3>1, <3>2
    <3> QED BY <2>1, <3>1, <3>3
  <2>3. f[0] = Body(f, 0)
    BY <2>1
  <2>4. \A n \in 0..N : n = 0 \/ n \in 1..N
    OBVIOUS
  <2> HIDE DEF Body
  <2>5. \A n \in 0..N : f[n] = Body(f, n)
    BY <2>2, <2>3, <2>4
  <2> QED BY <2>5
<1> DEFINE kept == CHOOSE f : f = [n \in 0..N |-> Body(f, n)]
<1>8. /\ kept \in [0..N -> X] \/ kept = [n \in 0..N |-> Body(kept, n)]
      /\ kept = [n \in 0..N |-> Body(kept, n)]
  BY <1>7
<1>9. \A k : OnHost(i, k) = kept[k]
  BY <1>1, <1>2 DEF OnHost
<1> HIDE DEF kept
<1>10. /\ kept[0] = <<>>
       /\ \A n \in 1..N : kept[n] =
            IF c[n] \in job.offHost THEN kept[n - 1] ELSE Append(kept[n - 1], c[n])
  <2>1. 0 \in 0..N /\ \A n \in 1..N : n \in 0..N /\ n # 0
    OBVIOUS
  <2> QED BY <1>8, <2>1
<1> DEFINE S == {n \in 0..N : kept[n] \in X}
<1>11. 0 \in S /\ \A n \in 1..N : n - 1 \in S => n \in S
  BY <1>3, <1>4, <1>10
<1>12. 0..N \subseteq S
  <2> HIDE DEF S
  <2> QED BY <1>11, BoundedInduction
<1>13. \A n \in 0..N : kept[n] \in X
  BY <1>12
<1>14. ASSUME NEW n \in 1..N PROVE Begins(kept[n - 1], kept[n])
  <2>1. kept[n - 1] \in X /\ c[n] \in Command
    BY <1>3, <1>13
  <2>2. Begins(kept[n - 1], kept[n - 1]) /\ Begins(kept[n - 1], Append(kept[n - 1], c[n]))
    BY <1>5, <2>1
  <2> QED BY <1>10, <2>2
<1>15. kept \in [0..N -> X]
  BY <1>8, <1>13
<1>16. ASSUME NEW k \in 0..N PROVE Begins(kept[k], kept[N])
  <2>1. kept \in [0..N -> Seq(Command)]
    BY <1>15 DEF X
  <2>2. PICK f : f = kept
    OBVIOUS
  <2>3. f \in [0..N -> Seq(Command)] /\ \A n \in 1..N : Begins(f[n - 1], f[n])
    BY <1>14, <2>1, <2>2
  <2>4. Begins(f[k], f[N])
    BY <2>3, StagesBegin
  <2> QED BY <2>2, <2>4
<1>17. \A k \in 0..N : kept[k] \in Seq(Command) /\ Begins(kept[k], kept[N])
  BY <1>13, <1>16 DEF X
<1>18. /\ OnHost(i, 0) = <<>>
       /\ \A k \in 1..N : OnHost(i, k) =
            IF c[k] \in job.offHost THEN OnHost(i, k - 1) ELSE Append(OnHost(i, k - 1), c[k])
  BY <1>9, <1>10
<1>19. \A k \in 0..N : OnHost(i, k) \in Seq(Command) /\ Begins(OnHost(i, k), OnHost(i, N))
  BY <1>9, <1>17
<1> QED BY <1>1, <1>2, <1>18, <1>19

\* The commands of the plan, step after step.
LEMMA ThroughShape ==
  ASSUME job \in Jobs
  PROVE  /\ Through[0] = <<>>
         /\ \A i \in 1..Len(Plan) : Through[i] = Through[i - 1] \o
              IF Runs(i) THEN OnHost(i, Len(CommandsAt(i))) ELSE <<>>
         /\ \A i \in 0..Len(Plan) :
              Through[i] \in Seq(Command) /\ Begins(Through[i], Through[Len(Plan)])
<1>1. PICK N \in Nat : N = Len(Plan)
  BY JobTyped
<1> DEFINE X == Seq(Command)
           New(i) == IF Runs(i) THEN OnHost(i, Len(CommandsAt(i))) ELSE <<>>
           h == [i \in 1..N |-> [s \in X |-> s \o New(i)]]
           Body(f, i) == IF i = 0 THEN <<>> ELSE f[i - 1] \o New(i)
<1>2. \A i \in 1..N : New(i) \in X
  <2>1. \A i \in 1..N : Len(CommandsAt(i)) \in 0..Len(CommandsAt(i))
    BY <1>1, JobTyped
  <2>2. \A i \in 1..N : OnHost(i, Len(CommandsAt(i))) \in X
    BY <1>1, <2>1, OnHostShape
  <2> QED BY <2>2, EmptySeq
<1>3. <<>> \in X /\ \A s \in X, t \in X : s \o t \in X /\ Begins(s, s \o t)
  BY EmptySeq, BeginsConcat
<1>4. \A f, i : Body(f, i) = IF i = 0 THEN <<>> ELSE f[i - 1] \o
              (IF Runs(i) THEN OnHost(i, Len(CommandsAt(i))) ELSE <<>>)
  OBVIOUS
<1> HIDE DEF X, New
<1>5. h \in [1..N -> [X -> X]]
  BY <1>2, <1>3
<1>6. \E f \in [0..N -> X] : f = [i \in 0..N |-> Body(f, i)]
  <2> HIDE DEF h
  <2>1. PICK f \in [0..N -> X] : f[0] = <<>> /\ \A n \in 1..N : f[n] = h[n][f[n - 1]]
    <3>1. \E f : Recursive(f, N, X, <<>>, h)
      BY <1>3, <1>5, RecursiveFunction
    <3> QED BY <3>1 DEF Recursive
  <2>2. ASSUME NEW n \in 1..N PROVE f[n] = Body(f, n)
    <3>1. n # 0 /\ f[n - 1] \in X
      OBVIOUS
    <3>2. h[n] = [s \in X |-> s \o New(n)]
      BY DEF h
    <3> QED BY <2>1, <3>1, <3>2
  <2>3. f[0] = Body(f, 0)
    BY <2>1
  <2>4. \A n \in 0..N : n = 0 \/ n \in 1..N
    OBVIOUS
  <2> HIDE DEF Body
  <2>5. \A n \in 0..N : f[n] = Body(f, n)
    BY <2>2, <2>3, <2>4
  <2> QED BY <2>5
<1>7. Through = [i \in 0..N |-> Body(Through, i)]
  BY <1>1, <1>6 DEF Through, New
<1>8. Through[0] = <<>> /\ \A i \in 1..N : Through[i] = Through[i - 1] \o New(i)
  <2>1. 0 \in 0..N /\ \A n \in 1..N : n \in 0..N /\ n # 0
    OBVIOUS
  <2> QED BY <1>7, <2>1
<1> DEFINE S == {n \in 0..N : Through[n] \in X}
<1>9. 0 \in S /\ \A n \in 1..N : n - 1 \in S => n \in S
  <2>1. ASSUME NEW n \in 1..N, Through[n - 1] \in X PROVE Through[n] \in X
    <3>1. Through[n - 1] \o New(n) \in X
      BY <1>2, <1>3, <2>1
    <3> QED BY <1>8, <3>1
  <2> QED BY <1>3, <1>8, <2>1
<1>10. 0..N \subseteq S
  <2> HIDE DEF S
  <2> QED BY <1>9, BoundedInduction
<1>11. \A n \in 0..N : Through[n] \in X
  BY <1>10
<1>12. ASSUME NEW n \in 1..N PROVE Begins(Through[n - 1], Through[n])
  <2>1. Through[n - 1] \in X
    BY <1>11
  <2>2. Begins(Through[n - 1], Through[n - 1] \o New(n))
    BY <1>2, <1>3, <2>1
  <2> QED BY <1>8, <2>2
<1>13. Through \in [0..N -> Seq(Command)]
  BY <1>7, <1>11 DEF X
<1>14. ASSUME NEW k \in 0..N PROVE Begins(Through[k], Through[N])
  BY <1>12, <1>13, StagesBegin
<1> QED BY <1>1, <1>8, <1>11, <1>14 DEF X, New

LEMMA AgendaFrame ==
  ASSUME job' = job
  PROVE  /\ \A i, k : OnHost(i, k)' = OnHost(i, k)
         /\ Through' = Through
<1>1. ASSUME NEW i, NEW k PROVE OnHost(i, k)' = OnHost(i, k)
  BY DEF OnHost, CommandsAt, Plan
<1>2. Through' = Through
  BY <1>1 DEF Through, Runs, CommandsAt, Plan
<1> QED BY <1>1, <1>2

-----------------------------------------------------------------------------
(* How far the run is in its agenda.                                       *)

\* An attempt is open exactly while main waits for its child.
RunningOK == Running <=> pc \in InChild

\* run_one leaves its loop over the commands at the end or behind the flag.
CountersOK ==
  /\ si <= Len(Plan) + 1
  /\ pc \in InTarget => ci <= Len(CommandsAt(si)) + 1
  /\ stop => si <= Len(Plan)

\* The commands of the current step that main has gone past.
Taken ==
  IF ci = 0 THEN 0
  ELSE IF pc \in Underway \/ (pc = "afterTarget" /\ stop) THEN ci ELSE ci - 1

\* What has been started is what the agenda begins with, up to the cursor.
StartedOK ==
  ~job.dryRun =>
    /\ pc \in Early \ InTarget => Started = Through[si - 1]
    /\ pc \in InTarget => Started = Through[si - 1] \o OnHost(si, Taken)

\* Only four steps move main between the launch of a child and the report of its end.
LEMMA ChildStays ==
  ASSUME [Next]_vars, ~Spawn, ~SpawnFails, ~WaitFails, ~AfterCommand
  PROVE  pc' \in InChild <=> pc \in InChild
<1> USE DEF At, Goto, InChild
<1>1. CASE Prepare \/ WalkPlan
  BY <1>1 DEF Prepare, Install, BeforeAll, BeginRun, WalkPlan, SkipStep, EnterTarget, StepsDone,
    BeforeTarget, AfterTarget
<1>2. CASE EnsureTools \/ ToolReturns
  BY <1>2 DEF EnsureTools, ToolReturns, ToolKnown, BeforeTool, ToolReady, ToolFails
<1>3. CASE PickCommand
  BY <1>3 DEF PickCommand, SkipCommand, EnterCommand, CommandsDone, NoShellVariant, DryCommand,
    CommandToolsDone
<1>4. CASE RunCommand
  BY <1>4 DEF RunCommand, BeforeCommand, CommandToolsDone, PollExited, PollCancelled, PollSleeps,
    Wake, Kill, StopChain, ContinueChain
<1>5. CASE Conclude
  BY <1>5 DEF Conclude, CheckCancelled, CheckFinished, AfterAll, EndRun, Exit
<1>6. CASE ~(MainStep \/ ToolReturns)
  BY <1>6, HandlerFrame DEF Next, ChildExits, vars, mainVars
<1> QED BY <1>1, <1>2, <1>3, <1>4, <1>5, <1>6 DEF MainStep

LEMMA RunningInductive ==
  ASSUME TypeInv, RunningOK, [Next]_vars
  PROVE  RunningOK'
<1> USE DEF TypeInv
<1>1. ran \in Seq(AttemptRecord) /\ Len(ran) \in Nat /\ (ran # <<>> => Len(ran) # 0)
  BY LenProperties, EmptySeq DEF TypeOK
<1>2. CASE Spawn \/ SpawnFails
  <2>1. PICK end : /\ ran' = Append(ran, Attempt(end)) /\ Len(ran') = Len(ran) + 1
                   /\ ran' \in Seq(AttemptRecord)
                   /\ ran'[Len(ran) + 1] = Attempt(end)
                   /\ end = IF Spawn THEN "running" ELSE "error"
    BY <1>2, SpawnAppends
  <2>2. ran' # <<>> /\ ran'[Len(ran')].end = end
    BY <1>1, <2>1, EmptySeq DEF Attempt
  <2>3. /\ Spawn => pc' = "poll"
        /\ ~Spawn => pc' = "check"
    BY <1>2 DEF Spawn, SpawnFails, Goto
  <2> QED BY <2>1, <2>2, <2>3 DEF RunningOK, Running, Ended, InChild
<1>3. CASE WaitFails \/ AfterCommand
  <2>1. PICK end \in ChildEnd \cup {"error"} :
          /\ Len(ran') = Len(ran) /\ Len(ran) \in Nat \ {0}
          /\ \A n \in 1..Len(ran) : ran'[n].end = IF n = Len(ran) THEN end ELSE ran[n].end
    BY <1>3, ChildEndNoted
  <2>2. ran'[Len(ran')].end = end
    BY <2>1
  <2>3. end # "running" /\ pc' \in {"check", "decide"}
    BY <1>3 DEF WaitFails, AfterCommand, Goto, ChildEnd
  <2> QED BY <2>2, <2>3 DEF RunningOK, Running, Ended, InChild
<1>4. CASE ~(Spawn \/ SpawnFails \/ WaitFails \/ AfterCommand)
  <2>1. ran' = ran
    BY <1>4, AttemptFrame
  <2>2. Running' <=> Running
    BY <2>1 DEF Running, Ended
  <2> QED BY <1>4, <2>2, ChildStays DEF RunningOK
<1> QED BY <1>2, <1>3, <1>4

\* A command joins those started with the attempt at launching it.
LEMMA StartedMoves ==
  ASSUME TypeInv, [Next]_vars
  PROVE  /\ ~(Spawn \/ SpawnFails) => Started' = Started
         /\ Spawn \/ SpawnFails => Started' = Append(Started, CurCommand)
<1> USE DEF TypeInv
<1>1. job' = job /\ Plan' = Plan /\ ran \in Seq(AttemptRecord) /\ Len(ran) \in Nat
  BY MainFrame, HandlerFrame, LenProperties DEF Next, vars, mainVars, Plan, TypeOK
<1>2. CASE UNCHANGED ran /\ ~(Spawn \/ SpawnFails)
  BY <1>1, <1>2 DEF Started, CommandOf, CommandsAt
<1>3. CASE (WaitFails \/ AfterCommand) /\ ~(Spawn \/ SpawnFails)
  <2>1. /\ Len(ran') = Len(ran)
        /\ \A n \in 1..Len(ran) :
             ran'[n].step = ran[n].step /\ ran'[n].index = ran[n].index
    BY <1>3, ChildEndNoted
  <2>2. \A n \in 1..Len(ran) : CommandOf(ran[n])' = CommandOf(ran[n])
    BY <1>1, <2>1 DEF CommandOf, CommandsAt
  <2> QED BY <1>3, <2>1, <2>2 DEF Started
<1>4. CASE Spawn \/ SpawnFails
  <2>1. PICK L \in Nat : L = Len(ran)
    BY <1>1
  <2>2. /\ Len(ran') = L + 1 /\ \A n \in 1..L : ran'[n] = ran[n]
        /\ ran'[L + 1].step = si /\ ran'[L + 1].index = ci
    BY <1>4, <2>1, SpawnAppends DEF Attempt
  <2> DEFINE com(n) == IF n = L + 1 THEN CurCommand ELSE CommandOf(ran[n])
             X == {com(n) : n \in 1..(L + 1)}
  <2>3. Started = [n \in 1..L |-> com(n)]
    BY <2>1 DEF Started
  <2>4. Started' = [n \in 1..(L + 1) |-> com(n)]
    <3>1. ASSUME NEW n \in 1..(L + 1) PROVE CommandOf(ran[n])' = com(n)
      BY <1>1, <2>2, <3>1 DEF CommandOf, CommandsAt, CurCommand, Plan
    <3> QED BY <2>2, <3>1 DEF Started
  <2>5. \A n \in 1..(L + 1) : com(n) \in X
    OBVIOUS
  <2>6. com(L + 1) = CurCommand
    OBVIOUS
  <2> HIDE DEF X, com
  <2>7. Started \in Seq(X) /\ Len(Started) = L /\ CurCommand \in X /\ \A n \in 1..L : Started[n] = com(n)
    BY <2>3, <2>5, <2>6
  <2>8. Started' \in Seq(X) /\ Len(Started') = L + 1 /\ \A n \in 1..(L + 1) : Started'[n] = com(n)
    BY <2>4, <2>5
  <2>9. /\ Append(Started, CurCommand) \in Seq(X) /\ Len(Append(Started, CurCommand)) = L + 1
        /\ \A n \in 1..L : Append(Started, CurCommand)[n] = com(n)
        /\ Append(Started, CurCommand)[L + 1] = CurCommand
    BY <2>7, AppendProperties
  <2>10. \A n \in 1..(L + 1) : Started'[n] = Append(Started, CurCommand)[n]
    BY <2>6, <2>8, <2>9
  <2>11. Started' = Append(Started, CurCommand)
    BY <2>8, <2>9, <2>10, SeqEqual
  <2> QED BY <1>4, <2>11
<1> QED BY <1>2, <1>3, <1>4, AttemptFrame

LEMMA CountersInductive ==
  ASSUME TypeInv, ReportOK, WalkOK, CountersOK, [Next]_vars
  PROVE  CountersOK'
<1> USE DEF TypeInv
<1>1. /\ job' = job /\ Plan' = Plan /\ Len(Plan) \in Nat
      /\ si \in Nat \ {0} /\ ci \in Nat
      /\ \A i \in 1..Len(Plan) : Len(CommandsAt(i)) \in Nat
      /\ \A i : CommandsAt(i)' = CommandsAt(i)
  BY MainFrame, HandlerFrame, JobTyped DEF Next, vars, mainVars, Plan, TypeOK, CommandsAt
<1>2. pc \in InTarget => si \in 1..Len(Plan)
  BY <1>1 DEF CursorOK
<1>3. CASE ~(MainStep \/ ToolReturns)
  <2>1. UNCHANGED <<pc, si, ci, stop>>
    BY <1>3, HandlerFrame DEF Next, ChildExits, vars, mainVars, cursor, books
  <2>2. CommandsAt(si)' = CommandsAt(si)
    BY <1>1, <2>1 DEF CommandsAt
  <2> QED BY <1>1, <2>1, <2>2 DEF CountersOK
<1>4. CASE MainStep \/ ToolReturns
  <2>1. si' = si \/ SkipStep \/ (AfterTarget /\ ~stop)
    <3> USE DEF cursor, At
    <3>1. CASE Prepare \/ WalkPlan \/ EnsureTools \/ ToolReturns
      BY <3>1 DEF Prepare, Install, BeforeAll, BeginRun, WalkPlan, EnterTarget, StepsDone,
        BeforeTarget, AfterTarget, EnsureTools, ToolReturns, ToolKnown, BeforeTool, ToolReady,
        ToolFails
    <3>2. CASE PickCommand \/ Conclude
      BY <3>2 DEF PickCommand, SkipCommand, EnterCommand, CommandsDone, NoShellVariant, DryCommand,
        Conclude, CheckCancelled, CheckFinished, AfterAll, EndRun, Exit
    <3>3. CASE RunCommand
      BY <3>3 DEF RunCommand, BeforeCommand, SpawnFails, Spawn, PollExited, WaitFails,
        PollCancelled, PollSleeps, Wake, Kill, AfterCommand, StopChain, ContinueChain
    <3> QED BY <1>4, <3>1, <3>2, <3>3 DEF MainStep
  <2>2. si' <= Len(Plan) + 1 /\ (stop' => si' <= Len(Plan))
    <3>1. CASE SkipStep
      <4>1. pc = "step" /\ si <= Len(Plan) /\ si' = si + 1 /\ stop' = stop
        BY <3>1 DEF SkipStep, At, books
      <4>2. ~stop
        BY <4>1 DEF ReportOK, Ending
      <4> QED BY <1>1, <4>1, <4>2
    <3>2. CASE AfterTarget /\ ~stop
      <4>1. si \in 1..Len(Plan) /\ (si' = si \/ si' = si + 1) /\ stop' = stop
        BY <1>2, <3>2 DEF AfterTarget, At, InTarget
      <4> QED BY <1>1, <3>2, <4>1
    <3>3. CASE si' = si
      <4>1. CASE StopChain
        <5>1. si \in 1..Len(Plan)
          BY <1>2, <4>1 DEF StopChain, At, InTarget, InCommand
        <5> QED BY <1>1, <3>3, <5>1
      <4>2. CASE ~StopChain
        <5>1. stop' => stop
          BY <1>4, <4>2, LocalsFrame DEF EnterTarget
        <5> QED BY <3>3, <5>1 DEF CountersOK
      <4> QED BY <4>1, <4>2
    <3> QED BY <2>1, <3>1, <3>2, <3>3
  <2>3. ASSUME pc' \in InTarget PROVE ci' <= Len(CommandsAt(si)') + 1
    <3> USE DEF At, Goto
    <3>1. pc' \notin Ending /\ pc' \notin Early \ InTarget
      BY <2>3 DEF InTarget, InCommand, InChild, Ending
    <3>2. CASE SkipStep \/ (AfterTarget /\ ~stop)
      <4>1. pc' = "step"
        BY <3>2 DEF SkipStep, AfterTarget
      <4> QED BY <2>3, <4>1 DEF InTarget, InCommand, InChild
    <3>3. CASE si' = si
      <4>1. Len(CommandsAt(si)') = Len(CommandsAt(si))
        BY <1>1, <3>3 DEF CommandsAt
      <4>2. CASE EnterTarget
        <5>1. ci' = 0 /\ si \in 1..Len(Plan)
          BY <1>1, <4>2 DEF EnterTarget, Runs
        <5> QED BY <1>1, <4>1, <5>1
      <4>3. CASE BeforeTarget
        <5>1. ci' = 1 /\ si \in 1..Len(Plan)
          BY <1>2, <4>3 DEF BeforeTarget, InTarget
        <5> QED BY <1>1, <4>1, <5>1
      <4>4. CASE SkipCommand \/ DryCommand \/ ContinueChain
        <5>1. pc \in InTarget /\ ci' = ci + 1
          BY <4>4 DEF SkipCommand, DryCommand, CommandToolsDone, ContinueChain, InTarget, InCommand
        <5>2. ci <= Len(CommandsAt(si))
          BY <4>4 DEF SkipCommand, DryCommand, CommandToolsDone, ContinueChain, InCommand, CursorOK
        <5> QED BY <1>1, <1>2, <4>1, <5>1, <5>2
      <4>5. CASE EnterCommand \/ BeforeCommand \/ Spawn \/ StopChain \/ CommandsDone
        <5>1. pc \in InTarget
          BY <4>5 DEF EnterCommand, BeforeCommand, CommandToolsDone, Spawn, StopChain, CommandsDone,
            InTarget, InCommand
        <5>2. ci' = ci
          BY <4>5 DEF EnterCommand, BeforeCommand, Spawn, StopChain, CommandsDone, cursor
        <5> QED BY <4>1, <5>1, <5>2 DEF CountersOK
      <4>6. CASE \/ pc \in {"tools", "ensure"} /\ pc' \in {"tools", "ensure"} /\ ci' = ci
                 \/ pc \in Underway /\ pc' \in Underway /\ ci' = ci
        <5>1. pc \in InTarget
          BY <4>6 DEF InTarget, InCommand, Underway
        <5> QED BY <4>1, <4>6, <5>1 DEF CountersOK
      <4> QED BY <1>4, <3>1, <3>2, <4>2, <4>3, <4>4, <4>5, <4>6, WalkMoves
    <3> QED BY <2>1, <3>2, <3>3
  <2> QED BY <1>1, <2>2, <2>3 DEF CountersOK
<1> QED BY <1>3, <1>4

LEMMA StartedInductive ==
  ASSUME TypeInv, ReportOK, WalkOK, CountersOK, StartedOK, MainStep \/ ToolReturns
  PROVE  StartedOK'
<1> USE DEF TypeInv, At, Goto
<1>1. /\ job' = job /\ Len(Plan) \in Nat /\ [Next]_vars /\ job \in Jobs
      /\ si \in Nat \ {0} /\ ci \in Nat
      /\ \A i \in 1..Len(Plan) : Len(CommandsAt(i)) \in Nat
  BY MainFrame, JobTyped DEF Next, TypeOK
<1>2. pc \in InTarget => si \in 1..Len(Plan) /\ Runs(si)
  BY <1>1 DEF CursorOK, Runs
<1>3. /\ \A i, k : OnHost(i, k)' = OnHost(i, k)
      /\ Through' = Through
  BY <1>1, AgendaFrame
<1>4. SUFFICES ASSUME ~job.dryRun, pc' \in Early
      PROVE  /\ (pc \in Early \ InTarget => Started = Through[si - 1])'
             /\ (pc \in InTarget => Started = Through[si - 1] \o OnHost(si, Taken))'
  <2>1. InTarget \subseteq Early
    BY DEF Early
  <2> QED BY <1>1, <2>1 DEF StartedOK
<1>5. pc' \notin Ending
  BY <1>4 DEF Early, InTarget, InCommand, InChild, Ending
<1>6. /\ pc \in Early \ InTarget => Started = Through[si - 1]
      /\ pc \in InTarget => Started = Through[si - 1] \o OnHost(si, Taken)
  BY <1>4 DEF StartedOK
\* The command under the cursor is started, or it stays what it was.
<1>7. ASSUME pc \in InTarget, pc' \in InTarget, si' = si, ~Spawn, ~SpawnFails,
             OnHost(si, Taken') = OnHost(si, Taken)
      PROVE  Started' = Through'[si' - 1] \o OnHost(si, Taken)'
  <2>1. Started' = Started
    BY <1>1, <1>7, StartedMoves
  <2>2. OnHost(si, Taken)' = OnHost(si, Taken)
    <3>1. PICK t : t = Taken'
      OBVIOUS
    <3>2. job' = job /\ si' = si
      BY <1>1, <1>7
    <3>3. OnHost(si, Taken)' = OnHost(si, t)
      BY <3>1, <3>2 DEF OnHost, CommandsAt, Plan
    <3> QED BY <1>7, <3>1, <3>3
  <2> QED BY <1>3, <1>6, <1>7, <2>1, <2>2
<1>8. ASSUME pc' \in InTarget, Started' = Through'[si' - 1] \o OnHost(si, Taken)'
      PROVE  /\ (pc \in Early \ InTarget => Started = Through[si - 1])'
             /\ (pc \in InTarget => Started = Through[si - 1] \o OnHost(si, Taken))'
  BY <1>8
<1>9. ASSUME pc' \notin InTarget, Started' = Through[si' - 1]
      PROVE  /\ (pc \in Early \ InTarget => Started = Through[si - 1])'
             /\ (pc \in InTarget => Started = Through[si - 1] \o OnHost(si, Taken))'
  BY <1>3, <1>9
<1>10. CASE pc \in Early \ InTarget /\ pc' \in Early \ InTarget /\ si' = si
  <2>1. ~Spawn /\ ~SpawnFails
    BY <1>10 DEF Spawn, SpawnFails, InTarget, InCommand
  <2>2. Started' = Started
    BY <1>1, <2>1, StartedMoves
  <2> QED BY <1>6, <1>9, <1>10, <2>2
<1>11. CASE SkipStep
  <2>1. /\ pc = "step" /\ pc' = "step" /\ si' = si + 1 /\ si \in 1..Len(Plan) /\ ~Runs(si)
        /\ ~Spawn /\ ~SpawnFails
    BY <1>1, <1>11 DEF SkipStep, Runs, Spawn, SpawnFails
  <2>2. pc \in Early \ InTarget /\ pc' \notin InTarget
    BY <2>1 DEF Early, InTarget, InCommand, InChild
  <2>3. Started' = Started
    BY <1>1, <2>1, StartedMoves
  <2>4. Through[si] = Through[si - 1] \o <<>> /\ Through[si - 1] \in Seq(Command)
    <3>1. si - 1 \in 0..Len(Plan)
      BY <2>1
    <3> QED BY <1>1, <2>1, <3>1, ThroughShape
  <2>5. Through[si] = Through[si - 1]
    BY <2>4, ConcatEmptySeq
  <2>6. si' - 1 = si
    BY <1>1, <2>1
  <2> QED BY <1>6, <1>9, <2>2, <2>3, <2>5, <2>6
<1>12. CASE EnterTarget
  <2>1. /\ pc = "step" /\ pc' = "tools" /\ si' = si /\ ci' = 0 /\ si \in 1..Len(Plan)
        /\ ~Spawn /\ ~SpawnFails
    BY <1>12 DEF EnterTarget, Runs, Spawn, SpawnFails
  <2>2. pc \in Early \ InTarget /\ pc' \in InTarget
    BY <2>1 DEF Early, InTarget, InCommand, InChild
  <2>3. Started' = Started
    BY <1>1, <2>1, StartedMoves
  <2>4. OnHost(si, Taken)' = <<>>
    <3>1. Taken' = 0
      BY <2>1 DEF Taken
    <3>2. OnHost(si, 0) = <<>>
      BY <1>1, <2>1, OnHostShape
    <3> QED BY <1>1, <2>1, <3>1, <3>2 DEF OnHost, CommandsAt, Plan
  <2>5. Through[si - 1] \in Seq(Command)
    <3>1. si - 1 \in 0..Len(Plan)
      BY <2>1
    <3> QED BY <1>1, <3>1, ThroughShape
  <2>6. Through[si - 1] \o <<>> = Through[si - 1]
    BY <2>5, ConcatEmptySeq
  <2>7. Started' = Through'[si' - 1] \o OnHost(si, Taken)'
    BY <1>3, <1>6, <2>1, <2>2, <2>3, <2>4, <2>6
  <2> QED BY <1>8, <2>2, <2>7
<1>13. CASE BeforeTarget
  <2>1. /\ pc = "tools" /\ pc' = "command" /\ si' = si /\ ci = 0 /\ ci' = 1
        /\ ~Spawn /\ ~SpawnFails
    BY <1>13 DEF BeforeTarget, Spawn, SpawnFails
  <2>2. pc \in InTarget /\ pc' \in InTarget /\ Taken' = 0 /\ Taken = 0
    BY <2>1 DEF InTarget, Taken, Underway, InChild
  <2>3. OnHost(si, Taken') = OnHost(si, Taken)
    BY <2>2
  <2> QED BY <1>7, <1>8, <2>1, <2>2, <2>3
<1>14. CASE SkipCommand
  <2>1. /\ pc = "command" /\ pc' = "command" /\ si' = si /\ ci' = ci + 1 /\ ci # 0
        /\ ci <= Len(CommandsAt(si)) /\ CommandsAt(si)[ci] \in job.offHost
        /\ ~Spawn /\ ~SpawnFails
    BY <1>14 DEF SkipCommand, CurCommand, CursorOK, Spawn, SpawnFails
  <2>2. pc \in InTarget /\ pc' \in InTarget /\ Taken' = ci /\ Taken = ci - 1
    BY <1>1, <2>1 DEF InTarget, Taken, Underway, InChild
  <2>3. OnHost(si, ci) = OnHost(si, ci - 1)
    <3>1. ci \in 1..Len(CommandsAt(si))
      BY <1>1, <1>2, <2>1, <2>2
    <3> QED BY <1>1, <1>2, <2>1, <2>2, <3>1, OnHostShape
  <2>4. OnHost(si, Taken') = OnHost(si, Taken)
    BY <2>2, <2>3
  <2> QED BY <1>7, <1>8, <2>1, <2>2, <2>4
<1>15. CASE EnterCommand \/ BeforeCommand
             \/ (pc \in {"tools", "ensure"} /\ pc' \in {"tools", "ensure"} /\ si' = si /\ ci' = ci)
  <2>1. /\ pc \in {"tools", "ensure", "command"} /\ pc' \in {"tools", "ensure", "spawn"}
        /\ si' = si /\ ci' = ci /\ ~Spawn /\ ~SpawnFails
    BY <1>15 DEF EnterCommand, BeforeCommand, CommandToolsDone, cursor, Spawn, SpawnFails
  <2>2. pc \in InTarget /\ pc' \in InTarget /\ Taken' = Taken
    BY <2>1 DEF InTarget, InCommand, Taken, Underway, InChild
  <2>3. OnHost(si, Taken') = OnHost(si, Taken)
    BY <2>2
  <2> QED BY <1>7, <1>8, <2>1, <2>2, <2>3
<1>16. ~DryCommand
  BY <1>4 DEF DryCommand
<1>17. CASE Spawn
  <2>1. /\ pc = "spawn" /\ pc' = "poll" /\ si' = si /\ ci' = ci /\ ci # 0
        /\ ci <= Len(CommandsAt(si)) /\ CommandsAt(si)[ci] \notin job.offHost
    BY <1>17 DEF Spawn, cursor, CursorOK, InCommand, WalkOK, CurCommand
  <2>2. pc \in InTarget /\ pc' \in InTarget /\ Taken' = ci /\ Taken = ci - 1
    BY <1>1, <2>1 DEF InTarget, InCommand, Taken, Underway, InChild
  <2>3. Started' = Append(Started, CurCommand)
    BY <1>1, <1>17, StartedMoves
  <2>4. /\ OnHost(si, ci) = Append(OnHost(si, ci - 1), CurCommand)
        /\ OnHost(si, ci - 1) \in Seq(Command) /\ CurCommand \in Command
    <3>1. ci \in 1..Len(CommandsAt(si)) /\ ci - 1 \in 0..Len(CommandsAt(si))
      BY <1>1, <1>2, <2>1, <2>2
    <3>2. CurCommand \in Command
      BY <1>1, <1>2, <2>2, <3>1, JobTyped DEF CurCommand
    <3> QED BY <1>1, <1>2, <2>1, <2>2, <3>1, <3>2, OnHostShape DEF CurCommand
  <2>5. Through[si - 1] \in Seq(Command)
    <3>1. si - 1 \in 0..Len(Plan)
      BY <1>2, <2>2
    <3> QED BY <1>1, <3>1, ThroughShape
  <2>6. Through[si - 1] \o OnHost(si, ci) = Append(Started, CurCommand)
    <3>1. PICK s \in Seq(Command), t \in Seq(Command), c \in Command :
            s = Through[si - 1] /\ t = OnHost(si, ci - 1) /\ c = CurCommand
      BY <2>4, <2>5
    <3>2. s \o Append(t, c) = Append(s \o t, c)
      BY ConcatAppend
    <3> QED BY <1>6, <2>2, <2>4, <3>1, <3>2
  <2>7. OnHost(si, Taken)' = OnHost(si, ci)
    BY <1>1, <2>1, <2>2 DEF OnHost, CommandsAt, Plan
  <2>8. Started' = Through'[si' - 1] \o OnHost(si, Taken)'
    BY <1>3, <2>1, <2>3, <2>6, <2>7
  <2> QED BY <1>8, <2>2, <2>8
<1>18. CASE pc \in Underway /\ pc' \in Underway /\ si' = si /\ ci' = ci
  <2>1. pc \in InTarget /\ pc' \in InTarget /\ Taken' = Taken /\ ~Spawn /\ ~SpawnFails
    BY <1>18 DEF InTarget, InCommand, InChild, Taken, Underway, Spawn, SpawnFails
  <2>2. OnHost(si, Taken') = OnHost(si, Taken)
    BY <2>1
  <2> QED BY <1>7, <1>8, <1>18, <2>1, <2>2
<1>19. CASE ContinueChain
  <2>1. pc = "decide" /\ pc' = "command" /\ si' = si /\ ci' = ci + 1 /\ ci # 0
        /\ ~Spawn /\ ~SpawnFails
    BY <1>19 DEF ContinueChain, CursorOK, InCommand, Spawn, SpawnFails
  <2>2. pc \in InTarget /\ pc' \in InTarget /\ Taken' = ci /\ Taken = ci
    BY <1>1, <2>1 DEF InTarget, InCommand, Taken, Underway, InChild
  <2>3. OnHost(si, Taken') = OnHost(si, Taken)
    BY <2>2
  <2> QED BY <1>7, <1>8, <2>1, <2>2, <2>3
<1>20. CASE StopChain \/ CommandsDone
  <2>1. /\ pc \in {"decide", "command"} /\ pc' = "afterTarget" /\ si' = si /\ ci' = ci /\ ci # 0
        /\ (pc = "decide" => stop') /\ (pc = "command" => ~stop') /\ ~Spawn /\ ~SpawnFails
    <3>1. CASE StopChain
      BY <3>1 DEF StopChain, cursor, CursorOK, InCommand, Spawn, SpawnFails
    <3>2. CASE CommandsDone
      <4>1. pc = "command" /\ stop' = stop
        BY <3>2 DEF CommandsDone, books
      <4>2. ~stop
        BY <4>1 DEF ReportOK, Ending
      <4> QED BY <3>2, <4>1, <4>2 DEF CommandsDone, cursor, CursorOK, Spawn, SpawnFails
    <3> QED BY <1>20, <3>1, <3>2
  <2>2. pc \in InTarget /\ pc' \in InTarget /\ Taken' = Taken
    BY <2>1 DEF InTarget, InCommand, Taken, Underway, InChild
  <2>3. OnHost(si, Taken') = OnHost(si, Taken)
    BY <2>2
  <2> QED BY <1>7, <1>8, <2>1, <2>2, <2>3
<1>21. CASE AfterTarget /\ ~stop
  <2>1. /\ pc = "afterTarget" /\ pc' = "step" /\ si' = si + 1 /\ ci > Len(CommandsAt(si))
        /\ ~Spawn /\ ~SpawnFails
    BY <1>21 DEF AfterTarget, WalkOK, Spawn, SpawnFails
  <2>2. pc \in InTarget /\ pc' \notin InTarget
    BY <2>1 DEF InTarget, InCommand, InChild
  <2>3. ci - 1 = Len(CommandsAt(si)) /\ ci # 0
    BY <1>1, <1>2, <2>1, <2>2 DEF CountersOK
  <2>4. Taken = Len(CommandsAt(si))
    BY <1>21, <2>1, <2>3 DEF Taken, Underway, InChild
  <2>5. Started' = Started
    BY <1>1, <2>1, StartedMoves
  <2>6. Through[si] = Through[si - 1] \o OnHost(si, Len(CommandsAt(si)))
    BY <1>1, <1>2, <2>2, ThroughShape
  <2>7. si' - 1 = si
    BY <1>1, <2>1
  <2> QED BY <1>6, <1>9, <2>2, <2>4, <2>5, <2>6, <2>7
<1> QED BY <1>5, <1>10, <1>11, <1>12, <1>13, <1>14, <1>15, <1>16, <1>17, <1>18, <1>19, <1>20,
           <1>21, WalkMoves

-----------------------------------------------------------------------------
(* The refinement.                                                         *)

RefineInv == OutcomeInv /\ RunningOK /\ CountersOK /\ StartedOK

LEMMA RefineInitially ==
  ASSUME Init
  PROVE  RefineInv /\ Abstract!Init
<1>1. OutcomeInv
  BY OutcomeInitially
<1>2. /\ pc = "install" /\ ci = 0 /\ si = 1 /\ stop = FALSE /\ result = "ok" /\ proc = "alive"
      /\ ran = <<>> /\ Len(ran) = 0 /\ 1..Len(ran) = {} /\ job \in Jobs
  BY EmptySeq DEF Init
<1>3. pc \in Early \ InTarget /\ pc \notin InTarget /\ pc \notin InChild /\ pc \notin Ending
  BY <1>2 DEF Early, InTarget, InCommand, InChild, Ending
<1>4. Started = <<>>
  BY <1>2 DEF Started
<1>5. Through[0] = <<>> /\ Len(Plan) \in Nat /\ Flattened \in Seq(Command)
  <2>1. Len(Plan) \in 0..Len(Plan)
    BY <1>2, JobTyped
  <2>2. <<>> \in Seq(Command)
    BY EmptySeq
  <2> QED BY <1>2, <2>1, <2>2, JobTyped, ThroughShape DEF Flattened
<1>6. RunningOK /\ CountersOK /\ StartedOK
  <2>1. ~Running
    BY <1>2 DEF Running
  <2>2. si <= Len(Plan) + 1 /\ si - 1 = 0
    BY <1>2, <1>5
  <2> QED BY <1>2, <1>3, <1>4, <1>5, <2>1, <2>2 DEF RunningOK, CountersOK, StartedOK
<1>7. ~Stopped /\ Verdict = "open" /\ Busy = FALSE /\ Outcome = "none"
  BY <1>2 DEF Stopped, Verdict, Busy, Running, Outcome
<1> QED BY <1>1, <1>4, <1>5, <1>6, <1>7 DEF RefineInv, Abstract!Init

LEMMA RefineInductive ==
  ASSUME RefineInv, [Next]_vars
  PROVE  RefineInv'
<1> USE DEF RefineInv, OutcomeInv
<1>1. OutcomeInv' /\ RunningOK' /\ CountersOK'
  BY OutcomeInductive, RunningInductive, CountersInductive
<1>2. CASE MainStep \/ ToolReturns
  <2>1. StartedOK'
    BY <1>2, StartedInductive
  <2> QED BY <1>1, <2>1
<1>3. CASE ~(MainStep \/ ToolReturns)
  <2>1. UNCHANGED <<job, pc, si, ci, stop, ran>>
    BY <1>3, HandlerFrame DEF Next, ChildExits, vars, mainVars, cursor, books, history
  <2>2. Through' = Through /\ Taken' = Taken /\ Started' = Started
    <3>1. ~(Spawn \/ SpawnFails)
      BY <2>1 DEF Spawn, SpawnFails, Goto, At
    <3> QED BY <2>1, <3>1, AgendaFrame, StartedMoves DEF Taken
  <2>3. OnHost(si, Taken)' = OnHost(si, Taken)
    <3>1. PICK i, k : i = si /\ k = Taken
      OBVIOUS
    <3>2. OnHost(si, Taken)' = OnHost(i, k)
      BY <2>1, <2>2, <3>1 DEF OnHost, CommandsAt, Plan
    <3> QED BY <3>1, <3>2
  <2>4. StartedOK'
    BY <2>1, <2>2, <2>3 DEF StartedOK
  <2> QED BY <1>1, <2>4
<1> QED BY <1>2, <1>3

\* The command main is about to launch is the next of the agenda.
LEMMA LaunchesNext ==
  ASSUME RefineInv, pc = "spawn"
  PROVE  Len(Started) < Len(Flattened) /\ CurCommand = Flattened[Len(Started) + 1]
<1> USE DEF RefineInv, OutcomeInv, TypeInv
<1>1. job \in Jobs /\ Len(Plan) \in Nat /\ si \in Nat \ {0} /\ ci \in Nat
      /\ \A i \in 1..Len(Plan) : Len(CommandsAt(i)) \in Nat
  BY JobTyped DEF TypeOK
<1>2. /\ pc \in InTarget /\ pc \in InCommand /\ ~job.dryRun
      /\ si \in 1..Len(Plan) /\ Runs(si) /\ ci # 0 /\ Taken = ci - 1
  <2>1. pc \in InTarget /\ pc \in InCommand /\ pc \notin Underway /\ pc # "afterTarget"
    BY DEF InTarget, InCommand, Underway, InChild
  <2> QED BY <1>1, <2>1 DEF WalkOK, CursorOK, Runs, Taken
<1>3. PICK l \in Nat : l = Len(CommandsAt(si))
  BY <1>1, <1>2
<1>4. ci \in 1..l /\ ci - 1 \in 0..l /\ ci \in 0..l /\ CommandsAt(si)[ci] \notin job.offHost
  BY <1>1, <1>2, <1>3 DEF CursorOK, WalkOK, CurCommand
<1>5. PICK a \in Seq(Command), b \in Seq(Command), c \in Seq(Command), t \in Seq(Command),
           e \in Command :
        /\ a = Through[si - 1] /\ b = OnHost(si, ci - 1) /\ c = OnHost(si, l)
        /\ t = Through[Len(Plan)] /\ e = CurCommand
        /\ OnHost(si, ci) = Append(b, e) /\ Begins(Append(b, e), c)
  <2>1. si - 1 \in 0..Len(Plan) /\ Len(Plan) \in 0..Len(Plan) /\ l \in 0..l
    BY <1>2
  <2>2. CurCommand \in Command
    BY <1>1, <1>2, <1>3, <1>4, JobTyped DEF CurCommand
  <2>3. Through[si - 1] \in Seq(Command) /\ Through[Len(Plan)] \in Seq(Command)
    BY <1>1, <2>1, ThroughShape
  <2>4. /\ OnHost(si, ci - 1) \in Seq(Command) /\ OnHost(si, l) \in Seq(Command)
        /\ OnHost(si, ci) = Append(OnHost(si, ci - 1), CurCommand)
        /\ Begins(OnHost(si, ci), OnHost(si, l))
    BY <1>1, <1>2, <1>3, <1>4, <2>1, OnHostShape DEF CurCommand
  <2> QED BY <2>2, <2>3, <2>4
<1>6. a \o c = Through[si] /\ Begins(Through[si], t) /\ Through[si] \in Seq(Command)
  <2>1. si \in 0..Len(Plan)
    BY <1>2
  <2> QED BY <1>1, <1>2, <1>3, <1>5, <2>1, ThroughShape
<1>7. a \o b \in Seq(Command) /\ Append(b, e) \in Seq(Command)
  BY <1>5, BeginsConcat, AppendProperties
<1>8. Begins(a \o Append(b, e), a \o c) /\ a \o Append(b, e) = Append(a \o b, e)
      /\ Append(a \o b, e) \in Seq(Command)
  <2>1. Begins(a \o Append(b, e), a \o c)
    BY <1>5, <1>7, BeginsConcat
  <2>2. a \o Append(b, e) = Append(a \o b, e)
    BY ConcatAppend
  <2>3. Append(a \o b, e) \in Seq(Command)
    BY <1>7, AppendProperties
  <2> QED BY <2>1, <2>2, <2>3
<1>9. Begins(Append(a \o b, e), t)
  BY <1>6, <1>8, BeginsTransitive
<1>10. Len(a \o b) < Len(t) /\ e = t[Len(a \o b) + 1]
  BY <1>7, <1>9, BeginsAppend
<1>11. Started = a \o b /\ Flattened = t
  BY <1>2, <1>5 DEF StartedOK, Flattened
<1> QED BY <1>5, <1>10, <1>11

\* With the last step of the plan behind main the agenda is through.
LEMMA AgendaThrough ==
  ASSUME RefineInv, pc = "step", si > Len(Plan)
  PROVE  Len(Started) = Len(Flattened)
<1> USE DEF RefineInv, OutcomeInv, TypeInv
<1>1. Len(Plan) \in Nat /\ si \in Nat \ {0}
  BY JobTyped DEF TypeOK
<1>2. pc \in Early \ InTarget /\ si - 1 = Len(Plan)
  BY <1>1 DEF Early, InTarget, InCommand, InChild, CountersOK
<1>3. CASE job.dryRun
  <2>1. Len(ran) = 0 /\ 1..Len(ran) = {}
    BY <1>3, EmptySeq DEF WalkOK
  <2>2. Started = <<>>
    BY <2>1 DEF Started
  <2> QED BY <1>3, <2>2 DEF Flattened
<1>4. CASE ~job.dryRun
  BY <1>2, <1>4 DEF StartedOK, Flattened
<1> QED BY <1>3, <1>4

\* Until main has seen a failure or the flag the chain is open.
LEMMA ChainOpen ==
  ASSUME RefineInv, pc \in Early \ {"decide"}, ~(pc = "afterTarget" /\ stop)
  PROVE  ~Stopped /\ Verdict = "open"
<1> USE DEF RefineInv, OutcomeInv, TypeInv
<1>1. pc \notin Ending /\ result = "ok"
  BY DEF Early, Ending, InTarget, InCommand, InChild, ReportOK
<1>2. ~stop
  BY <1>1 DEF ReportOK
<1>3. ran \in Seq(AttemptRecord) /\ Len(ran) \in Nat
  BY LenProperties DEF TypeOK
<1>4. ASSUME NEW n \in 1..Len(ran), Ended(n) PROVE Passed(ran[n])
  <2>1. CASE pc \in InChild
    <3>1. n # Len(ran)
      BY <1>4, <2>1 DEF RunningOK, Running
    <3> QED BY <1>3, <3>1 DEF ChainOK, StopsAtFailure
  <2>2. CASE pc \notin InChild
    <3>1. pc \in Starting
      BY <2>2 DEF Starting
    <3> QED BY <3>1 DEF ChainOK
  <2> QED BY <2>1, <2>2
<1>5. ~Stopped
  BY <1>1, <1>2, <1>4 DEF Stopped
<1> QED BY <1>1, <1>5 DEF Verdict, Ending

\* Only five steps give up with an error or a cancellation.
LEMMA ResultFrame ==
  ASSUME [Next]_vars
  PROVE  result' = result \/ CheckCancelled \/ ToolFails \/ NoShellVariant \/ SpawnFails
         \/ WaitFails
<1>1. CASE Prepare \/ WalkPlan \/ EnsureTools \/ ToolReturns
  BY <1>1 DEF Prepare, Install, BeforeAll, BeginRun, WalkPlan, SkipStep, EnterTarget, StepsDone,
    BeforeTarget, AfterTarget, EnsureTools, ToolReturns, ToolKnown, BeforeTool, ToolReady, books
<1>2. CASE PickCommand \/ Conclude
  BY <1>2 DEF PickCommand, SkipCommand, EnterCommand, CommandsDone, DryCommand,
    Conclude, CheckFinished, AfterAll, EndRun, Exit, books
<1>3. CASE RunCommand
  BY <1>3 DEF RunCommand, BeforeCommand, Spawn, PollExited, PollCancelled,
    PollSleeps, Wake, Kill, AfterCommand, StopChain, ContinueChain, books
<1>4. CASE ~(MainStep \/ ToolReturns)
  BY <1>4, HandlerFrame DEF Next, ChildExits, vars, mainVars, books
<1> QED BY <1>1, <1>2, <1>3, <1>4 DEF MainStep

\* A step that judges nothing and launches nothing leaves the chain as it is.
LEMMA ChainRests ==
  ASSUME RefineInv, [Next]_vars, UNCHANGED <<ran, result, proc>>, ~StopChain,
         (pc' \in Ending <=> pc \in Ending) \/ Stopped
  PROVE  UNCHANGED <<Flattened, Started, Busy, Verdict, Outcome>>
<1> USE DEF RefineInv, OutcomeInv, TypeInv
<1>1. job' = job
  BY MainFrame, HandlerFrame DEF Next, vars, mainVars
<1>2. Flattened' = Flattened /\ Started' = Started
  <2>1. Plan' = Plan /\ Through' = Through
    BY <1>1, AgendaFrame DEF Plan
  <2>2. \A n : CommandOf(ran[n])' = CommandOf(ran[n])
    BY <1>1 DEF CommandOf, CommandsAt, Plan
  <2> QED BY <1>1, <2>1, <2>2 DEF Flattened, Started
<1>3. Busy' <=> Busy
  BY DEF Busy, Running, Ended
<1>4. stop' = stop
  <2>1. CASE EnterTarget
    <3>1. pc = "step" /\ stop' = FALSE
      BY <2>1 DEF EnterTarget, At
    <3>2. stop = FALSE
      <4>1. ~stop
        BY <3>1 DEF ReportOK, Ending
      <4> QED BY <4>1 DEF TypeOK
    <3> QED BY <3>1, <3>2
  <2>2. CASE ~EnterTarget
    BY <2>2, LocalsFrame, HandlerFrame DEF Next, ChildExits, vars, mainVars, books
  <2> QED BY <2>1, <2>2
<1>5. Stopped' <=> Stopped
  <2>1. \A n : /\ Ended(n)' <=> Ended(n)
               /\ Passed(ran[n])' <=> Passed(ran[n])
    BY <1>1 DEF Ended, Passed, CommandOf, CommandsAt, Plan
  <2> QED BY <1>4, <2>1 DEF Stopped
<1>6. Verdict' = Verdict
  BY <1>5 DEF Verdict, Ending
<1> QED BY <1>2, <1>3, <1>6 DEF Outcome, Busy

\* The attempts at launching a command.
LEMMA LaunchStep ==
  ASSUME RefineInv, [Next]_vars, Spawn \/ SpawnFails
  PROVE  Abstract!Next
<1> USE DEF RefineInv, OutcomeInv, TypeInv
<1>1. /\ pc = "spawn" /\ proc = "alive" /\ proc' = proc /\ job' = job
      /\ result = "ok" /\ ~stop /\ stop' = stop
      /\ pc' = IF Spawn THEN "poll" ELSE "check"
      /\ result' = IF Spawn THEN "ok" ELSE "error"
  <2>1. pc = "spawn" /\ proc = "alive" /\ pc \in Early /\ pc \notin Ending
    BY DEF Spawn, SpawnFails, At, Early, InTarget, InCommand, Ending
  <2>2. result = "ok" /\ ~stop
    BY <2>1 DEF ReportOK
  <2>3. CASE Spawn
    BY <2>1, <2>2, <2>3 DEF Spawn, Goto, books
  <2>4. CASE SpawnFails /\ ~Spawn
    BY <2>1, <2>2, <2>4 DEF SpawnFails, Goto, world
  <2> QED BY <2>3, <2>4
<1>2. Flattened' = Flattened /\ Started' = Append(Started, Flattened[Len(Started) + 1])
      /\ Len(Started) < Len(Flattened)
  <2>1. Plan' = Plan /\ Through' = Through
    BY <1>1, AgendaFrame DEF Plan
  <2>2. Started' = Append(Started, CurCommand)
    BY StartedMoves
  <2> QED BY <1>1, <2>1, <2>2, LaunchesNext DEF Flattened
<1>3. Verdict = "open" /\ ~Stopped /\ Busy = FALSE /\ Outcome = "none" /\ Outcome' = Outcome
  <2>1. pc \in Early \ {"decide"} /\ pc # "afterTarget" /\ pc \notin InChild
    BY <1>1 DEF Early, InTarget, InCommand, InChild
  <2> QED BY <1>1, <2>1, ChainOpen DEF Busy, RunningOK, Outcome
<1>4. CASE Spawn
  <2>1. PICK L \in Nat : L = Len(ran)
    BY LenProperties DEF TypeOK
  <2>2. /\ Len(ran') = L + 1 /\ \A n \in 1..L : ran'[n] = ran[n]
        /\ ran'[L + 1].end = "running"
    BY <1>4, <2>1, SpawnAppends DEF Attempt
  <2>3. Busy' = TRUE
    <3>1. RunningOK' /\ pc' \in InChild
      BY <1>1, <1>4, RunningInductive DEF InChild
    <3> QED BY <1>1, <1>4, <3>1 DEF RunningOK, Busy
  <2>4. ~Stopped'
    <3>1. ASSUME NEW n \in 1..(L + 1), ran'[n].end # "running" PROVE Passed(ran[n])'
      <4>1. n \in 1..L
        BY <2>2, <3>1
      <4>2. Passed(ran[n])
        BY <1>3, <2>1, <2>2, <3>1, <4>1 DEF Stopped, Ended
      <4> QED BY <1>1, <2>2, <4>1, <4>2 DEF Passed, CommandOf, CommandsAt, Plan
    <3> QED BY <1>1, <1>4, <2>2, <3>1 DEF Stopped, Ended
  <2>5. Verdict' = "open"
    BY <1>1, <1>4, <2>4 DEF Verdict
  <2>6. Abstract!Start
    BY <1>2, <1>3, <2>3, <2>5 DEF Abstract!Start, Abstract!StartNext
  <2> QED BY <2>6 DEF Abstract!Next
<1>5. CASE ~Spawn
  <2>1. Busy' = FALSE /\ Verdict' = "stopped"
    BY <1>1, <1>5 DEF Busy, Verdict, Stopped
  <2>2. Abstract!StartFails
    BY <1>2, <1>3, <2>1 DEF Abstract!StartFails, Abstract!StartNext
  <2> QED BY <2>2 DEF Abstract!Next
<1> QED BY <1>4, <1>5

\* The report of a child's end, or of its loss.
LEMMA ReportStep ==
  ASSUME RefineInv, [Next]_vars, WaitFails \/ AfterCommand
  PROVE  Abstract!Next
<1> USE DEF RefineInv, OutcomeInv, TypeInv
<1>1. ~Spawn /\ ~SpawnFails
  BY DEF WaitFails, AfterCommand, Spawn, SpawnFails, At
<1>2. /\ pc \in InChild /\ proc = "alive" /\ proc' = proc /\ job' = job
      /\ result = "ok" /\ ~stop /\ stop' = stop
      /\ pc' = IF WaitFails THEN "check" ELSE "decide"
      /\ result' = IF WaitFails THEN "error" ELSE "ok"
  <2>1. pc \in {"poll", "kill", "afterCommand"} /\ proc = "alive"
    BY DEF WaitFails, AfterCommand, At
  <2>2. pc \in InChild /\ pc \in Early /\ pc \notin Ending /\ pc # "afterTarget"
    BY <2>1 DEF Early, InTarget, InCommand, InChild, Ending
  <2>3. result = "ok" /\ ~stop
    BY <2>2 DEF ReportOK
  <2>4. CASE WaitFails
    BY <2>1, <2>2, <2>3, <2>4 DEF WaitFails, Goto
  <2>5. CASE AfterCommand /\ ~WaitFails
    BY <2>1, <2>2, <2>3, <2>5 DEF AfterCommand, Goto
  <2> QED BY <2>4, <2>5
<1>3. Flattened' = Flattened /\ Started' = Started
  <2>1. Plan' = Plan /\ Through' = Through
    BY <1>2, AgendaFrame DEF Plan
  <2> QED BY <1>1, <1>2, <2>1, StartedMoves DEF Flattened
<1>4. Verdict = "open" /\ ~Stopped /\ Busy = TRUE /\ Outcome = "none" /\ Outcome' = Outcome
  <2>1. pc \in Early \ {"decide"} /\ pc # "afterTarget"
    BY <1>2 DEF Early, InTarget, InCommand, InChild
  <2> QED BY <1>2, <2>1, ChainOpen DEF Busy, RunningOK, Outcome
<1>5. CASE WaitFails
  <2>1. Busy' = FALSE /\ Verdict' = "stopped"
    BY <1>2, <1>5 DEF Busy, Verdict, Stopped
  <2>2. Abstract!Stop
    BY <1>3, <1>4, <2>1 DEF Abstract!Stop
  <2> QED BY <2>2 DEF Abstract!Next
<1>6. CASE ~WaitFails
  <2>1. Busy' = FALSE
    <3>1. RunningOK' /\ pc' \notin InChild
      BY <1>2, <1>6, RunningInductive DEF InChild
    <3> QED BY <3>1 DEF RunningOK, Busy
  <2>2. CASE Stopped'
    <3>1. Verdict' = "stopped"
      BY <2>2 DEF Verdict
    <3>2. Abstract!Stop
      BY <1>3, <1>4, <2>1, <3>1 DEF Abstract!Stop
    <3> QED BY <3>2 DEF Abstract!Next
  <2>3. CASE ~Stopped'
    <3>1. Verdict' = "open"
      BY <1>2, <1>6, <2>3 DEF Verdict
    <3>2. Abstract!Pass
      BY <1>3, <1>4, <2>1, <3>1 DEF Abstract!Pass
    <3> QED BY <3>2 DEF Abstract!Next
  <2> QED BY <2>2, <2>3
<1> QED BY <1>5, <1>6

\* A failure, an error or the flag ends the chain, unless it had ended before.
LEMMA StopStep ==
  ASSUME RefineInv, [Next]_vars, StopChain \/ ToolFails \/ NoShellVariant \/ CheckCancelled
  PROVE  Abstract!Next \/ UNCHANGED <<Flattened, Started, Busy, Verdict, Outcome>>
<1> USE DEF RefineInv, OutcomeInv, TypeInv
<1>1. /\ pc \in {"decide", "tools", "ensure", "check"} /\ proc = "alive" /\ proc' = proc
      /\ ran' = ran /\ (stop' \/ result' # "ok")
  <2>1. CASE StopChain
    BY <2>1 DEF StopChain, At, world, history
  <2>2. CASE ToolFails \/ NoShellVariant
    BY <2>2 DEF ToolFails, NoShellVariant, CommandToolsDone, At, world, history
  <2>3. CASE CheckCancelled
    BY <2>3 DEF CheckCancelled, At, world, history
  <2> QED BY <2>1, <2>2, <2>3
<1>2. ~Spawn /\ ~SpawnFails
  BY <1>1 DEF Spawn, SpawnFails, At
<1>3. Flattened' = Flattened /\ Started' = Started
  <2>1. job' = job
    BY MainFrame, HandlerFrame DEF Next, vars, mainVars
  <2>2. Plan' = Plan /\ Through' = Through
    BY <2>1, AgendaFrame DEF Plan
  <2> QED BY <1>2, <2>1, <2>2, StartedMoves DEF Flattened
<1>4. Busy = FALSE /\ Busy' = FALSE /\ Outcome = "none" /\ Outcome' = Outcome
  <2>1. ~Running
    BY <1>1 DEF RunningOK, InChild
  <2> QED BY <1>1, <2>1 DEF Busy, Running, Ended, Outcome
<1>5. Verdict' = "stopped"
  BY <1>1 DEF Verdict, Stopped
<1>6. CASE Verdict = "stopped"
  BY <1>3, <1>4, <1>5, <1>6
<1>7. CASE Verdict # "stopped"
  <2>1. Abstract!Stop
    BY <1>3, <1>4, <1>5, <1>7 DEF Abstract!Stop
  <2> QED BY <2>1 DEF Abstract!Next
<1> QED BY <1>6, <1>7

\* run_steps comes to the end of the plan.
LEMMA CompleteStep ==
  ASSUME RefineInv, [Next]_vars, StepsDone
  PROVE  Abstract!Next
<1> USE DEF RefineInv, OutcomeInv, TypeInv
<1>1. /\ pc = "step" /\ si > Len(Plan) /\ pc' = "check" /\ proc = "alive" /\ proc' = proc
      /\ job' = job /\ ran' = ran /\ stop' = stop /\ result' = result
  BY DEF StepsDone, At, Goto, books, world, history
<1>2. pc \in Early \ {"decide"} /\ pc # "afterTarget" /\ pc \notin InChild
  BY <1>1 DEF Early, InChild
<1>3. ~Stopped /\ Verdict = "open" /\ Busy = FALSE /\ Busy' = FALSE
      /\ Outcome = "none" /\ Outcome' = Outcome
  BY <1>1, <1>2, ChainOpen DEF Busy, RunningOK, Running, Ended, Outcome
<1>4. Flattened' = Flattened /\ Started' = Started /\ Len(Started) = Len(Flattened)
  <2>1. Plan' = Plan /\ Through' = Through
    BY <1>1, AgendaFrame DEF Plan
  <2>2. ~Spawn /\ ~SpawnFails
    BY <1>1 DEF Spawn, SpawnFails, At
  <2> QED BY <1>1, <2>1, <2>2, AgendaThrough, StartedMoves DEF Flattened
<1>5. Verdict' = "complete"
  <2>1. \A n : /\ Ended(n)' <=> Ended(n)
               /\ Passed(ran[n])' <=> Passed(ran[n])
    BY <1>1 DEF Ended, Passed, CommandOf, CommandsAt, Plan
  <2>2. ~Stopped'
    BY <1>1, <1>3, <2>1 DEF Stopped
  <2> QED BY <1>1, <2>2 DEF Verdict
<1>6. Abstract!Complete
  BY <1>3, <1>4, <1>5 DEF Abstract!Complete
<1> QED BY <1>6 DEF Abstract!Next

\* The process exits: with 0 only from main, at the end of a chain that is complete.
LEMMA ExitStep ==
  ASSUME RefineInv, [Next]_vars, Exit \/ SafetyNet
  PROVE  Abstract!Next
<1> USE DEF RefineInv, OutcomeInv, TypeInv
<1>1. /\ proc = "alive" /\ UNCHANGED <<job, stop, result, ran>>
      /\ (pc' \in Ending <=> pc \in Ending)
  <2>1. CASE Exit
    BY <2>1 DEF Exit, At, Goto, books, history, Ending
  <2>2. CASE SafetyNet
    BY <2>2 DEF SafetyNet, mainVars, books, history
  <2> QED BY <2>1, <2>2
<1>2. proc' # "alive"
  <2>1. CASE Exit
    <3>1. proc' \in {"one", ExitOf(status)}
      BY <2>1 DEF Exit
    <3>2. ExitOf(status) # "alive"
      BY SignalAssumption DEF ExitOf, Status, ChildEnd, TypeOK
    <3> QED BY <3>1, <3>2
  <2>2. CASE SafetyNet
    <3>1. proc' \in Signal
      BY <2>2 DEF SafetyNet, HandlerOK
    <3> QED BY <3>1, SignalAssumption
  <2> QED BY <2>1, <2>2
<1>3. ~Spawn /\ ~SpawnFails
  <2>1. Exit => pc = "exit"
    BY DEF Exit, At
  <2>2. SafetyNet => proc' # proc
    BY <1>1, <1>2
  <2> QED BY <1>1, <2>1, <1>2 DEF Spawn, SpawnFails, At, world
<1>4. Flattened' = Flattened /\ Started' = Started
  <2>1. Plan' = Plan /\ Through' = Through
    BY <1>1, AgendaFrame DEF Plan
  <2> QED BY <1>1, <1>3, <2>1, StartedMoves DEF Flattened
<1>5. Busy' = Busy /\ Verdict' = Verdict /\ Outcome = "none"
  <2>1. \A n : /\ Ended(n)' <=> Ended(n)
               /\ Passed(ran[n])' <=> Passed(ran[n])
    BY <1>1 DEF Ended, Passed, CommandOf, CommandsAt, Plan
  <2>2. Stopped' <=> Stopped
    BY <1>1, <2>1 DEF Stopped
  <2> QED BY <1>1, <2>2 DEF Busy, Running, Ended, Verdict, Ending, Outcome
<1>6. CASE proc' # "ok"
  <2>1. Outcome' = "nonzero"
    BY <1>2, <1>6 DEF Outcome
  <2>2. Abstract!ExitNonzero
    BY <1>4, <1>5, <2>1 DEF Abstract!ExitNonzero
  <2> QED BY <2>2 DEF Abstract!Next
<1>7. CASE proc' = "ok"
  <2>1. Exit
    <3>1. SafetyNet => proc' \in Signal
      BY DEF SafetyNet, HandlerOK
    <3> QED BY <1>7, <3>1, SignalAssumption DEF ChildEnd
  <2>2. pc = "exit" /\ result # "error" /\ ExitOf(status) = "ok"
    BY <1>7, <2>1 DEF Exit, At
  <2>3. status \in {"none", "ok"}
    BY <2>2, SignalAssumption DEF ExitOf
  <2>4. result = "ok" /\ pc \in Ending \ {"check"}
    <3>1. status \notin Signal
      BY <2>3, SignalAssumption DEF ChildEnd
    <3> QED BY <2>2, <3>1 DEF StatusOK, HandlerOK, TypeOK, Ending
  <2>5. ~stop /\ \A n \in 1..Len(ran) : Passed(ran[n])
    <3>1. Len(Plan) \in Nat /\ si \in Nat
      BY JobTyped DEF TypeOK
    <3>2. si > Len(Plan) => ~stop
      BY <3>1 DEF CountersOK
    <3>3. ~(stop /\ status = last)
      BY <2>3, <2>4 DEF ReportOK, Success
    <3> QED BY <2>4, <3>2, <3>3 DEF ReportOK
  <2>6. Verdict = "complete"
    BY <2>4, <2>5 DEF Verdict, Stopped, Ending
  <2>7. Outcome' = "zero"
    BY <1>7 DEF Outcome
  <2>8. Abstract!ExitZero
    BY <1>4, <1>5, <2>6, <2>7 DEF Abstract!ExitZero
  <2> QED BY <2>8 DEF Abstract!Next
<1> QED BY <1>6, <1>7

\* Every step of the run is one of the abstract chain, or none.
LEMMA ChainStep ==
  ASSUME RefineInv, [Next]_vars
  PROVE  [Abstract!Next]_(Abstract!chainVars)
<1> USE DEF RefineInv, OutcomeInv, TypeInv
<1>1. SUFFICES Abstract!Next \/ UNCHANGED <<Flattened, Started, Busy, Verdict, Outcome>>
  BY DEF Abstract!chainVars
<1>2. CASE Spawn \/ SpawnFails \/ WaitFails \/ AfterCommand
  BY <1>2, LaunchStep, ReportStep
<1>3. CASE StopChain \/ ToolFails \/ NoShellVariant \/ CheckCancelled
  BY <1>3, StopStep
<1>4. CASE StepsDone \/ Exit \/ SafetyNet
  BY <1>4, CompleteStep, ExitStep
<1>5. CASE ~(\/ Spawn \/ SpawnFails \/ WaitFails \/ AfterCommand
             \/ StopChain \/ ToolFails \/ NoShellVariant \/ CheckCancelled
             \/ StepsDone \/ Exit \/ SafetyNet)
  <2>1. UNCHANGED <<ran, result, proc>>
    BY <1>5, AttemptFrame, ResultFrame, OutcomeFrame
  <2>2. (pc' \in Ending <=> pc \in Ending) \/ Stopped
    <3>1. CASE MainStep \/ ToolReturns
      <4>1. CASE pc \in Ending
        BY <3>1, <4>1, EndingMoves
      <4>2. CASE pc \in Early /\ pc' \in Ending
        <5>1. (AfterTarget /\ stop) \/ result' = "error"
          BY <1>5, <3>1, <4>2, EndingMoves
        <5>2. result = "ok"
          BY <4>2 DEF ReportOK
        <5> QED BY <2>1, <5>1, <5>2 DEF Stopped
      <4> QED BY <3>1, <4>1, <4>2, EndingMoves
    <3>2. CASE ~(MainStep \/ ToolReturns)
      BY <3>2, HandlerFrame DEF Next, ChildExits, vars, mainVars
    <3> QED BY <3>1, <3>2
  <2>3. ~StopChain
    BY <1>5
  <2> QED BY <2>1, <2>2, <2>3, ChainRests
<1> QED BY <1>2, <1>3, <1>4, <1>5

\* The run of a plan, with its threads, indexes, tools and events, keeps the promise
\* of the abstract chain, whatever the plan and the interleaving: commands start in
\* the agenda's order, none after a stop, and 0 is the exit code of a complete chain
\* only (run_steps, run_one, run_impl, signal.rs, main).
THEOREM RunImplementsChain == Spec => ImplementsChain
<1>1. Init => RefineInv /\ Abstract!Init
  BY RefineInitially
<1>2. RefineInv /\ [Next]_vars => RefineInv' /\ [Abstract!Next]_(Abstract!chainVars)
  BY RefineInductive, ChainStep
<1> QED BY <1>1, <1>2, PTL DEF Spec, ImplementsChain, Abstract!Spec

-----------------------------------------------------------------------------
(* The promise of the chain.                                               *)

\* A complete chain has started its whole agenda.
ChainInv ==
  /\ Flattened \in Seq(Command) /\ Started \in Seq(Command)
  /\ Abstract!Prefix
  /\ Verdict = "complete" => Len(Started) = Len(Flattened)

LEMMA StartNextKeepsPrefix ==
  ASSUME ChainInv, Abstract!StartNext, Flattened' = Flattened, Outcome' = Outcome,
         Verdict' # "complete"
  PROVE  ChainInv'
<1>1. Len(Started) \in Nat /\ Len(Flattened) \in Nat /\ Len(Started) + 1 \in 1..Len(Flattened)
  BY LenProperties DEF ChainInv, Abstract!StartNext
<1>2. Flattened[Len(Started) + 1] \in Command
  BY <1>1, ElementOfSeq DEF ChainInv
<1>3. /\ Started' \in Seq(Command) /\ Len(Started') = Len(Started) + 1
      /\ \A n \in 1..Len(Started) : Started'[n] = Started[n]
      /\ Started'[Len(Started) + 1] = Flattened[Len(Started) + 1]
  BY <1>2, AppendProperties DEF ChainInv, Abstract!StartNext
<1>4. \A n \in 1..Len(Started') : Started'[n] = Flattened[n]
  BY <1>1, <1>3 DEF ChainInv, Abstract!Prefix
<1>5. Outcome' # "zero"
  BY DEF Abstract!StartNext
<1> QED BY <1>1, <1>3, <1>4, <1>5 DEF ChainInv, Abstract!Prefix

\* What CommandChain promises, of the chain that a run implements.
LEMMA ChainPrefix == Abstract!Spec => []Abstract!Prefix
<1>1. Abstract!Init => ChainInv
  <2> SUFFICES ASSUME Abstract!Init PROVE ChainInv
    OBVIOUS
  <2>1. Started = <<>> /\ Flattened \in Seq(Command) /\ Verdict = "open" /\ Outcome = "none"
    BY DEF Abstract!Init
  <2>2. Started \in Seq(Command) /\ Len(Started) = 0 /\ 1..Len(Started) = {}
        /\ Len(Flattened) \in Nat
    BY <2>1, EmptySeq, LenProperties
  <2> QED BY <2>1, <2>2 DEF ChainInv, Abstract!Prefix
<1>2. ChainInv /\ [Abstract!Next]_(Abstract!chainVars) => ChainInv'
  <2> SUFFICES ASSUME ChainInv, [Abstract!Next]_(Abstract!chainVars) PROVE ChainInv'
    OBVIOUS
  <2>1. CASE Abstract!Start
    BY <2>1, StartNextKeepsPrefix DEF Abstract!Start, Abstract!StartNext
  <2>2. CASE Abstract!StartFails
    BY <2>2, StartNextKeepsPrefix DEF Abstract!StartFails, Abstract!StartNext
  <2>3. CASE Abstract!Pass \/ Abstract!Stop \/ Abstract!Complete
    BY <2>3 DEF Abstract!Pass, Abstract!Stop, Abstract!Complete, ChainInv, Abstract!Prefix
  <2>4. CASE Abstract!ExitZero \/ Abstract!ExitNonzero
    BY <2>4 DEF Abstract!ExitZero, Abstract!ExitNonzero, ChainInv, Abstract!Prefix
  <2>5. CASE UNCHANGED Abstract!chainVars
    BY <2>5 DEF Abstract!chainVars, ChainInv, Abstract!Prefix
  <2> QED BY <2>1, <2>2, <2>3, <2>4, <2>5 DEF Abstract!Next
<1>3. ChainInv => Abstract!Prefix
  BY DEF ChainInv
<1> QED BY <1>1, <1>2, <1>3, PTL DEF Abstract!Spec

\* For every job, whatever signals, tools and children do: the commands started are
\* at any moment a prefix of the plan's commands for this host, in their order, and
\* the whole of it when the process has exited with 0 (run_steps, run_one, main).
THEOREM RunStartsAgenda == Spec => []Abstract!Prefix
BY RunImplementsChain, ChainPrefix, PTL DEF ImplementsChain

-----------------------------------------------------------------------------
(* A run with its two delays.                                              *)

\* The safety net is armed after the flag; it sleeps longer than the nap during
\* which a command saw the flag go up, and a command started later never naps.
TimedInv ==
  /\ nap \in 0..Poll /\ fuse \in 0..Delay
  /\ net \/ hpc = "arm" => cancel
  /\ late > 0 => pc # "sleep"
  /\ net /\ child = "running" /\ late = 0 => fuse >= Delay - Poll + nap
  /\ proc # "alive" /\ child = "running" => late > 0

\* RakeTimed adds nothing to the run but delays.
LEMMA TimedStep ==
  ASSUME [TimedNext]_timedVars
  PROVE  /\ [Next]_vars
         /\ \/ TimedMain \/ TimedHandler \/ TimedSafetyNet \/ Tick
            \/ (TimedOutside \/ UNCHANGED timedVars) /\ UNCHANGED <<nap, fuse>>
BY DEF TimedNext, timedVars, TimedMain, TimedHandler, TimedSafetyNet, TimedOutside, Outside, Tick,
  Next

\* RakeTimed only delays: a timed run is a run, so that whatever is proved of every
\* step of RakeRun holds of it as well.
THEOREM TimedRunsAreRuns == TimedSpec => Init /\ [][Next]_vars
<1>1. TimedInit => Init
  BY DEF TimedInit
<1>2. [TimedNext]_timedVars => [Next]_vars
  BY TimedStep
<1> QED BY <1>1, <1>2, PTL DEF TimedSpec

\* A child is started by Spawn only, and main acts in a live process only.
LEMMA ChildFrame ==
  ASSUME MainStep
  PROVE  Spawn \/ (late' = late /\ (child' = "running" => child = "running"))
BY DEF MainStep, Prepare, WalkPlan, EnsureTools, PickCommand, RunCommand, Conclude,
  Install, BeforeAll, BeginRun, SkipStep, EnterTarget, StepsDone, BeforeTarget, AfterTarget,
  ToolKnown, BeforeTool, SkipCommand, EnterCommand, CommandsDone, NoShellVariant, DryCommand,
  CommandToolsDone, BeforeCommand, SpawnFails, PollExited, WaitFails, PollCancelled, PollSleeps,
  Wake, Kill, AfterCommand, StopChain, ContinueChain, CheckCancelled, CheckFinished, AfterAll,
  EndRun, Exit, world, history

LEMMA ExitFrame ==
  ASSUME MainStep
  PROVE  proc = "alive" /\ (proc' = proc \/ (Exit /\ child' = child))
BY DEF MainStep, Prepare, WalkPlan, EnsureTools, PickCommand, RunCommand, Conclude,
  Install, BeforeAll, BeginRun, SkipStep, EnterTarget, StepsDone, BeforeTarget, AfterTarget,
  ToolKnown, BeforeTool, SkipCommand, EnterCommand, CommandsDone, NoShellVariant, DryCommand,
  CommandToolsDone, BeforeCommand, SpawnFails, Spawn, PollExited, WaitFails, PollCancelled,
  PollSleeps, Wake, Kill, AfterCommand, StopChain, ContinueChain, CheckCancelled, CheckFinished,
  AfterAll, EndRun, Exit, world, At

LEMMA TimedInductive ==
  ASSUME TypeInv, LateOK, TimedInv, [TimedNext]_timedVars
  PROVE  TimedInv'
<1> USE DelayAssumption DEF TypeInv, TimedInv
<1>1. [Next]_vars
  BY TimedStep
<1>2. late \in Nat /\ late' \in Nat
  BY <1>1, TypeInvInductive DEF TypeOK
<1>3. CASE TimedMain
  <2>1. /\ MainStep /\ (pc = "sleep" => nap = 0) /\ fuse' = fuse
        /\ nap' = IF pc' = "sleep" THEN Poll ELSE 0
        /\ UNCHANGED <<hpc, net, cancel>>
    BY <1>3, MainFrame DEF TimedMain
  <2>2. pc' = "sleep" => PollSleeps
    BY <2>1 DEF MainStep, Prepare, WalkPlan, EnsureTools, PickCommand, RunCommand, Conclude,
      Install, BeforeAll, BeginRun, SkipStep, EnterTarget, StepsDone, BeforeTarget, AfterTarget,
      ToolKnown, BeforeTool, SkipCommand, EnterCommand, CommandsDone, NoShellVariant, DryCommand,
      CommandToolsDone, BeforeCommand, SpawnFails, Spawn, PollExited, WaitFails, PollCancelled,
      Wake, Kill, AfterCommand, StopChain, ContinueChain, CheckCancelled, CheckFinished,
      AfterAll, EndRun, Exit, At, Goto
  <2>3. Spawn \/ (late' = late /\ (child' = "running" => child = "running"))
    BY <2>1, ChildFrame
  <2>4. proc = "alive" /\ (proc' = proc \/ (Exit /\ child' = child))
    BY <2>1, ExitFrame
  <2>5. (late > 0 => pc # "sleep")'
    BY <1>2, <2>2 DEF PollSleeps, history, LateOK, Unwinding
  <2>6. (net /\ child = "running" /\ late = 0 => fuse >= Delay - Poll + nap)'
    <3> SUFFICES ASSUME net, child' = "running", late' = 0 PROVE fuse >= Delay - Poll + nap'
      BY <2>1
    <3>1. ~Spawn
      BY <1>2, <2>1 DEF Spawn
    <3>2. pc' # "sleep"
      BY <2>2 DEF PollSleeps
    <3> QED BY <1>2, <2>1, <2>3, <3>1, <3>2
  <2>7. (proc # "alive" /\ child = "running" => late > 0)'
    BY <2>4 DEF Exit, ChildOK, InChild, At
  <2> QED BY <2>1, <2>5, <2>6, <2>7
<1>4. CASE TimedHandler
  <2>1. /\ HandlerStep /\ nap' = nap /\ fuse' = IF net' /\ ~net THEN Delay ELSE fuse
        /\ UNCHANGED <<pc, child, late>>
    BY <1>4, HandlerFrame DEF TimedHandler
  <2>4. proc' = proc /\ (net => net')
    BY <2>1 DEF HandlerStep, IgnoreSignal, HandleSignal, StoreCode, SnapshotRun, EmitCancelled,
      FlagCancel, ArmSafetyNet
  <2>2. net \in BOOLEAN /\ net' \in BOOLEAN
    BY <1>1, TypeInvInductive DEF TypeOK
  <2>3. net' \/ hpc' = "arm" => cancel'
    BY <2>1 DEF HandlerStep, IgnoreSignal, HandleSignal, StoreCode, SnapshotRun, EmitCancelled,
      FlagCancel, ArmSafetyNet, HandlerAt
  <2> QED BY <1>2, <2>1, <2>2, <2>3, <2>4
<1>5. CASE TimedSafetyNet
  <2>1. /\ UNCHANGED <<pc, child, late, nap, fuse, net, hpc, cancel>> /\ net /\ fuse = 0
    BY <1>5 DEF TimedSafetyNet, SafetyNet, mainVars, sigVars, history
  <2> QED BY <1>2, <2>1
<1>6. CASE Tick
  <2>1. /\ proc = "alive" /\ nap' = Less(nap) /\ fuse' = Less(fuse)
        /\ UNCHANGED <<pc, child, late, net, hpc, cancel, proc>>
        /\ (pc = "sleep" /\ nap > 0) \/ pc = "ensure"
    BY <1>6 DEF Tick, Due, vars, mainVars, sigVars, history
  <2>2. child = "running" => pc = "sleep"
    BY <2>1 DEF ChildOK, InChild
  <2> QED BY <1>2, <2>1, <2>2 DEF Less
<1>7. CASE (TimedOutside \/ UNCHANGED timedVars) /\ UNCHANGED <<nap, fuse>>
  <2>1. UNCHANGED <<net, hpc, cancel, late, proc>>
    BY <1>7 DEF TimedOutside, Outside, ToolReturns, ToolReady, ToolFails, ChildExits, Raise,
      timedVars, vars, mainVars, sigVars, world, history
  <2>2. (pc' = pc \/ pc' \in {"tools", "check"}) /\ (child' = child \/ child' \in ChildEnd)
    BY <1>7 DEF TimedOutside, Outside, ToolReturns, ToolReady, ToolFails, ChildExits, Raise,
      timedVars, vars, mainVars, world, Goto
  <2> QED BY <1>2, <1>7, <2>1, <2>2 DEF ChildEnd
<1> QED BY <1>3, <1>4, <1>5, <1>6, <1>7, TimedStep

LEMMA TimedInitially ==
  ASSUME TimedInit
  PROVE  TypeInv /\ LateOK /\ TimedInv
<1>1. TypeInv /\ LateOK
  BY TypeInvInitially DEF TimedInit, Init, LateOK
<1>2. TimedInv
  BY DelayAssumption DEF TimedInit, Init, TimedInv
<1> QED BY <1>1, <1>2

LEMMA TimedInvariant ==
  ASSUME TypeInv /\ LateOK /\ TimedInv, [TimedNext]_timedVars
  PROVE  (TypeInv /\ LateOK /\ TimedInv)'
BY TimedStep, TypeInvInductive, LateInductive, TimedInductive

\* A command under way when the flag goes up is never left running behind the
\* process, for any two delays with Poll < Delay (spawn_resolved's poll against the
\* safety net): only one started after the flag can be.
THEOREM NoneLeftRunning == TimedSpec => []InFlightCommandKilled
<1>1. TypeInv /\ LateOK /\ TimedInv => InFlightCommandKilled
  BY DEF TimedInv, InFlightCommandKilled
<1> QED BY <1>1, TimedInitially, TimedInvariant, PTL DEF TimedSpec

\* With a command running, the safety net never comes nearer to firing than Delay - Poll:
\* the poll of spawn_resolved sees the flag first.
THEOREM KillIsPrompt == TimedSpec => PromptKill
<1>1. TypeInv /\ LateOK /\ TimedInv /\ [TimedNext]_timedVars
        => [net /\ child = "running" /\ fuse <= Delay - Poll => UNCHANGED fuse]_timedVars
  <2> SUFFICES ASSUME TypeInv, LateOK, TimedInv, [TimedNext]_timedVars, net,
                      child = "running", fuse <= Delay - Poll
               PROVE  fuse' = fuse
    OBVIOUS
  <2>1. ~Tick
    <3> SUFFICES ASSUME Tick PROVE FALSE
      OBVIOUS
    <3>1. (pc = "sleep" /\ nap > 0) \/ pc = "ensure"
      BY DEF Tick, Due, TypeInv, TypeOK, TimedInv
    <3>2. pc = "sleep" /\ nap > 0
      BY <3>1 DEF TypeInv, ChildOK, InChild
    <3>3. late = 0
      BY <3>2 DEF TimedInv, TypeInv, TypeOK
    <3> QED BY <3>2, <3>3, DelayAssumption DEF TimedInv
  <2> QED BY <2>1, TimedStep DEF TimedMain, TimedHandler, TimedSafetyNet
<1> QED BY <1>1, TimedInitially, TimedInvariant, PTL DEF TimedSpec, PromptKill
=============================================================================
