---------------------------- MODULE RakeRunChain ----------------------------
(***************************************************************************)
(* RakeRun implements CommandChain.  The agenda is the plan flattened to    *)
(* its runnable commands; a dry run has an empty one.  The chain is         *)
(* stopped as soon as the failure is known (AfterCommand), the flag is seen *)
(* (StopChain, CheckCancelled) or an error is on its way up.               *)
(***************************************************************************)
EXTENDS RakeRun

\* Of the first k commands of step i, those this host runs.
OnHost(i, k) ==
  LET kept[n \in 0..Len(CommandsAt(i))] ==
        IF n = 0 THEN <<>>
        ELSE IF CommandsAt(i)[n] \in job.offHost THEN kept[n - 1]
        ELSE Append(kept[n - 1], CommandsAt(i)[n])
  IN  kept[k]

\* The commands of the first i steps.
Through[i \in 0..Len(Plan)] ==
  IF i = 0 THEN <<>>
  ELSE Through[i - 1] \o IF Runs(i) THEN OnHost(i, Len(CommandsAt(i))) ELSE <<>>

Flattened == IF job.dryRun THEN <<>> ELSE Through[Len(Plan)]
Started == [n \in 1..Len(ran) |-> CommandOf(ran[n])]

Ended(n) == ran[n].end # "running"
Running == ran # <<>> /\ ~Ended(Len(ran))
Busy == Running /\ result = "ok"

Stopped ==
  \/ stop \/ result # "ok"
  \/ \E n \in 1..Len(ran) : Ended(n) /\ ~Passed(ran[n])
Verdict ==
  IF Stopped THEN "stopped"
  ELSE IF pc \in {"check", "afterAll", "end", "exit", "done"} THEN "complete" ELSE "open"

Outcome == CASE proc = "alive" -> "none" [] proc = "ok" -> "zero" [] OTHER -> "nonzero"

Abstract == INSTANCE CommandChain WITH
  Work <- Command, agenda <- Flattened, started <- Started,
  busy <- Busy, verdict <- Verdict, exit <- Outcome

\* Every step of the run is a step of the abstract chain or none at all.
ImplementsChain == Abstract!Spec
=============================================================================
