---------------------------- MODULE CommandChain ----------------------------
(***************************************************************************)
(* What a run promises to whoever called it, with no threads, no indexes   *)
(* and no events: the commands of an agenda are started in order, one at a  *)
(* time; once the chain is stopped nothing more is started; and the process *)
(* exits with 0 only if the whole agenda passed.  README.md "Execution".   *)
(***************************************************************************)
EXTENDS Sequences, Naturals

CONSTANT Work  \* commands

VARIABLES
  agenda,   \* the commands the run is to perform
  started,  \* those started so far
  busy,     \* the last one started is still running
  verdict,  \* "open" | "complete" | "stopped"
  exit      \* "none" | "zero" | "nonzero"

chainVars == <<agenda, started, busy, verdict, exit>>

Init ==
  /\ agenda \in Seq(Work) /\ started = <<>> /\ busy = FALSE
  /\ verdict = "open" /\ exit = "none"

StartNext ==
  /\ verdict = "open" /\ ~busy /\ Len(started) < Len(agenda) /\ exit = "none"
  /\ started' = Append(started, agenda[Len(started) + 1])

Start == StartNext /\ busy' = TRUE /\ UNCHANGED <<agenda, verdict, exit>>

\* The command could not be launched.
StartFails ==
  StartNext /\ verdict' = "stopped" /\ UNCHANGED <<agenda, busy, exit>>

Pass == busy /\ exit = "none" /\ busy' = FALSE
        /\ UNCHANGED <<agenda, started, verdict, exit>>

\* A failure, or whatever else ends the chain early: a cancellation, an error.
Stop ==
  /\ exit = "none" /\ verdict # "stopped"
  /\ verdict' = "stopped" /\ busy' = FALSE
  /\ UNCHANGED <<agenda, started, exit>>

Complete ==
  /\ verdict = "open" /\ ~busy /\ Len(started) = Len(agenda) /\ exit = "none"
  /\ verdict' = "complete" /\ UNCHANGED <<agenda, started, busy, exit>>

ExitZero ==
  /\ exit = "none" /\ verdict = "complete" /\ exit' = "zero"
  /\ UNCHANGED <<agenda, started, busy, verdict>>

\* At any moment: the safety net, and the code of a tolerated last failure.
ExitNonzero ==
  /\ exit = "none" /\ exit' = "nonzero"
  /\ UNCHANGED <<agenda, started, busy, verdict>>

Next == Start \/ StartFails \/ Pass \/ Stop \/ Complete \/ ExitZero \/ ExitNonzero

Spec == Init /\ [][Next]_chainVars

\* Started commands are always a prefix of the agenda, the whole of it at exit 0.
Prefix ==
  /\ Len(started) <= Len(agenda)
  /\ \A n \in 1..Len(started) : started[n] = agenda[n]
  /\ exit = "zero" => Len(started) = Len(agenda)
=============================================================================
