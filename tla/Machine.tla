------------------------------- MODULE Machine -------------------------------
(***************************************************************************)
(* One machine: commands of several terminals over the user's files, and    *)
(* runs that go on, once licensed and named, to the tools of their targets. *)
(***************************************************************************)
EXTENDS UserFiles, Tools

ASSUME MachineAssumption ==
  /\ Run \subseteq Proc
  /\ \A c \in Commands : c.kind = "run" => c.tools \in Works

vars == <<fileVars, toolVars>>

Init == FilesInit /\ ToolsInit

TypeCommand(p, c) == Type(p, c) /\ UNCHANGED toolVars
InFiles(p) == CommandStep(p) /\ UNCHANGED toolVars

\* The first target's tools come after the BeforeAll event.
ReachTools(p) ==
  /\ doing[p] = "identified" /\ command[p].kind = "run"
  /\ StartTools(p, command[p].tools) /\ UNCHANGED fileVars

InTools(p) == EnsureStep(p) /\ UNCHANGED fileVars
Installs(p) == InstallerStep(p) /\ UNCHANGED fileVars

World ==
  \/ ToolWorld /\ UNCHANGED fileVars
  \/ \E key \in Key : Expire(key) /\ UNCHANGED toolVars

Next ==
  \/ \E p \in Proc, c \in Commands : TypeCommand(p, c)
  \/ \E p \in Proc : InFiles(p)
  \/ \E p \in Run : ReachTools(p) \/ InTools(p) \/ Installs(p)
  \/ \E p \in Proc : KillCommand(p) /\ UNCHANGED toolVars
  \/ \E p \in Run : KillRun(p) /\ UNCHANGED fileVars
  \/ World

\* The system runs every process.  Nothing makes users type or answer the prompt of a
\* removal, nor a check command, crates.io or an installer return: run waits for
\* these without a timeout.
Fairness ==
  /\ \A p \in Proc : WF_vars(InFiles(p) /\ doing[p] # "prompt")
  /\ \A p \in Run : WF_vars(ReachTools(p) \/ (ToolOwnStep(p) /\ UNCHANGED fileVars))

Spec == Init /\ [][Next]_vars /\ Fairness

-----------------------------------------------------------------------------

\* No part of Spec: what a run calls for its tools comes back.
ToolCallsReturn(p) ==
  /\ WF_vars(CheckReturns(p) /\ UNCHANGED fileVars)
  /\ WF_vars(LookupReturns(p) /\ UNCHANGED fileVars)
  /\ WF_vars(Installs(p))

\* A run whose check commands, lookups and installers all return comes through its
\* tools, whatever other runs, their installers, new releases and the user do to them
\* meanwhile: no tool is gone back to.  One that never returns holds the run for ever.
EnsuringEnds ==
  \A p \in Run : ToolCallsReturn(p) => (at[p] = "probe" ~> at[p] \in Ended)
=============================================================================
