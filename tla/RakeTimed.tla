----------------------------- MODULE RakeTimed -----------------------------
(***************************************************************************)
(* RakeRun with the two delays of the code: spawn_resolved sleeps Poll     *)
(* between two looks at its child (POLL_INTERVAL, 30 ms) and the safety net *)
(* sleeps Delay before it exits the process (SAFETY_NET_DELAY, 300 ms).    *)
(*                                                                         *)
(* The module idealises the scheduler: what a thread can do it does at     *)
(* once, and time passes only while main sleeps or waits for a tool and    *)
(* the signal thread is idle.  Both delays are far above a thread switch,  *)
(* so this is the normal case; RakeRun covers every other timing.          *)
(***************************************************************************)
EXTENDS RakeRun

CONSTANTS Poll, Delay

ASSUME DelayAssumption == Poll \in Nat \ {0} /\ Delay \in Nat /\ Poll < Delay

VARIABLES
  nap,   \* what is left of main's sleep
  fuse   \* what is left of the safety net's

timedVars == <<vars, nap, fuse>>

TimedInit == Init /\ nap = 0 /\ fuse = 0

\* main, which starts to sleep in PollSleeps and wakes up when its nap is over.
TimedMain ==
  /\ MainStep /\ (pc = "sleep" => nap = 0)
  /\ nap' = IF pc' = "sleep" THEN Poll ELSE 0
  /\ UNCHANGED fuse

\* Fault: the safety net does not sleep.
TimedHandlerNoDelay == HandlerStep /\ UNCHANGED <<nap, fuse>>

TimedHandler ==
  /\ HandlerStep
  /\ fuse' = IF net' /\ ~net THEN Delay ELSE fuse
  /\ UNCHANGED nap

TimedSafetyNet == SafetyNet /\ fuse = 0 /\ UNCHANGED <<nap, fuse>>

Outside == ToolReturns \/ ChildExits \/ \E s \in Signal : Raise(s)
TimedOutside == Outside /\ UNCHANGED <<nap, fuse>>

Due ==
  \/ pc \notin {"sleep", "ensure"} \/ (pc = "sleep" /\ nap = 0)
  \/ hpc # "idle" \/ pending # {}
  \/ (net /\ fuse = 0)

Less(n) == IF n = 0 THEN 0 ELSE n - 1

Tick ==
  /\ proc = "alive" /\ ~Due /\ (nap > 0 \/ fuse > 0)
  /\ nap' = Less(nap) /\ fuse' = Less(fuse)
  /\ UNCHANGED vars

TimedNext == TimedMain \/ TimedHandler \/ TimedSafetyNet \/ TimedOutside \/ Tick

TimedSpec ==
  /\ TimedInit /\ [][TimedNext]_timedVars
  /\ WF_timedVars(TimedMain) /\ WF_timedVars(TimedHandler)
  /\ WF_timedVars(TimedSafetyNet) /\ WF_timedVars(Tick)

-----------------------------------------------------------------------------

\* A command that was under way when the flag went up is never left running
\* behind the process, whichever thread ended it.
InFlightCommandKilled == proc # "alive" /\ child = "running" => late > 0

\* A command is killed within one poll interval of the safety net being armed:
\* time never passes with a command running later than that.
PromptKill ==
  [][net /\ child = "running" /\ fuse <= Delay - Poll => UNCHANGED fuse]_timedVars

\* signal.rs: the in-flight child command (if any) is killed before the process
\* exits.  The runs refute it for a command started after the flag went up.
NoCommandLeftRunning == proc # "alive" => child # "running"
=============================================================================
