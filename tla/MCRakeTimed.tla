---------------------------- MODULE MCRakeTimed ----------------------------
(***************************************************************************)
(* One target with a tool and two commands, polled every tick or every     *)
(* second tick against a safety net of a few polls (the code's ratio is    *)
(* ten; what matters is which of the two comes first).                     *)
(***************************************************************************)
EXTENDS RakeTimed

MCTarget == {"app"}
MCCommand == {"build", "flaky"}
MCTool == {"cross"}

timed ==
  [plan |-> <<[kind |-> "Run", target |-> "app"]>>,
   targetTools |-> [app |-> <<>>],
   commandTools |-> [build |-> <<>>, flaky |-> <<"cross">>],
   commands |-> [app |-> <<"build", "flaky">>],
   silent |-> {}, untracked |-> {}, offHost |-> {}, noVariant |-> {},
   tolerant |-> {"flaky"}, lifecycle |-> FALSE, licensed |-> FALSE, dryRun |-> FALSE]

MCJobs == {timed}
=============================================================================
