----------------------------- MODULE MCRakeRun -----------------------------
(***************************************************************************)
(* Small jobs for TLC.  `chain` is one of the plans the planner of graph.rs *)
(* makes: a dependency, a skipped target and a root, with a tool needed    *)
(* twice, a platform-gated command and a tolerated one.  `twice` runs a     *)
(* shared target once per root.  The others vary one setting each.         *)
(***************************************************************************)
EXTENDS RakeRun

MCTarget == {"lib", "docs", "app"}
MCCommand == {"build", "gate", "flaky", "test"}
MCTool == {"cross", "lint"}
MCSignal == {"SIGINT", "SIGTERM"}

Do(t) == [kind |-> "Run", target |-> t]
Omit(t) == [kind |-> "Skip", target |-> t]

chain ==
  [plan |-> <<Do("lib"), Omit("docs"), Do("app")>>,
   targetTools |-> [lib |-> <<"cross">>, docs |-> <<>>, app |-> <<"cross", "lint">>],
   commandTools |-> [build |-> <<>>, gate |-> <<"lint">>, flaky |-> <<>>,
                     test |-> <<"lint">>],
   commands |-> [lib |-> <<"build">>, docs |-> <<>>, app |-> <<"gate", "flaky", "test">>],
   silent |-> {}, untracked |-> {"app"}, offHost |-> {"gate"}, noVariant |-> {},
   tolerant |-> {"flaky"}, lifecycle |-> TRUE, licensed |-> TRUE, dryRun |-> FALSE]

twice ==
  [chain EXCEPT !.plan = <<Do("lib"), Do("docs"), Do("lib"), Do("app")>>,
                !.commands = [lib |-> <<"build">>, docs |-> <<"flaky">>,
                              app |-> <<"test">>]]

dry == [chain EXCEPT !.dryRun = TRUE]
quiet == [chain EXCEPT !.silent = {"lib", "docs"}]
unlicensed == [chain EXCEPT !.licensed = FALSE]
shell == [chain EXCEPT !.noVariant = {"test"}]
aggregate == [chain EXCEPT !.plan = <<Do("docs")>>]

\* Two commands and a tool: small enough for two signals racing.
brief ==
  [chain EXCEPT !.plan = <<Do("app")>>,
                !.targetTools = [lib |-> <<>>, docs |-> <<>>, app |-> <<"cross">>],
                !.commands = [lib |-> <<>>, docs |-> <<>>, app |-> <<"build", "flaky">>]]

MCJobs == {chain, twice, dry, quiet, unlicensed, shell, aggregate}
MCBrief == {brief}
=============================================================================
