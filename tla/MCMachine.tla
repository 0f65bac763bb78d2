------------------------------ MODULE MCMachine ------------------------------
(***************************************************************************)
(* A machine where commands work on the license, one without a hostname,    *)
(* where three runs look for a client id, and one without a config          *)
(* directory, where runs need tools.                                       *)
(***************************************************************************)
EXTENDS Machine

MCCommand(kind, key, env, tty, yes, tools) ==
  [kind |-> kind, key |-> key, env |-> env, tty |-> tty, yes |-> yes, tools |-> tools]

MCWorks == {<<>>, <<"matrix">>, <<"jq", "matrix">>, <<"git", "z">>}
MCForFirst == {<<"jq", "matrix">>, <<"git", "z">>}
MCCommands ==
  {MCCommand("run", "none", env, FALSE, FALSE, <<>>) : env \in {"unset", "k1", "forged"}}
  \cup {MCCommand("run", "none", "unset", FALSE, FALSE, tools) : tools \in MCWorks}
  \cup {MCCommand(kind, "none", "unset", FALSE, FALSE, <<>>) : kind \in {"dry", "list"}}
  \cup {MCCommand("status", "none", env, FALSE, FALSE, <<>>) : env \in {"unset", "forged"}}
  \cup {MCCommand("activate", key, "unset", FALSE, FALSE, <<>>) : key \in {"k1", "k2", "forged"}}
  \cup {MCCommand("remove", "none", "unset", tty, yes, <<>>) : tty \in BOOLEAN, yes \in BOOLEAN}

MCTool(category, update, install) == [category |-> category, update |-> update, install |-> install]
MCDeclared == [matrix |-> MCTool("cargo", TRUE, TRUE), jq |-> MCTool("os", FALSE, TRUE),
               git |-> MCTool("os", FALSE, FALSE), z |-> MCTool("fish", FALSE, FALSE)]
MCBehaves(installer, speaks) == [installer |-> installer, speaks |-> speaks]
MCNature ==
  {[matrix |-> m, jq |-> MCBehaves(jq, FALSE), git |-> MCBehaves("idle", FALSE),
    z |-> MCBehaves("idle", FALSE)] :
     m \in {MCBehaves("newest", TRUE)}, jq \in {"newest", "idle"}}
  \cup
  {[matrix |-> m, jq |-> MCBehaves("idle", FALSE), git |-> MCBehaves("idle", FALSE),
    z |-> MCBehaves("idle", FALSE)] :
     m \in {MCBehaves("newest", FALSE), MCBehaves("pinned", TRUE), MCBehaves("idle", TRUE)}}

\* What the machine is used for.
Licensing == home /\ named
Naming == home /\ ~named
Ensuring == ~home

Standing == [stable |-> 1, newest |-> 1]

MCInit ==
  /\ Init
  /\ Licensing => files["client_id"] = "absent" /\ files["license"] # "k2"
  /\ Naming => files["license"] = "absent"
  /\ home => /\ installed = [t \in Tool |-> 1] /\ registry = [t \in Tool |-> Standing]
             /\ nature = CHOOSE n \in MCNature : TRUE
  /\ Ensuring => named
  /\ Ensuring => \A t \in {"git", "z"} : installed[t] = installed["jq"]
  /\ Ensuring => \A t \in Tool \ {"matrix"} : registry[t] = Standing

InScenario(c) ==
  IF Licensing THEN c.tools = <<>> /\ c.kind # "dry"
  ELSE c.kind \in {"run", "dry"} /\ c.env = "unset" /\ (Naming <=> c.tools = <<>>)

Scenario ==
  /\ \A p \in Proc : command'[p] # command[p] =>
       InScenario(command'[p]) /\ (p = "p1" \/ Naming \/ (p \in Run /\ command'[p].tools \notin MCForFirst))
  /\ home => UNCHANGED machine
  /\ ~Licensing => UNCHANGED expired
  /\ \A t \in Tool \ {"matrix"} :
       registry'[t] = registry[t] /\ (meddled' # meddled => installed'[t] = installed[t])

MCNext == Next /\ Scenario
MCSpec == MCInit /\ [][MCNext]_vars /\ Fairness
=============================================================================
