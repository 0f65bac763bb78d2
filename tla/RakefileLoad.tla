---------------------------- MODULE RakefileLoad ----------------------------
(***************************************************************************)
(* Rakefile::from_path to the first command: read the file and the personal *)
(* layer, merge them, resolve the variants for this host, deserialise, then *)
(* validate, with graph::validate (GraphCheck) between the targets' own     *)
(* rules and the tools', and finally what a run makes of each command.      *)
(* Nothing runs beside it: `phase` says how far the loader is.              *)
(***************************************************************************)
EXTENDS GraphCheck, LocalConfig, Shell

CONSTANT Inputs \* what the machine holds: [base, local, host, user]

\* What a leaf of the kinds the loader tells apart holds.
Content ==
  [commands |-> Seq(CommandType), names |-> Seq(STRING),
   dependencies |-> Seq([skip : BOOLEAN, to : STRING]), addresses |-> Seq(STRING)]

LeafOK(v) == \A kind \in DOMAIN Content \cap DOMAIN v : v[kind] \in Content[kind]

\* A table has each of its keys once.
TableOK(v) ==
  IsTable(v) =>
    /\ v = Table(v.keys, v.at) /\ v.keys \in Seq(STRING)
    /\ v.at = [k \in Elements(v.keys) |-> v.at[k]]
    /\ \A m, n \in 1..Len(v.keys) : v.keys[m] = v.keys[n] => m = n

\* What a file parses into; Depth leaves nothing out.
DocumentOK(v) ==
  /\ IsTable(v)
  /\ \A path \in Paths(v) :
       /\ TableOK(At(v, path)) /\ LeafOK(At(v, path))
       /\ Len(path) = Depth => Keys(At(v, path)) = {}

FileOK(file, absent) ==
  /\ file.is \in {"toml", "unreadable", "malformed"} \cup absent
  /\ file.is = "toml" => DocumentOK(file.value)

InputOK(in) ==
  /\ FileOK(in.base, {}) /\ FileOK(in.local, {"absent"})
  /\ in.host \in Hosts /\ in.user.nest \in Seq(STRING)

ASSUME DepthAssumption == Depth \in Nat
ASSUME InputsAssumption == \A in \in Inputs : InputOK(in)

VARIABLES
  base, local,  \* the two files: [is, value]
  host, user,   \* the platform; the shells around the process
  doc,          \* the TOML value of both
  resolved,     \* its [target] table, variants being replaced one by one
  targets,      \* the typed targets
  fates         \* what a run makes of every command

inputs == <<base, local, host, user>>
loaded == <<doc, resolved, targets, fates>>
search == <<visited, stack, cycle>>
vars == <<graphVars, inputs, loaded>>

Env == EnvironmentOf(user.rakeShell, host.os = "windows", user.login, user.nest,
                     user.pwshOnPath)

Init ==
  /\ GraphInit
  /\ \E in \in Inputs : base = in.base /\ local = in.local /\ host = in.host /\ user = in.user
  /\ doc = EmptyTable /\ resolved = EmptyTable /\ targets = <<>> /\ fates = <<>>

\* The `?` of every step: the first error ends the load.
Outcome(error, next) ==
  IF error = "none" THEN phase' = next /\ UNCHANGED verdict
  ELSE verdict' = error /\ phase' = "done"

First(errors) ==
  LET found == {n \in DOMAIN errors : errors[n] # "none"}
  IN IF found = {} THEN "none" ELSE errors[CHOOSE n \in found : \A m \in found : n <= m]

FirstIn(seq, Error(_)) == First([n \in 1..Len(seq) |-> Error(seq[n])])

If(condition, error) == IF condition THEN error ELSE "none"

\* The fields of a target and what kind of leaf each is.
Kind == [command |-> "commands", depends_on |-> "dependencies", tools |-> "names",
         events |-> "flag", time_tracking |-> "flag"]

Part(key) == IF key \in DOMAIN doc.at THEN doc.at[key] ELSE EmptyTable
Field(table, key, default) ==
  IF key \in DOMAIN table.at THEN table.at[key][Kind[key]] ELSE default

-----------------------------------------------------------------------------
(* The files.                                                              *)

FileError(file) ==
  IF file.is = "unreadable" THEN "Io" ELSE IF file.is = "malformed" THEN "Parse" ELSE "none"

ReadRakefile ==
  /\ phase = "read" /\ Outcome(FileError(base), "local")
  /\ doc' = IF base.is = "toml" THEN base.value ELSE doc
  /\ UNCHANGED <<inputs, graph, pos, search, resolved, targets, fates>>

\* No .rake/config.toml is no error.
ReadLocal ==
  /\ phase = "local" /\ Outcome(FileError(local), "variants")
  /\ doc' = IF local.is = "toml" THEN Merge(doc, local.value) ELSE doc
  /\ resolved' = IF "target" \in DOMAIN doc'.at THEN doc'.at["target"] ELSE EmptyTable
  /\ UNCHANGED <<inputs, graph, pos, search, targets, fates>>

-----------------------------------------------------------------------------
(* resolve_platform_variants, one target of the file at a time.             *)

BaseKeys == {"command", "depends_on", "tools", "events", "time_tracking"}
VariantKeys == KnownOs \cup KnownFamily
Variants(value) == VariantKeys \cap Keys(value)
Understood(value) == Keys(value) \subseteq BaseKeys \cup VariantKeys
Base(table) ==
  Table(Only(table.keys, BaseKeys),
        [k \in BaseKeys \cap DOMAIN table.at |-> table.at[k]])

\* The loop runs over the names as they were before any was removed.
Names == IF IsTable(Part("target")) THEN Part("target").keys ELSE <<>>
Current == Part("target").at[Names[pos]]

\* Fault: the family beats the OS.
MatchFamilyFirst(table) ==
  IF host.family \in Variants(table) THEN {host.family} ELSE {host.os} \cap Variants(table)

Match(table) ==
  IF host.os \in Variants(table) THEN {host.os} ELSE {host.family} \cap Variants(table)

Replace(value) ==
  /\ resolved' = [resolved EXCEPT !.at[Names[pos]] = value]
  /\ UNCHANGED graph

\* Only variants, none of them for this host.
Exclude(name) ==
  /\ resolved' = Table(Only(resolved.keys, DOMAIN resolved.at \ {name}),
                       [k \in DOMAIN resolved.at \ {name} |-> resolved.at[k]])
  /\ graph' = [graph EXCEPT !.excluded = @ \cup {name}]

ResolveTarget ==
  /\ phase = "variants" /\ pos <= Len(Names) /\ pos' = pos + 1
  /\ Understood(Current)
  /\ IF Variants(Current) = {} THEN UNCHANGED <<resolved, graph>>
     ELSE IF Match(Current) # {}
       THEN Replace(Current.at[CHOOSE k \in Match(Current) : TRUE])
     ELSE IF Base(Current).keys # <<>> THEN Replace(Base(Current))
     ELSE Exclude(Names[pos])
  /\ UNCHANGED <<inputs, phase, verdict, search, doc, targets, fates>>

RefuseVariant ==
  /\ phase = "variants" /\ pos <= Len(Names) /\ ~Understood(Current)
  /\ Outcome("InvalidPlatformVariant", "done")
  /\ UNCHANGED <<inputs, graph, pos, search, loaded>>

VariantsDone ==
  /\ phase = "variants" /\ pos > Len(Names) /\ phase' = "parse" /\ pos' = 1
  /\ UNCHANGED <<inputs, graph, verdict, search, loaded>>

-----------------------------------------------------------------------------
(* Deserialisation, with normalize_depends_on: `^name` is a skip, and a     *)
(* bare `^` is nothing.                                                    *)

Is(value, kind) == kind \in DOMAIN value
AllAre(table, kind) == \A k \in DOMAIN table.at : Is(table.at[k], kind)

\* Keys a variant table has besides these are nobody's business.
TypedTarget(value) ==
  /\ IsTable(value)
  /\ \A k \in DOMAIN Kind \cap DOMAIN value.at : Is(value.at[k], Kind[k])

Categories == {"cargo", "os", "fish"}
Category(category) ==
  IF category \in DOMAIN Part("tool").at THEN Part("tool").at[category] ELSE EmptyTable

Typed ==
  /\ IsTable(resolved) /\ \A t \in DOMAIN resolved.at : TypedTarget(resolved.at[t])
  /\ IsTable(Part("tool"))
  /\ \A category \in Categories :
       IsTable(Category(category)) /\ AllAre(Category(category), category)
  /\ "toolchain" \in DOMAIN doc.at => Is(Part("toolchain"), "text")
  /\ "lifecycle" \in DOMAIN doc.at =>
       /\ IsTable(Part("lifecycle")) /\ "address" \in DOMAIN Part("lifecycle").at
       /\ Is(Part("lifecycle").at["address"], "addresses")

Dependencies(value, skip) ==
  LET raw == Field(value, "depends_on", <<>>)
      listed == Only(raw, {d \in Elements(raw) : d.skip = skip /\ d.to # "none"})
  IN [n \in 1..Len(listed) |-> listed[n].to]

Parse ==
  /\ phase = "parse" /\ Outcome(If(~Typed, "Parse"), "header")
  /\ targets' = IF ~Typed THEN targets
                ELSE [t \in DOMAIN resolved.at |->
                        [commands |-> Field(resolved.at[t], "command", <<>>),
                         raw |-> Field(resolved.at[t], "depends_on", <<>>),
                         tools |-> Field(resolved.at[t], "tools", <<>>)]]
  /\ graph' = IF ~Typed THEN graph
              ELSE [graph EXCEPT
                      !.declared = resolved.keys,
                      !.dependsOn = [t \in DOMAIN resolved.at |->
                                       Dependencies(resolved.at[t], FALSE)],
                      !.skipDeps = [t \in DOMAIN resolved.at |->
                                      Dependencies(resolved.at[t], TRUE)]]
  /\ UNCHANGED <<inputs, pos, search, doc, resolved, fates>>

-----------------------------------------------------------------------------
(* Rakefile::validate.                                                     *)

Addresses == Part("lifecycle").at["address"].addresses

HeaderErrors ==
  <<If("toolchain" \in DOMAIN doc.at /\ Part("toolchain").text = "blank", "InvalidToolchain"),
    If("lifecycle" \in DOMAIN doc.at /\ Addresses = <<>>, "EmptyLifecycleAddresses"),
    If("lifecycle" \in DOMAIN doc.at /\ "bad" \in Elements(Addresses), "InvalidLifecycleAddress")>>

CheckHeader ==
  /\ phase = "header" /\ Outcome(First(HeaderErrors), "targets")
  /\ UNCHANGED <<inputs, graph, pos, search, loaded>>

\* Fault: a skip counts as something to do.
EmptyAsWritten(t) == targets[t].commands = <<>> /\ targets[t].raw = <<>>
Empty(t) == targets[t].commands = <<>> /\ Deps(t) = <<>>

CommandError(cs, n) ==
  LET repeated == \E m \in 1..(n - 1) : cs[m].name = cs[n].name
  IN First(<<First(CommandErrors(cs[n])), If(repeated, "DuplicateCommand")>>)

TargetError(t) ==
  LET cs == targets[t].commands
  IN IF Empty(t) THEN "EmptyTarget" ELSE First([n \in 1..Len(cs) |-> CommandError(cs, n)])

CheckTarget ==
  /\ phase = "targets" /\ pos <= Len(graph.declared)
  /\ Outcome(TargetError(graph.declared[pos]), phase) /\ pos' = pos + 1
  /\ UNCHANGED <<inputs, graph, search, loaded>>

TargetsDone ==
  /\ phase = "targets" /\ pos > Len(graph.declared)
  /\ phase' = "references" /\ pos' = 1
  /\ UNCHANGED <<inputs, graph, verdict, search, loaded>>

InGraph == CheckGraph /\ UNCHANGED <<inputs, loaded>>

-----------------------------------------------------------------------------
(* tool::validate: the three categories share one namespace.                *)

Tools(category) == DOMAIN Category(category).at
Tool(category, name) == Category(category).at[name][category]
AllTools == UNION {Tools(category) : category \in Categories}

CargoError(name) ==
  LET tool == Tool("cargo", name)
  IN First(<<If(~tool.check \/ ~tool.install, "EmptyToolCommand"),
             If(tool.update /\ ~tool.crate, "ToolUpdateMissingCrate")>>)

\* Fault: an os tool may have the name of a cargo tool.
OsErrorAlone(name) == If(~Tool("os", name).check, "EmptyToolCommand")

OsError(name) ==
  First(<<If(~Tool("os", name).check, "EmptyToolCommand"),
          If(name \in Tools("cargo") \cup Tools("fish"), "DuplicateTool")>>)

FishError(name) == If(name \in Tools("cargo") \cup Tools("os"), "DuplicateTool")

TargetToolError(t) == If(~(Elements(targets[t].tools) \subseteq AllTools), "UnknownTool")

CommandToolError(t, c) ==
  LET Error(tool) ==
        IF tool \notin AllTools THEN "UnknownCommandTool"
        ELSE If(tool \in Elements(targets[t].tools), "ToolDeclaredAtBothLevels")
  IN FirstIn(c.tools, Error)

CommandToolsError(t) ==
  LET Error(c) == CommandToolError(t, c) IN FirstIn(targets[t].commands, Error)

ToolError ==
  First(<<FirstIn(Category("cargo").keys, CargoError), FirstIn(Category("os").keys, OsError),
          FirstIn(Category("fish").keys, FishError), FirstIn(graph.declared, TargetToolError),
          FirstIn(graph.declared, CommandToolsError)>>)

RefuseTools ==
  /\ phase = "tools" /\ ToolError # "none"
  /\ Outcome(ToolError, "done")
  /\ UNCHANGED <<inputs, graph, pos, search, loaded>>

AcceptRakefile ==
  /\ phase = "tools" /\ ToolError = "none"
  /\ verdict' = "valid" /\ phase' = "ready"
  /\ UNCHANGED <<inputs, graph, pos, search, loaded>>

-----------------------------------------------------------------------------
(* `run`: shell family and host are taken once for the whole run.           *)

RunCommands ==
  /\ phase = "ready" /\ phase' = "done"
  /\ fates' = [t \in Known |->
                 [n \in 1..Len(targets[t].commands) |->
                    Fate(targets[t].commands[n], host, DetectFamily(Env), Env)]]
  /\ UNCHANGED <<inputs, graph, verdict, pos, search, doc, resolved, targets>>

Next ==
  \/ ReadRakefile \/ ReadLocal \/ ResolveTarget \/ RefuseVariant \/ VariantsDone
  \/ Parse \/ CheckHeader \/ CheckTarget \/ TargetsDone \/ InGraph
  \/ RefuseTools \/ AcceptRakefile \/ RunCommands

Spec == Init /\ [][Next]_vars /\ WF_vars(Next)

-----------------------------------------------------------------------------
(* Properties.                                                             *)

Accepted == phase = "done" /\ verdict = "valid"

\* The personal layer changes what it mentions and nothing else: at every path the
\* merged file says what .rake/config.toml says there, and where that is silent,
\* what the Rakefile says (local_config::merge against RFC 7386).
MergeIsPatch ==
  phase = "variants" /\ pos = 1 =>
    IF local.is = "toml" THEN IsMergePatch(base.value, local.value, doc)
    ELSE doc = base.value

\* Every target of the file is, on this host, loaded or set aside, and not both.
\* One that has a variant for the host's OS is that variant, and nothing of it is
\* left when neither OS nor family match; one that is set aside has no word for
\* this host, but has for another.
VariantsPartition ==
  phase = "header" => \A t \in Elements(Names) :
    LET table == Part("target").at[t]
        here == t \in DOMAIN resolved.at
        about(h) == {h.os, h.family} \cap DOMAIN table.at
    IN /\ here # (t \in graph.excluded)
       /\ host.os \in Variants(table) => here /\ resolved.at[t] = table.at[host.os]
       /\ about(host) = {} /\ here =>
            resolved.at[t] = Base(table) /\ DOMAIN resolved.at[t].at = DOMAIN table.at \ VariantKeys
       /\ ~here => /\ about(host) = {} /\ DOMAIN table.at \cap BaseKeys = {}
                   /\ \E h \in Hosts : about(h) # {}

\* What validation accepts, the run can rely on: a command that is not for this
\* shell is for another one, and there is a host it is for; and a tool that is named
\* is found in one category, with commands to run and, if it is to be updated, a
\* crate to ask for, so that ToolTable::ensure does not pass over it in silence.
AcceptedRuns ==
  Accepted => \A t \in Known : \A n \in 1..Len(targets[t].commands) :
    LET c == targets[t].commands[n]
        named == Elements(targets[t].tools) \cup Elements(c.tools)
    IN /\ fates[t][n] = "MissingShellVariant" =>
            \E family \in Family : Invocation(c, family, Env) # <<>>
       /\ \E h \in Hosts : ~Skipped(c, h)
       /\ \A name \in named : \E category \in Categories :
            /\ name \in Tools(category)
            /\ \A other \in Categories \ {category} : name \notin Tools(other)
            /\ category # "fish" => Tool(category, name).check
            /\ category = "cargo" =>
                 /\ Tool("cargo", name).install
                 /\ Tool("cargo", name).update => Tool("cargo", name).crate

\* The least set that holds t and the dependencies of whatever it holds.
Reach(t) ==
  CHOOSE S \in SUBSET (Known \cup graph.excluded) :
    LET closed(T) == t \in T /\ \A u \in T : Elements(Deps(u)) \subseteq T
    IN closed(S) /\ \A T \in SUBSET (Known \cup graph.excluded) : closed(T) => S \subseteq T

\* No accepted target is hollow: its dependencies lead to a command, unless they
\* lead to a target set aside on this host.
NoHollowTarget ==
  Accepted => \A t \in Known :
    \E u \in Reach(t) : u \in graph.excluded \/ targets[u].commands # <<>>

\* Without RAKE_SHELL the shell family is that of a shell that is around: of one
\* of those the user has started, of the login shell, or the platform's own if
\* there is no login shell.  pwsh anywhere, and else fish if there is no PowerShell
\* at all, is recognised.
ShellIsAround ==
  Accepted /\ user.rakeShell = "none" =>
    LET started == {Classify(user.nest[n]) : n \in 1..Len(user.nest)}
        outer == IF user.login # "none" THEN Classify(user.login)
                 ELSE IF host.os = "windows" THEN "ps" ELSE "posix"
        found == DetectFamily(Env)
    IN /\ found \in started \cup {outer}
       /\ "pwsh" \in Elements(user.nest) => found = "ps"
       /\ "fish" \in started /\ "ps" \notin started => found = "fish"

\* Loading ends on every input.
LoadingEnds == <>(phase = "done")
=============================================================================
