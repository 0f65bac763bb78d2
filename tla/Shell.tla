-------------------------------- MODULE Shell --------------------------------
(***************************************************************************)
(* How rakefile.rs chooses what a command runs: the host decides whether it *)
(* runs at all, the shell family which of its bodies, and the family is     *)
(* read off the environment the user's shells have left.  An optional value *)
(* is a sequence of at most one element.                                   *)
(***************************************************************************)
EXTENDS Naturals, Sequences

\* Bound: of the tokens the code knows, those that tell its rules apart; "windows"
\* is an OS and a family.
KnownOs == {"linux", "macos", "windows"}
KnownFamily == {"unix", "windows"}
KnownArch == {"x86_64", "aarch64"}
Hosts == {[os |-> os, family |-> IF os = "windows" THEN "windows" ELSE "unix", arch |-> arch] :
            os \in KnownOs, arch \in KnownArch}

\* A command of the Rakefile: `cmd` has a program, or is an empty list, or is not
\* there; a shell variant has text, is blank, or is not there.
Key == [posix |-> "sh", fish |-> "fish", ps |-> "ps"]
Family == DOMAIN Key
BodyText == {"none", "blank", "text"}
Command(name, cmd, bodies, platform, arch, tools) ==
  [name |-> name, cmd |-> cmd, bodies |-> bodies, platform |-> platform,
   arch |-> arch, tools |-> tools]
CommandType ==
  [name : STRING, cmd : {"none", "empty", "program"},
   bodies : [sh : BodyText, fish : BodyText, ps : BodyText],
   platform : Seq(SUBSET STRING), arch : Seq(SUBSET STRING), tools : Seq(STRING)]
HasShell(c) == \E key \in DOMAIN c.bodies : c.bodies[key] # "none"

-----------------------------------------------------------------------------
(* What validation asks of a command.                                      *)

GateError(gate, known, error) ==
  IF gate = <<>> THEN "none"
  ELSE IF gate[1] = {} THEN "EmptyPlatformList"
  ELSE IF gate[1] \subseteq known THEN "none" ELSE error

\* Fault: a command with neither `cmd` nor a shell variant passes.
BodyErrorIfAny(c) ==
  IF c.cmd # "none"
    THEN IF HasShell(c) THEN "AmbiguousCommandBody"
         ELSE IF c.cmd = "empty" THEN "EmptyCmd" ELSE "none"
    ELSE IF \E key \in DOMAIN c.bodies : c.bodies[key] = "blank" THEN "EmptyShell" ELSE "none"

\* Exactly one kind of body: `cmd`, or shell variants that all have text.
BodyError(c) ==
  IF c.cmd # "none"
    THEN IF HasShell(c) THEN "AmbiguousCommandBody"
         ELSE IF c.cmd = "empty" THEN "EmptyCmd" ELSE "none"
    ELSE IF ~HasShell(c) THEN "MissingCommandBody"
    ELSE IF \E key \in DOMAIN c.bodies : c.bodies[key] = "blank" THEN "EmptyShell" ELSE "none"

\* In the order in which validate_command meets them.
CommandErrors(c) ==
  <<GateError(c.platform, KnownOs \cup KnownFamily, "InvalidPlatform"),
    GateError(c.arch, KnownArch, "InvalidArch"), BodyError(c)>>

-----------------------------------------------------------------------------
(* What a run makes of it.                                                 *)

Skipped(c, host) ==
  \/ c.platform # <<>> /\ c.platform[1] \cap {host.os, host.family} = {}
  \/ c.arch # <<>> /\ host.arch \notin c.arch[1]

Interpreter(family, env) ==
  IF family = "posix" THEN "sh" ELSE IF family = "fish" THEN "fish"
  ELSE IF env.pwshOnPath THEN "pwsh" ELSE "powershell"

\* The program to spawn, or none: nothing in the command suits the family.
Invocation(c, family, env) ==
  IF c.cmd = "program" THEN <<c.cmd>>
  ELSE IF c.cmd = "none" /\ c.bodies[Key[family]] # "none"
    THEN <<Interpreter(family, env)>> ELSE <<>>

Fate(c, host, family, env) ==
  IF Skipped(c, host) THEN "skipped"
  ELSE IF Invocation(c, family, env) = <<>> THEN "MissingShellVariant" ELSE "runs"

-----------------------------------------------------------------------------
(* The environment: what shells leave in it is told by the comments on      *)
(* shell_family_from_env and detect_shell_family.                          *)

\* `nest`: the shells the user has started, one in the other.  On Windows
\* PSModulePath is there for every process.
EnvironmentOf(rakeShell, windows, login, nest, pwshOnPath) ==
  LET inside == {nest[n] : n \in 1..Len(nest)}
  IN [rakeShell |-> rakeShell, windows |-> windows, shell |-> login,
      channel |-> "pwsh" \in inside, modulePath |-> windows \/ "pwsh" \in inside,
      fishVersion |-> "fish" \in inside, pwshOnPath |-> pwshOnPath]

Classify(shell) ==
  IF shell = "fish" THEN "fish"
  ELSE IF shell \in {"pwsh", "powershell"} THEN "ps" ELSE "posix"

\* Fault: PSModulePath counts on Windows, too.
PsSignalAnywhere(env) == env.channel \/ env.modulePath
PsSignal(env) == env.channel \/ (~env.windows /\ env.modulePath)

FamilyFromEnv(env) ==
  IF PsSignal(env) THEN "ps"
  ELSE IF env.fishVersion THEN "fish"
  ELSE IF env.shell # "none" THEN Classify(env.shell)
  ELSE IF env.windows THEN "ps" ELSE "posix"

DetectFamily(env) ==
  IF env.rakeShell # "none" THEN Classify(env.rakeShell) ELSE FamilyFromEnv(env)
=============================================================================
