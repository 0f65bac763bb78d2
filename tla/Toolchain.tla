----------------------------- MODULE Toolchain -----------------------------
(***************************************************************************)
(* ensure_rust_toolchain (librake, toolchain.rs) in one process: is there a *)
(* cargo, is the channel of the Rakefile installed, and if not, may it be   *)
(* installed.  The machine (rustup and its channels) outlives the process;  *)
(* PATH and RUSTUP_TOOLCHAIN are the process's own and are inherited by     *)
(* what it spawns.  SelfUpdate composes this with the rest of the start-up. *)
(***************************************************************************)
EXTENDS Naturals

CONSTANTS Channel, Default  \* "stable", what a bare machine is given

ASSUME DefaultAssumption == Default \in Channel /\ "none" \notin Channel

VARIABLES
  terminal, home,   \* stdin is interactive; HOME is set
  distro,           \* the first cargo on PATH is not of rustup
  rustup, channels, \* rustup is installed (in ~/.cargo/bin), with these channels
  asked,            \* the Rakefile's `toolchain`, or "none"
  path, pin,        \* ~/.cargo/bin is on PATH; RUSTUP_TOOLCHAIN, or "none"
  step,             \* where ensure_rust_toolchain is
  question,         \* what the prompt is about
  agreed, granted   \* history: channels a user said yes to, and got

place == <<terminal, home, distro>>
machine == <<rustup, channels>>
environ == <<path, pin>>
talk == <<question, agreed, granted>>
toolchainVars == <<place, machine, asked, environ, step, talk>>

Wanted == IF asked = "none" THEN Default ELSE asked

\* `rustup` resolves; `cargo --version` succeeds (through rustup's proxy it needs
\* a channel, the pinned one if there is a pin).
Managed == rustup /\ path
CargoWorks ==
  distro \/ (Managed /\ channels # {} /\ (pin = "none" \/ pin \in channels))

ToolchainInit ==
  /\ terminal \in BOOLEAN /\ home \in BOOLEAN /\ distro \in BOOLEAN
  /\ rustup \in BOOLEAN /\ channels \in IF rustup THEN SUBSET Channel ELSE {{}}
  /\ asked \in Channel \cup {"none"}
  /\ path \in BOOLEAN /\ pin = "none"
  /\ step = "probe" /\ question = "none" /\ agreed = {} /\ granted = {}

Probe ==
  /\ step = "probe"
  /\ step' = IF ~CargoWorks THEN "bootstrap"
             ELSE IF asked = "none" THEN "ready" ELSE "channel"
  /\ UNCHANGED <<place, machine, asked, environ, talk>>

(* bootstrap_rust and the Missing arm of ensure_channel ask the same way.   *)

\* Fault: the terminal is not looked at.
AskAnyway ==
  /\ step = "bootstrap" /\ ~terminal /\ step' = "answer" /\ question' = "rust"
  /\ UNCHANGED <<place, machine, asked, environ, agreed, granted>>

\* No terminal: refuse rather than install unattended or wait for an answer.
Refuse ==
  /\ step = "bootstrap" /\ ~terminal /\ step' = "missing"
  /\ UNCHANGED <<place, machine, asked, environ, talk>>

AskForRust ==
  /\ step = "bootstrap" /\ terminal /\ step' = "answer" /\ question' = "rust"
  /\ UNCHANGED <<place, machine, asked, environ, agreed, granted>>

\* Fault: only the full toolchain name is recognised in rustup's list.
ChannelListedByFullName == FALSE

ChannelListed == asked \in channels

\* toolchain_status: without rustup the cargo at hand is accepted.
CheckChannel ==
  /\ step = "channel"
  /\ \/ ~Managed /\ step' = "ready" /\ UNCHANGED <<pin, question>>
     \/ Managed /\ ChannelListed
        /\ step' = "ready" /\ pin' = asked /\ UNCHANGED question
     \/ Managed /\ ~ChannelListed /\ ~terminal
        /\ step' = "missing" /\ UNCHANGED <<pin, question>>
     \/ Managed /\ ~ChannelListed /\ terminal
        /\ step' = "answer" /\ question' = "channel" /\ UNCHANGED pin
  /\ UNCHANGED <<place, machine, asked, path, agreed, granted>>

SayYes ==
  /\ step = "answer" /\ step' = "install" /\ agreed' = agreed \cup {Wanted}
  /\ UNCHANGED <<place, machine, asked, environ, question, granted>>

\* Fault: an empty answer counts as a yes.
SayNothing ==
  /\ step = "answer" /\ step' = "install"
  /\ UNCHANGED <<place, machine, asked, environ, talk>>

\* Anything but y or yes, or stdin cannot be read.
SayNo ==
  /\ step = "answer" /\ step' = "missing"
  /\ UNCHANGED <<place, machine, asked, environ, talk>>

\* Fault: the installer's word is taken, cargo is not probed again.
RustInstalledUnchecked ==
  /\ step = "install" /\ question = "rust"
  /\ \/ rustup' = TRUE /\ channels' = channels \cup {Wanted}
     \/ UNCHANGED machine
  /\ path' = (path \/ home)
  /\ step' = IF asked = "none" THEN "ready" ELSE "channel"
  /\ UNCHANGED <<place, asked, pin, talk>>

\* The script exits with 0 and main looks again; the exit status is that of the
\* shell at the end of the pipe, which has nothing to do when curl failed.
RustInstalled ==
  /\ step = "install" /\ question = "rust" /\ step' = "recheck"
  /\ \/ rustup' = TRUE /\ channels' = channels \cup {Wanted}
     \/ UNCHANGED machine
  /\ path' = (path \/ home)
  /\ UNCHANGED <<place, asked, pin, talk>>

Recheck ==
  /\ step = "recheck"
  /\ step' = IF ~CargoWorks THEN "missing"
             ELSE IF asked = "none" THEN "ready" ELSE "channel"
  /\ granted' =
       IF CargoWorks /\ Managed THEN granted \cup ({Wanted} \cap channels) ELSE granted
  /\ UNCHANGED <<place, machine, asked, environ, question, agreed>>

ChannelInstalled ==
  /\ step = "install" /\ question = "channel" /\ step' = "ready"
  /\ channels' = channels \cup {asked} /\ pin' = asked
  /\ granted' = granted \cup {asked}
  /\ UNCHANGED <<place, rustup, asked, path, question, agreed>>

\* An installer cannot be launched or exits non-zero, at whatever point.
InstallFails ==
  /\ step = "install" /\ step' = "failed"
  /\ IF question = "rust"
       THEN rustup' \in {rustup, TRUE} /\ UNCHANGED channels
       ELSE UNCHANGED machine
  /\ UNCHANGED <<place, asked, environ, talk>>

ToolchainSteps == Probe \/ Refuse \/ AskForRust \/ CheckChannel \/ Recheck
Answers == SayYes \/ SayNo
Installs == RustInstalled \/ ChannelInstalled \/ InstallFails

-----------------------------------------------------------------------------

\* When the check lets the start-up go on there is a cargo that works, and the
\* Rakefile's channel is installed and pinned unless rustup is out of reach.
ToolchainUsable ==
  step = "ready" =>
    /\ CargoWorks
    /\ asked # "none" /\ Managed => pin = asked /\ asked \in channels

\* Nothing is installed that the user has not been asked about and agreed to.
ConsentGiven ==
  [][machine' # machine => terminal /\ Wanted \in agreed]_toolchainVars

\* Who has agreed to a channel and got it is not asked for it again, neither by
\* the relaunched process nor by a nested run, which inherit the environment.
NeverAskedTwice == step = "answer" => Wanted \notin granted
=============================================================================
