------------------------------ MODULE UserFiles ------------------------------
(***************************************************************************)
(* What rake keeps in the user's config directory: the license key          *)
(* (license.rs) and the name a machine without a hostname is given          *)
(* (lifecycle.rs).  Commands of several terminals read and write the two     *)
(* files without a lock, and may be killed between any two steps.           *)
(***************************************************************************)
EXTENDS Naturals

CONSTANTS
  Proc,
  Key, Genuine,  \* license keys, and those that carry the right signature
  Commands       \* [kind, key, env, tty, yes, tools]: what may be typed, and where

\* A process stands for the name it draws, which is none of the states of a file.
ASSUME FilesAssumption ==
  /\ Genuine \subseteq Key
  /\ \A c \in Commands :
       c.kind \in {"run", "dry", "list", "activate", "remove", "status"}
  /\ Proc \cap {"none", "absent", "empty", "garbled"} = {}

VARIABLES
  files,    \* "license" and "client_id": "absent", "empty", "garbled" or what was written
  home,     \* is there a config directory
  named,    \* has the machine a hostname
  expired,  \* the keys that have expired so far
  command, doing,  \* of each process: what it was told, and where it is
  fd,       \*   the file it has open for writing,
  granted,  \*   the key its license comes from,
  id,       \*   the client id it reports
  raced     \* history: a client id was generated while another was on its way

disk == <<files, home, named>>
fileVars == <<disk, expired, command, doing, fd, granted, id, raced>>

Final == {"done", "failed", "refused", "identified", "killed"}

FilesInit ==
  /\ home \in BOOLEAN /\ named \in BOOLEAN /\ expired = {} /\ raced = FALSE
  /\ files \in [license : IF home THEN {"absent", "empty"} \cup Key ELSE {"absent"},
                client_id : IF home THEN {"absent", "empty", "brave-otter"} ELSE {"absent"}]
  /\ command \in [Proc -> {[kind |-> "none"]}]
  /\ doing = [p \in Proc |-> "idle"] /\ fd = [p \in Proc |-> "none"]
  /\ granted = [p \in Proc |-> "none"] /\ id = [p \in Proc |-> "none"]

\* The license commands need no Rakefile.
FirstStep == [run |-> "read", dry |-> "read", list |-> "read", activate |-> "verify",
              remove |-> "look", status |-> "status"]

Type(p, c) ==
  /\ doing[p] = "idle" /\ command' = [command EXCEPT ![p] = c]
  /\ doing' = [doing EXCEPT ![p] = FirstStep[c.kind]]
  /\ UNCHANGED <<disk, expired, fd, granted, id, raced>>

Does(p, there) == doing' = [doing EXCEPT ![p] = there]

\* `list` and `syntax` end here; a dry run loads no license, and names the machine
\* all the same.  RakefileLoad is about what happens in there.
Second == [run |-> "load", dry |-> "project", list |-> "done"]

ReadRakefile(p) ==
  /\ doing[p] = "read" /\ \E there \in {Second[command[p].kind], "failed"} : Does(p, there)
  /\ UNCHANGED <<disk, expired, command, fd, granted, id, raced>>

Env(p) == command[p].env
Given(p) == command[p].key

-----------------------------------------------------------------------------
(* std::fs::write: open, which empties the file, then write; a file that was *)
(* unlinked meanwhile is written all the same, where nobody sees it.  Two    *)
(* writers may leave the end of the longer text behind the shorter.         *)

Empties(p, f) == files' = [files EXCEPT ![f] = "empty"] /\ fd' = [fd EXCEPT ![p] = f]
Closes(p) == fd' = [fd EXCEPT ![p] = "none"]

Fills(p, f, text) ==
  /\ Closes(p)
  /\ IF fd[p] # f THEN UNCHANGED files
     ELSE \E t \in IF files[f] = "empty" THEN {text} ELSE {text, "garbled"} :
            files' = [files EXCEPT ![f] = t]

\* The disk is full: what was written is there.
FillsPartly(p, f) ==
  /\ Closes(p)
  /\ \E t \in {files[f]} \cup (IF fd[p] = f THEN {"garbled"} ELSE {}) :
       files' = [files EXCEPT ![f] = t]

Unlinks(f) ==
  /\ files' = [files EXCEPT ![f] = "absent"]
  /\ fd' = [q \in Proc |-> IF fd[q] = f THEN "unlinked" ELSE fd[q]]

-----------------------------------------------------------------------------
(* LicenseVerifier::verify, load_license and try_load_payload.              *)

Verifies(key) == key \in Genuine \ expired

\* The stored text that is looked at; an empty file is none.
Stored == IF files["license"] \in {"absent", "empty"} THEN "none" ELSE files["license"]

Grant(p, key) == granted' = [granted EXCEPT ![p] = key] /\ Does(p, "project")

LicenseFromEnv(p) ==
  /\ doing[p] = "load" /\ Env(p) # "unset" /\ Verifies(Env(p)) /\ Grant(p, Env(p))
  /\ UNCHANGED <<disk, expired, command, fd, id, raced>>

RefuseRun(p) ==
  /\ doing[p] = "load" /\ Env(p) # "unset" /\ ~Verifies(Env(p)) /\ Does(p, "refused")
  /\ UNCHANGED <<disk, expired, command, fd, granted, id, raced>>

\* A stored key that does not verify is worth a warning.
\* Faults: the file stands in for a bad variable; a bad file is an error like it.
ReadLicenseAfterAll(p) ==
  /\ doing[p] = "load" /\ (Env(p) = "unset" \/ ~Verifies(Env(p)))
  /\ Grant(p, IF Verifies(Stored) THEN Stored ELSE "none")
  /\ UNCHANGED <<disk, expired, command, fd, id, raced>>

ReadLicenseStrictly(p) ==
  /\ doing[p] = "load" /\ Env(p) = "unset"
  /\ IF Stored = "none" \/ Verifies(Stored) THEN Grant(p, Stored)
     ELSE Does(p, "refused") /\ UNCHANGED granted
  /\ UNCHANGED <<disk, expired, command, fd, id, raced>>

ReadLicense(p) ==
  /\ doing[p] = "load" /\ Env(p) = "unset"
  /\ Grant(p, IF Verifies(Stored) THEN Stored ELSE "none")
  /\ UNCHANGED <<disk, expired, command, fd, id, raced>>

\* Whatever is wrong counts as no license.
Payload(p) ==
  LET key == IF Env(p) # "unset" THEN Env(p) ELSE Stored
  IN IF Verifies(key) THEN key ELSE "none"

\* `license info` and `basic`.
ShowStatus(p) ==
  /\ doing[p] = "status" /\ Does(p, "done")
  /\ granted' = [granted EXCEPT ![p] = Payload(p)]
  /\ UNCHANGED <<disk, expired, command, fd, id, raced>>

-----------------------------------------------------------------------------
(* activate_license: a key that cannot be saved is licensed all the same.   *)

KeyRefused(p) ==
  /\ doing[p] = "verify" /\ ~Verifies(Given(p)) /\ Does(p, "failed")
  /\ UNCHANGED <<disk, expired, command, fd, granted, id, raced>>

\* Fault: the key is stored, then looked at.
KeyAcceptedUnseen(p) ==
  /\ doing[p] = "verify" /\ Does(p, IF home THEN "open" ELSE "done")
  /\ UNCHANGED <<disk, expired, command, fd, granted, id, raced>>

KeyAccepted(p) ==
  /\ doing[p] = "verify" /\ Verifies(Given(p)) /\ Does(p, IF home THEN "open" ELSE "done")
  /\ UNCHANGED <<disk, expired, command, fd, granted, id, raced>>

OpenLicense(p) ==
  /\ doing[p] = "open" /\ Empties(p, "license") /\ Does(p, "write")
  /\ UNCHANGED <<home, named, expired, command, granted, id, raced>>

WriteLicense(p) ==
  /\ doing[p] = "write" /\ Fills(p, "license", Given(p)) /\ Does(p, "done")
  /\ UNCHANGED <<home, named, expired, command, granted, id, raced>>

LicenseNotSaved(p) ==
  /\ \/ doing[p] = "open" /\ UNCHANGED <<files, fd>>
     \/ doing[p] = "write" /\ FillsPartly(p, "license")
  /\ Does(p, "done") /\ UNCHANGED <<home, named, expired, command, granted, id, raced>>

-----------------------------------------------------------------------------
(* remove_license: the file is looked for, the user asked, the file deleted. *)

LookForLicense(p) ==
  /\ doing[p] = "look"
  /\ Does(p, IF files["license"] = "absent" THEN "done"
           ELSE IF command[p].tty THEN "prompt" ELSE "failed")
  /\ UNCHANGED <<disk, expired, command, fd, granted, id, raced>>

\* The user answers, or reading the answer fails.
Answer(p) ==
  /\ doing[p] = "prompt"
  /\ Does(p, IF command[p].yes THEN "delete" ELSE "done") \/ Does(p, "failed")
  /\ UNCHANGED <<disk, expired, command, fd, granted, id, raced>>

DeleteLicense(p) ==
  /\ doing[p] = "delete" /\ files["license"] # "absent" /\ Unlinks("license") /\ Does(p, "done")
  /\ UNCHANGED <<home, named, expired, command, granted, id, raced>>

\* It is gone by now, or the directory cannot be written.
DeleteFails(p) ==
  /\ doing[p] = "delete" /\ Does(p, "failed")
  /\ UNCHANGED <<disk, expired, command, fd, granted, id, raced>>

-----------------------------------------------------------------------------
(* ProjectInfo::detect of the BeforeAll event, which a run builds whether or *)
(* not anyone is to hear it.                                               *)

Reports(p, name) == id' = [id EXCEPT ![p] = name] /\ Does(p, "identified")
HasClientId == files["client_id"] \notin {"absent", "empty"}

NameKnown(p) ==
  /\ doing[p] = "project" /\ (named \/ ~home \/ HasClientId)
  /\ Reports(p, IF named THEN "hostname" ELSE IF home THEN files["client_id"] ELSE "none")
  /\ UNCHANGED <<disk, expired, command, fd, granted, raced>>

\* The random name is told apart by the process that drew it.
GenerateClientId(p) ==
  /\ doing[p] = "project" /\ ~named /\ home /\ ~HasClientId /\ Does(p, "generated")
  /\ raced' = (raced \/ \E q \in Proc : doing[q] \in {"generated", "saving"})
  /\ UNCHANGED <<disk, expired, command, fd, granted, id>>

OpenClientId(p) ==
  /\ doing[p] = "generated" /\ Empties(p, "client_id") /\ Does(p, "saving")
  /\ UNCHANGED <<home, named, expired, command, granted, id, raced>>

WriteClientId(p) ==
  /\ doing[p] = "saving" /\ Fills(p, "client_id", p) /\ Reports(p, p)
  /\ UNCHANGED <<home, named, expired, command, granted, raced>>

\* Fault: a name that could not be saved is reported.
ClientIdNotSavedButTold(p) ==
  /\ doing[p] = "saving" /\ FillsPartly(p, "client_id") /\ Reports(p, p)
  /\ UNCHANGED <<home, named, expired, command, granted, raced>>

ClientIdNotSaved(p) ==
  /\ \/ doing[p] = "generated" /\ UNCHANGED <<files, fd>>
     \/ doing[p] = "saving" /\ FillsPartly(p, "client_id")
  /\ Reports(p, "none") /\ UNCHANGED <<home, named, expired, command, granted, raced>>

-----------------------------------------------------------------------------

KillCommand(p) ==
  /\ doing[p] \notin Final \cup {"idle"} /\ Does(p, "killed") /\ Closes(p)
  /\ UNCHANGED <<disk, expired, command, granted, id, raced>>

Expire(key) ==
  /\ key \in Genuine \ expired /\ expired' = expired \cup {key}
  /\ UNCHANGED <<disk, command, doing, fd, granted, id, raced>>

CommandStep(p) ==
  \/ ReadRakefile(p) \/ LicenseFromEnv(p) \/ RefuseRun(p) \/ ReadLicense(p) \/ ShowStatus(p)
  \/ KeyRefused(p) \/ KeyAccepted(p) \/ OpenLicense(p) \/ WriteLicense(p) \/ LicenseNotSaved(p)
  \/ LookForLicense(p) \/ Answer(p) \/ DeleteLicense(p) \/ DeleteFails(p)
  \/ NameKnown(p) \/ GenerateClientId(p) \/ OpenClientId(p) \/ WriteClientId(p)
  \/ ClientIdNotSaved(p)

-----------------------------------------------------------------------------
(* Properties.                                                             *)

MayChangeLicense(p) ==
  \/ command[p].kind = "activate" /\ Given(p) \in Genuine
  \/ command[p].kind = "remove" /\ command[p].tty /\ command[p].yes

\* The stored key is touched by two kinds of command only: an activation of a key
\* that is genuine, and a removal somebody confirmed at a terminal; never by one that
\* fails or is declined (license.rs activate_license, remove_license).
LicenseKept ==
  [][files'["license"] # files["license"] =>
       \E p \in Proc : doing'[p] # doing[p] /\ MayChangeLicense(p)]_fileVars

\* RAKE_LICENSE, where it is set, decides alone, and can stop a run; a stored file
\* can not, however a crash or two activations at once have left it.
LicenseDecision ==
  \A p \in Proc :
    /\ granted[p] \in Genuine \cup {"none"}
    /\ doing[p] = "refused" => Env(p) # "unset"
    /\ command[p].kind = "run" /\ doing[p] \in {"project", "generated", "saving", "identified"} /\ Env(p) # "unset" =>
         granted[p] = Env(p)

\* All runs of a machine report one client id, whatever was killed or not saved, as
\* long as no two of them draw one at the same time (lifecycle.rs:238).
OneClientId ==
  ~raced => \A p, q \in Proc : id[p] # "none" /\ id[q] # "none" => id[p] = id[q]

=============================================================================
