---------------------------- MODULE MachineProofs ----------------------------
(***************************************************************************)
(* The user's files and the tools of a machine, for every set of processes, *)
(* keys, commands, runs and tools, every Rakefile, and every interleaving   *)
(* of processes, crashes, installers, users and crates.io.                 *)
(***************************************************************************)
EXTENDS Machine, SequenceTheorems, TLAPS

(* The user's files.                                                       *)

\* What a process is doing belongs to the command it was given.
CommandOK(p) ==
  /\ doing[p] # "idle" => command[p] \in Commands
  /\ doing[p] = "read" => command[p].kind \in {"run", "dry", "list"}
  /\ doing[p] \in {"verify", "open", "write"} => command[p].kind = "activate"
  /\ doing[p] \in {"open", "write"} => Given(p) \in Genuine
  /\ doing[p] \in {"look", "prompt", "delete"} => command[p].kind = "remove"
  /\ doing[p] \in {"prompt", "delete"} => command[p].tty
  /\ doing[p] = "delete" => command[p].yes

Busy(p) == doing[p] \in {"generated", "saving"}

DomainsOK ==
  /\ doing = [p \in Proc |-> doing[p]] /\ command = [p \in Proc |-> command[p]]
  /\ fd = [p \in Proc |-> fd[p]] /\ granted = [p \in Proc |-> granted[p]]
  /\ id = [p \in Proc |-> id[p]]
  /\ files = [f \in {"license", "client_id"} |-> files[f]]

CommandInv == DomainsOK /\ \A p \in Proc : CommandOK(p)

\* A client id is only drawn where there is none, and who reports one reports what
\* is in the file; nobody empties that, unless two have drawn one at once.
ClientIdInv ==
  /\ DomainsOK
  /\ \A p \in Proc : Busy(p) => home /\ ~named
  /\ \A p \in Proc : doing[p] = "saving" => fd[p] = "client_id"
  /\ named \/ ~home => \A p \in Proc : id[p] \in {"none", "hostname"} /\ (~named => id[p] = "none")
  /\ ~named /\ home /\ ~raced =>
       /\ \A p, q \in Proc : Busy(p) /\ Busy(q) => p = q
       /\ \A p \in Proc : Busy(p) => ~HasClientId
       /\ \A p \in Proc : doing[p] = "saving" => files["client_id"] = "empty"
       /\ \A p \in Proc : id[p] # "none" => HasClientId /\ id[p] = files["client_id"]

-----------------------------------------------------------------------------

\* A step of the system is one of a command, or leaves the files alone.
LEMMA NextCases ==
  ASSUME [Next]_vars
  PROVE  \/ \E p \in Proc, c \in Commands : Type(p, c)
         \/ \E p \in Proc : CommandStep(p)
         \/ \E p \in Proc : KillCommand(p)
         \/ \E key \in Key : Expire(key)
         \/ UNCHANGED fileVars
BY MachineAssumption DEF Next, TypeCommand, InFiles, ReachTools, InTools, Installs, World, vars

\* The functions keep their domains.
LEMMA DomainsKept == ASSUME DomainsOK, [Next]_vars PROVE DomainsOK'
<1>1. CASE \E p \in Proc, c \in Commands : Type(p, c)
  BY <1>1 DEF DomainsOK, Type, disk
<1>2. CASE \E p \in Proc : CommandStep(p)
  <2> SUFFICES ASSUME NEW p \in Proc, CommandStep(p) PROVE DomainsOK'
    BY <1>2
  <2>1. CASE ReadRakefile(p) \/ LicenseFromEnv(p) \/ RefuseRun(p) \/ ReadLicense(p) \/ ShowStatus(p)
    BY <2>1 DEF DomainsOK, ReadRakefile, LicenseFromEnv, RefuseRun, ReadLicense, ShowStatus,
         Does, Grant, disk
  <2>2. CASE KeyRefused(p) \/ KeyAccepted(p) \/ OpenLicense(p) \/ WriteLicense(p) \/ LicenseNotSaved(p)
    BY <2>2 DEF DomainsOK, KeyRefused, KeyAccepted, OpenLicense, WriteLicense,
         LicenseNotSaved, Does, Empties, Closes, Fills, FillsPartly, disk
  <2>3. CASE LookForLicense(p) \/ Answer(p) \/ DeleteLicense(p) \/ DeleteFails(p)
    BY <2>3 DEF DomainsOK, LookForLicense, Answer, DeleteLicense, DeleteFails, Does,
         Unlinks, disk
  <2>4. CASE NameKnown(p) \/ GenerateClientId(p) \/ OpenClientId(p) \/ WriteClientId(p)
             \/ ClientIdNotSaved(p)
    BY <2>4 DEF DomainsOK, NameKnown, GenerateClientId, OpenClientId, WriteClientId,
         ClientIdNotSaved, Does, Reports, Empties, Closes, Fills, FillsPartly, disk
  <2> QED BY <2>1, <2>2, <2>3, <2>4 DEF CommandStep
<1>3. CASE \E p \in Proc : KillCommand(p)
  BY <1>3 DEF DomainsOK, KillCommand, Does, Closes, disk
<1>4. CASE (\E key \in Key : Expire(key)) \/ UNCHANGED fileVars
  BY <1>4 DEF DomainsOK, Expire, fileVars, disk
<1> QED BY <1>1, <1>2, <1>3, <1>4, NextCases

\* A step changes what one process does, and a command only where there was none.
LEMMA OthersAlone ==
  ASSUME DomainsOK, NEW p \in Proc, CommandStep(p) \/ KillCommand(p)
  PROVE  /\ UNCHANGED <<command, home, named>>
         /\ \A q \in Proc \ {p} : doing'[q] = doing[q]
<1>1. CASE ReadRakefile(p) \/ LicenseFromEnv(p) \/ RefuseRun(p) \/ ReadLicense(p) \/ ShowStatus(p)
           \/ KillCommand(p)
  BY <1>1 DEF DomainsOK, ReadRakefile, LicenseFromEnv, RefuseRun, ReadLicense, ShowStatus,
       KillCommand, Does, Grant, disk
<1>2. CASE KeyRefused(p) \/ KeyAccepted(p) \/ OpenLicense(p) \/ WriteLicense(p) \/ LicenseNotSaved(p)
  BY <1>2 DEF DomainsOK, KeyRefused, KeyAccepted, OpenLicense, WriteLicense, LicenseNotSaved,
       Does, disk
<1>3. CASE LookForLicense(p) \/ Answer(p) \/ DeleteLicense(p) \/ DeleteFails(p)
  BY <1>3 DEF DomainsOK, LookForLicense, Answer, DeleteLicense, DeleteFails, Does, disk
<1>4. CASE NameKnown(p) \/ GenerateClientId(p) \/ OpenClientId(p) \/ WriteClientId(p)
           \/ ClientIdNotSaved(p)
  BY <1>4 DEF DomainsOK, NameKnown, GenerateClientId, OpenClientId, WriteClientId,
       ClientIdNotSaved, Does, Reports, disk
<1> QED BY <1>1, <1>2, <1>3, <1>4 DEF CommandStep

\* Each step goes on to one that the command may come to.
LEMMA CommandStays == ASSUME CommandInv, [Next]_vars PROVE CommandInv'
<1> DomainsOK' BY DomainsKept DEF CommandInv
<1> USE DEF CommandInv, CommandOK, Given
<1>1. CASE \E p \in Proc, c \in Commands : Type(p, c)
  BY <1>1, FilesAssumption DEF DomainsOK, Type, FirstStep
<1>2. CASE \E p \in Proc : CommandStep(p) \/ KillCommand(p)
  <2> SUFFICES ASSUME NEW p \in Proc, CommandStep(p) \/ KillCommand(p) PROVE CommandOK(p)'
    BY <1>2, OthersAlone
  <2> command' = command BY OthersAlone
  <2>1. CASE ReadRakefile(p)
    BY <2>1 DEF DomainsOK, ReadRakefile, Does, Second
  <2>2. CASE KeyRefused(p) \/ KeyAccepted(p) \/ LookForLicense(p) \/ Answer(p) \/ OpenLicense(p)
    BY <2>2 DEF DomainsOK, KeyRefused, KeyAccepted, LookForLicense, Answer, OpenLicense, Does, Verifies
  <2>3. CASE LicenseFromEnv(p) \/ RefuseRun(p) \/ ReadLicense(p) \/ ShowStatus(p)
             \/ WriteLicense(p) \/ LicenseNotSaved(p) \/ DeleteLicense(p)
             \/ DeleteFails(p) \/ KillCommand(p)
    <3>1. doing'[p] \in {"project", "refused", "done", "failed", "killed"} /\ doing[p] # "idle"
      BY <2>3 DEF DomainsOK, LicenseFromEnv, RefuseRun, ReadLicense, ShowStatus,
           WriteLicense, LicenseNotSaved, DeleteLicense, DeleteFails, KillCommand, Does, Grant
    <3> QED BY <3>1
  <2>4. CASE NameKnown(p) \/ GenerateClientId(p) \/ OpenClientId(p) \/ WriteClientId(p)
             \/ ClientIdNotSaved(p)
    <3>1. doing'[p] \in {"generated", "saving", "identified"} /\ doing[p] # "idle"
      BY <2>4 DEF DomainsOK, NameKnown, GenerateClientId, OpenClientId, WriteClientId,
           ClientIdNotSaved, Does, Reports
    <3> QED BY <3>1
  <2> QED BY <2>1, <2>2, <2>3, <2>4 DEF CommandStep
<1>3. CASE (\E key \in Key : Expire(key)) \/ UNCHANGED fileVars
  BY <1>3 DEF Expire, fileVars, disk
<1> QED BY <1>1, <1>2, <1>3, NextCases

\* Whatever a process is doing, its command can have led it there.
THEOREM CommandsHold == Spec => []CommandInv
<1>1. Init => CommandInv
  BY DEF Init, FilesInit, CommandInv, DomainsOK, CommandOK
<1> QED BY <1>1, CommandStays, PTL DEF Spec

\* The stored license is changed by an activation of a genuine key and by a
\* confirmed removal only (activate_license, remove_license).
THEOREM LicenseIsKept == Spec => LicenseKept
<1>1. ASSUME CommandInv, [Next]_vars, files'["license"] # files["license"]
      PROVE  \E p \in Proc : doing'[p] # doing[p] /\ MayChangeLicense(p)
  <2>1. PICK p \in Proc : CommandStep(p)
    BY <1>1, NextCases DEF Type, KillCommand, Expire, fileVars, disk
  <2>2. OpenLicense(p) \/ WriteLicense(p) \/ LicenseNotSaved(p) \/ DeleteLicense(p)
    <3>1. ~(ReadRakefile(p) \/ LicenseFromEnv(p) \/ RefuseRun(p) \/ ReadLicense(p) \/ ShowStatus(p)
            \/ KeyRefused(p) \/ KeyAccepted(p) \/ LookForLicense(p) \/ Answer(p) \/ DeleteFails(p)
            \/ NameKnown(p) \/ GenerateClientId(p))
      BY <1>1 DEF ReadRakefile, LicenseFromEnv, RefuseRun, ReadLicense, ShowStatus, KeyRefused,
           KeyAccepted, LookForLicense, Answer, DeleteFails, NameKnown, GenerateClientId, disk
    <3>2. ~(OpenClientId(p) \/ WriteClientId(p) \/ ClientIdNotSaved(p))
      BY <1>1 DEF CommandInv, DomainsOK, OpenClientId, WriteClientId, ClientIdNotSaved, Empties,
           Fills, FillsPartly
    <3> QED BY <2>1, <3>1, <3>2 DEF CommandStep
  <2>3. doing'[p] # doing[p]
    BY <1>1, <2>2 DEF CommandInv, DomainsOK, OpenLicense, WriteLicense, LicenseNotSaved,
         DeleteLicense, Does
  <2>4. MayChangeLicense(p)
    BY <1>1, <2>2 DEF MayChangeLicense, CommandInv, CommandOK, OpenLicense, WriteLicense, LicenseNotSaved, DeleteLicense
  <2> QED BY <2>3, <2>4
<1>2. ASSUME CommandInv, [Next]_vars
      PROVE  [files'["license"] # files["license"] =>
                \E p \in Proc : doing'[p] # doing[p] /\ MayChangeLicense(p)]_fileVars
  BY <1>1, <1>2
<1> QED BY <1>2, CommandsHold, PTL DEF Spec, LicenseKept

-----------------------------------------------------------------------------

\* What a run is licensed by, and when it is refused.
LEMMA DecisionStays == ASSUME CommandInv, LicenseDecision, [Next]_vars PROVE LicenseDecision'
<1> DomainsOK' BY DomainsKept DEF CommandInv
<1> DEFINE Decided(p) ==
      /\ granted[p] \in Genuine \cup {"none"}
      /\ doing[p] = "refused" => Env(p) # "unset"
      /\ command[p].kind = "run" /\ doing[p] \in {"project", "generated", "saving", "identified"}
         /\ Env(p) # "unset" => granted[p] = Env(p)
<1>1. CASE \E p \in Proc, c \in Commands : Type(p, c)
  <2> PICK p \in Proc, c \in Commands : Type(p, c) BY <1>1
  <2>1. /\ granted' = granted
        /\ doing'[p] \in {"read", "verify", "look", "status"}
        /\ \A q \in Proc \ {p} : doing'[q] = doing[q] /\ command'[q] = command[q]
    BY FilesAssumption DEF CommandInv, DomainsOK, Type, FirstStep
  <2> QED BY <2>1 DEF LicenseDecision, Env
<1>2. CASE \E p \in Proc : CommandStep(p) \/ KillCommand(p)
  <2> PICK p \in Proc : CommandStep(p) \/ KillCommand(p) BY <1>2
  <2>1. command' = command /\ \A q \in Proc \ {p} : doing'[q] = doing[q]
    BY OthersAlone DEF CommandInv
  <2>2. CASE ReadLicense(p) \/ LicenseFromEnv(p) \/ ShowStatus(p)
    <3>1. /\ \A q \in Proc \ {p} : granted'[q] = granted[q]
          /\ doing'[p] \in {"project", "done"}
          /\ doing'[p] = "project" /\ Env(p) # "unset" => granted'[p] = Env(p)
          /\ granted'[p] \in Genuine \cup {"none"}
      BY <2>2 DEF CommandInv, DomainsOK, ReadLicense, LicenseFromEnv, ShowStatus, Grant, Does,
           Payload, Verifies
    <3> QED BY <2>1, <3>1 DEF LicenseDecision, Env
  <2>3. CASE ~(ReadLicense(p) \/ LicenseFromEnv(p) \/ ShowStatus(p))
    <3>1. granted' = granted
      BY <2>3 DEF CommandStep, ReadRakefile, RefuseRun, KeyRefused, KeyAccepted,
           OpenLicense, WriteLicense, LicenseNotSaved, LookForLicense, Answer, DeleteLicense,
           DeleteFails, NameKnown, GenerateClientId, OpenClientId, WriteClientId,
           ClientIdNotSaved, KillCommand
    <3>2. \/ doing'[p] \notin {"refused", "project", "generated", "saving", "identified"}
          \/ doing'[p] = "refused" /\ Env(p) # "unset"
          \/ doing'[p] = "project" /\ command[p].kind # "run"
          \/ /\ doing'[p] \in {"generated", "saving", "identified"}
             /\ doing[p] \in {"project", "generated", "saving"}
      <4>1. CASE ReadRakefile(p)
        BY <4>1 DEF CommandInv, CommandOK, DomainsOK, ReadRakefile, Does, Second
      <4>2. CASE RefuseRun(p) \/ KeyRefused(p) \/ KeyAccepted(p) \/ OpenLicense(p)
        BY <4>2 DEF CommandInv, DomainsOK, RefuseRun, KeyRefused, KeyAccepted, OpenLicense, Does
      <4>3. CASE WriteLicense(p) \/ LicenseNotSaved(p) \/ LookForLicense(p) \/ Answer(p)
                 \/ DeleteLicense(p) \/ DeleteFails(p) \/ KillCommand(p)
        BY <4>3 DEF CommandInv, DomainsOK, WriteLicense, LicenseNotSaved, LookForLicense, Answer,
             DeleteLicense, DeleteFails, KillCommand, Does
      <4>4. CASE NameKnown(p) \/ GenerateClientId(p) \/ OpenClientId(p) \/ WriteClientId(p)
                 \/ ClientIdNotSaved(p)
        BY <4>4 DEF CommandInv, DomainsOK, NameKnown, GenerateClientId, OpenClientId,
             WriteClientId, ClientIdNotSaved, Reports, Does
      <4> QED BY <2>3, <4>1, <4>2, <4>3, <4>4 DEF CommandStep
    <3> QED BY <2>1, <3>1, <3>2 DEF LicenseDecision, Env
  <2> QED BY <2>2, <2>3
<1>3. CASE (\E key \in Key : Expire(key)) \/ UNCHANGED fileVars
  BY <1>3 DEF LicenseDecision, Expire, fileVars, disk, Env
<1> QED BY <1>1, <1>2, <1>3, NextCases

\* RAKE_LICENSE decides alone and can refuse a run, the stored file can not
\* (load_license, try_load_payload).
THEOREM LicenseDecided == Spec => []LicenseDecision
<1>1. Init => LicenseDecision
  BY DEF Init, FilesInit, LicenseDecision
<1> QED BY <1>1, DecisionStays, CommandsHold, PTL DEF Spec

-----------------------------------------------------------------------------

\* No step of the license commands touches what the client id rests on.
LEMMA ClientIdAlone ==
  ASSUME ClientIdInv, CommandInv, NEW p \in Proc, CommandStep(p) \/ KillCommand(p),
         ~(NameKnown(p) \/ GenerateClientId(p) \/ OpenClientId(p) \/ WriteClientId(p)
           \/ ClientIdNotSaved(p))
  PROVE  /\ UNCHANGED <<id, raced>> /\ files'["client_id"] = files["client_id"]
         /\ ~Busy(p)'
         /\ \A q \in Proc \ {p} : fd[q] = "client_id" => fd'[q] = "client_id"
<1>1. CASE ReadRakefile(p)
  BY <1>1 DEF CommandInv, CommandOK, DomainsOK, ReadRakefile, Does, Second, Busy, disk
<1>2. CASE LicenseFromEnv(p) \/ RefuseRun(p) \/ ReadLicense(p) \/ ShowStatus(p) \/ KeyRefused(p)
           \/ KeyAccepted(p) \/ LookForLicense(p) \/ Answer(p) \/ DeleteFails(p) \/ KillCommand(p)
  BY <1>2 DEF ClientIdInv, DomainsOK, LicenseFromEnv, RefuseRun, ReadLicense, ShowStatus,
       KeyRefused, KeyAccepted, LookForLicense, Answer, DeleteFails, KillCommand, Grant, Does,
       Closes, Busy, disk
<1>3. CASE OpenLicense(p) \/ WriteLicense(p) \/ LicenseNotSaved(p) \/ DeleteLicense(p)
  BY <1>3 DEF ClientIdInv, DomainsOK, OpenLicense, WriteLicense, LicenseNotSaved,
       DeleteLicense, Empties, Fills, FillsPartly, Unlinks, Closes, Does, Busy
<1> QED BY <1>1, <1>2, <1>3 DEF CommandStep

\* The five steps of the client id keep its invariant.
LEMMA ClientIdStep ==
  ASSUME ClientIdInv, NEW p \in Proc,
         \/ NameKnown(p) \/ GenerateClientId(p) \/ OpenClientId(p) \/ WriteClientId(p)
         \/ ClientIdNotSaved(p),
         DomainsOK', UNCHANGED <<home, named>>, \A q \in Proc \ {p} : doing'[q] = doing[q]
  PROVE  ClientIdInv'
<1> p \notin {"none", "absent", "empty", "garbled"} BY FilesAssumption
<1>1. CASE NameKnown(p)
  BY <1>1 DEF ClientIdInv, DomainsOK, NameKnown, Reports, Does, Busy, HasClientId, disk
<1>2. CASE GenerateClientId(p)
  <2>1. /\ UNCHANGED <<files, fd, id>> /\ Busy(p)' /\ ~HasClientId /\ home /\ ~named
        /\ ~Busy(p) /\ doing'[p] # "saving"
        /\ raced' = (raced \/ \E q \in Proc : Busy(q))
    BY <1>2 DEF ClientIdInv, DomainsOK, GenerateClientId, Does, Busy, disk
  <2>2. \A q \in Proc \ {p} : Busy(q)' = Busy(q)
    BY DEF Busy
  <2> QED BY <2>1, <2>2 DEF ClientIdInv, HasClientId
<1>3. CASE OpenClientId(p)
  BY <1>3 DEF ClientIdInv, DomainsOK, OpenClientId, Empties, Does, Busy, HasClientId
<1>4. CASE WriteClientId(p)
  <2>1. /\ UNCHANGED raced /\ Busy(p) /\ ~Busy(p)' /\ home /\ ~named
        /\ doing'[p] # "saving" /\ id'[p] = p
        /\ \A q \in Proc \ {p} : fd'[q] = fd[q] /\ id'[q] = id[q]
    BY <1>4 DEF ClientIdInv, DomainsOK, WriteClientId, Fills, Closes, Reports, Does, Busy
  <2>2. \A q \in Proc \ {p} : Busy(q)' = Busy(q)
    BY DEF Busy
  <2>3. ASSUME ~raced
        PROVE  /\ files'["client_id"] = p
               /\ \A q \in Proc : ~Busy(q)' /\ (id'[q] # "none" => id'[q] = files'["client_id"])
    <3>1. ~HasClientId /\ \A q \in Proc : id[q] = "none"
      BY <2>1, <2>3 DEF ClientIdInv
    <3>2. \A q \in Proc : ~Busy(q)'
      BY <2>1, <2>2, <2>3 DEF ClientIdInv
    <3>3. files'["client_id"] = p
      BY <1>4, <2>1, <2>3 DEF ClientIdInv, DomainsOK, WriteClientId, Fills
    <3> QED BY <2>1, <3>1, <3>2, <3>3
  <2>4. \A q \in Proc : Busy(q)' => Busy(q)
    BY <2>1, <2>2
  <2>5. \A q \in Proc : doing'[q] = "saving" => fd'[q] = "client_id"
    BY <2>1 DEF ClientIdInv
  <2>6. ~raced' => HasClientId'
    BY <2>1, <2>3 DEF HasClientId
  <2> QED BY <2>1, <2>3, <2>4, <2>5, <2>6 DEF ClientIdInv, Busy
<1>5. CASE ClientIdNotSaved(p)
  BY <1>5 DEF ClientIdInv, DomainsOK, ClientIdNotSaved, FillsPartly, Closes, Reports, Does,
       Busy, HasClientId
<1> QED BY <1>1, <1>2, <1>3, <1>4, <1>5

LEMMA ClientIdStays == ASSUME ClientIdInv, CommandInv, [Next]_vars PROVE ClientIdInv'
<1> DomainsOK' BY DomainsKept DEF ClientIdInv
<1>1. CASE \E p \in Proc, c \in Commands : Type(p, c)
  BY <1>1, FilesAssumption DEF ClientIdInv, DomainsOK, Type, FirstStep, Busy, HasClientId, disk
<1>2. CASE \E p \in Proc : CommandStep(p) \/ KillCommand(p)
  <2> PICK p \in Proc : CommandStep(p) \/ KillCommand(p) BY <1>2
  <2>1. UNCHANGED <<home, named>> /\ \A q \in Proc \ {p} : doing'[q] = doing[q]
    BY OthersAlone DEF ClientIdInv
  <2>2. CASE \/ NameKnown(p) \/ GenerateClientId(p) \/ OpenClientId(p) \/ WriteClientId(p)
             \/ ClientIdNotSaved(p)
    BY <2>1, <2>2, ClientIdStep
  <2>3. CASE ~(NameKnown(p) \/ GenerateClientId(p) \/ OpenClientId(p) \/ WriteClientId(p)
               \/ ClientIdNotSaved(p))
    BY <2>1, <2>3, ClientIdAlone DEF ClientIdInv, Busy, HasClientId
  <2> QED BY <2>2, <2>3
<1>3. CASE (\E key \in Key : Expire(key)) \/ UNCHANGED fileVars
  BY <1>3 DEF ClientIdInv, Expire, fileVars, disk, Busy, HasClientId
<1> QED BY <1>1, <1>2, <1>3, NextCases

\* One client id per machine, whatever is killed or cannot be saved, unless two runs
\* draw one at the same time (get_or_create_client_id).
THEOREM ClientIdIsOne == Spec => []OneClientId
<1>1. Init => ClientIdInv
  BY DEF Init, FilesInit, ClientIdInv, DomainsOK, Busy
<1>2. ClientIdInv => OneClientId
  <2>1. ASSUME ClientIdInv, named \/ ~home PROVE OneClientId
    BY <2>1 DEF ClientIdInv, OneClientId
  <2>2. ASSUME ClientIdInv, ~named, home PROVE OneClientId
    BY <2>2 DEF ClientIdInv, OneClientId
  <2> QED BY <2>1, <2>2
<1> QED BY <1>1, <1>2, ClientIdStays, CommandsHold, PTL DEF Spec

-----------------------------------------------------------------------------
(* The tools.                                                              *)

\* A stable version is never newer than the newest.
Versions ==
  /\ registry \in [Tool -> [stable : Nat, newest : Nat \ {0}]]
  /\ \A t \in Tool : registry[t].stable <= registry[t].newest
  /\ installed \in [Tool -> Nat] /\ nature \in Nature /\ meddled \in Nat

Places == Ended \cup {"idle", "probe", "lookup", "install"}
Update == [tool : Tool, from : Nat, to : Nat]

\* Where a run is, the tool it is at, and the tools it has still to do.
RunsOK ==
  /\ at \in [Run -> Places] /\ work \in [Run -> Seq(Tool)] /\ queue \in [Run -> Seq(Tool)]
  /\ seen \in [Run -> Nat] /\ latest \in [Run -> Nat]
  /\ child \in [Run -> {<<>>} \cup {<<t>> : t \in Tool}] /\ records \in [Run -> Seq(Update)]
  /\ \A p \in Run :
       /\ at[p] \in {"lookup", "install"} => queue[p] # <<>>
       /\ at[p] = "install" => child[p] \in {<<>>, <<Needed(p)>>}
       /\ at[p] \in {"idle", "probe", "lookup"} => child[p] = <<>>

TypeInv == Versions /\ RunsOK

\* A step of the system is one of a run of this machine, or leaves the tools alone.
LEMMA ToolCases ==
  ASSUME CommandInv, [Next]_vars
  PROVE  \/ \E p \in Run : \E tools \in Works : StartTools(p, tools)
         \/ \E p \in Run : EnsureStep(p) \/ InstallerSucceeds(p) \/ InstallerFails(p) \/ KillRun(p)
         \/ \E t \in Tool, stable \in BOOLEAN : Publish(t, stable)
         \/ \E t \in Tool : \E version \in {0, registry[t].newest} : Meddle(t, version)
         \/ UNCHANGED toolVars
<1>1. CASE \E p \in Run : ReachTools(p)
  <2> PICK p \in Run : ReachTools(p) BY <1>1
  <2>1. command[p].tools \in Works
    BY MachineAssumption DEF ReachTools, CommandInv, CommandOK
  <2> QED BY <2>1 DEF ReachTools
<1>2. CASE \E p \in Run : InTools(p) \/ Installs(p) \/ KillRun(p)
  BY <1>2 DEF InTools, Installs, InstallerStep
<1>3. CASE World
  BY <1>3 DEF World, ToolWorld
<1>4. CASE \E p \in Proc, c \in Commands : TypeCommand(p, c)
  BY <1>4 DEF TypeCommand
<1>5. CASE \E p \in Proc : InFiles(p) \/ (KillCommand(p) /\ UNCHANGED toolVars)
  BY <1>5 DEF InFiles
<1>6. CASE UNCHANGED vars
  BY <1>6 DEF vars
<1>7. \/ \E p \in Run : ReachTools(p)
      \/ \E p \in Run : InTools(p) \/ Installs(p) \/ KillRun(p)
      \/ \E p \in Proc : InFiles(p) \/ (KillCommand(p) /\ UNCHANGED toolVars)
      \/ \E p \in Proc, c \in Commands : TypeCommand(p, c)
      \/ World \/ UNCHANGED vars
  BY DEF Next
<1> HIDE DEF Next, World
<1> QED BY <1>1, <1>2, <1>3, <1>4, <1>5, <1>6, <1>7

\* What crates.io says only goes up, and an installer leaves a version.
LEMMA PickVersionType ==
  ASSUME Versions, NEW t \in Tool
  PROVE  PickVersion(t) \in Nat \ {0} /\ Effect(t) \in Nat
BY DEF Versions, PickVersion, Effect

LEMMA PublishGoesUp ==
  ASSUME Versions, NEW t \in Tool, NEW stable \in BOOLEAN, Publish(t, stable)
  PROVE  Versions' /\ \A u \in Tool : PickVersion(u) <= PickVersion(u)'
<1>1. Versions'
  <2> DEFINE N == registry[t].newest + 1
             S == IF stable THEN N ELSE registry[t].stable
             R == [registry EXCEPT ![t].newest = N]
             V == [stable : Nat, newest : Nat \ {0}]
  <2>1. registry[t] \in V /\ N \in Nat \ {0} /\ S \in Nat /\ S <= N
    BY DEF Versions
  <2>2. R \in [Tool -> V] /\ R[t].stable = registry[t].stable /\ R[t].newest = N
    BY <2>1 DEF Versions
  <2>3. registry' = [R EXCEPT ![t].stable = S]
    BY DEF Publish
  <2>4. registry'[t].stable = S /\ registry'[t].newest = N /\ registry' \in [Tool -> V]
    <3> HIDE DEF R, N, S
    <3> QED BY <2>1, <2>2, <2>3
  <2>5. \A u \in Tool \ {t} : registry'[u] = registry[u]
    BY DEF Versions, Publish
  <2> QED BY <2>1, <2>4, <2>5 DEF Versions, Publish
<1>2. ASSUME NEW u \in Tool PROVE PickVersion(u) <= PickVersion(u)'
  BY DEF Versions, Publish, PickVersion
<1> QED BY <1>1, <1>2

\* The effect of one run's step on the others: none.
Same(q) ==
  /\ at'[q] = at[q] /\ work'[q] = work[q] /\ queue'[q] = queue[q] /\ seen'[q] = seen[q]
  /\ latest'[q] = latest[q] /\ child'[q] = child[q] /\ records'[q] = records[q]

LEMMA EnsureType ==
  ASSUME TypeInv, NEW p \in Run, EnsureStep(p) \/ KillRun(p)
  PROVE  TypeInv' /\ UNCHANGED machine /\ \A q \in Run \ {p} : Same(q)
<1> USE DEF TypeInv, Versions, RunsOK, Same, machine, Places, Ended, Needed
<1>1. CASE AllReady(p)
  BY <1>1 DEF AllReady
<1>2. CASE Present(p) \/ Compare(p)
  <2>1. Head(queue[p]) \in Tool /\ Tail(queue[p]) \in Seq(Tool)
    BY <1>2, HeadTailProperties DEF Present, Compare, Probing
  <2> QED BY <1>2, <2>1 DEF Present, Compare, Probing, See, Pass, Go
<1>3. CASE RequiredToolMissing(p) \/ Absent(p)
  <2>1. Head(queue[p]) \in Tool
    BY <1>3, HeadTailProperties DEF RequiredToolMissing, Absent, Probing
  <2>2. CASE RequiredToolMissing(p)
    BY <2>1, <2>2 DEF RequiredToolMissing, Probing, See, Go
  <2>3. CASE Absent(p)
    BY <2>1, <2>3 DEF Absent, Probing, See, Go
  <2> QED BY <1>3, <2>2, <2>3
<1>4. CASE LookupFails(p)
  <2>1. Tail(queue[p]) \in Seq(Tool)
    BY <1>4, HeadTailProperties DEF LookupFails
  <2> QED BY <1>4, <2>1 DEF LookupFails, Pass
<1>5. CASE LookupAnswers(p)
  <2>1. Head(queue[p]) \in Tool /\ Tail(queue[p]) \in Seq(Tool)
    BY <1>5, HeadTailProperties DEF LookupAnswers
  <2>2. PickVersion(Needed(p)) \in Nat
    BY <2>1, PickVersionType
  <2> QED BY <1>5, <2>1, <2>2 DEF LookupAnswers, Pass, Go
<1>6. CASE InstallSpawnFails(p) \/ StartInstall(p)
  <2>1. Head(queue[p]) \in Tool
    BY <1>6, HeadTailProperties DEF InstallSpawnFails, StartInstall
  <2>2. CASE InstallSpawnFails(p)
    BY <2>1, <2>2 DEF InstallSpawnFails, Go
  <2>3. CASE StartInstall(p)
    BY <2>1, <2>3 DEF StartInstall
  <2> QED BY <1>6, <2>2, <2>3
<1>7. CASE KillRun(p)
  BY <1>7 DEF KillRun, Go
<1> QED BY <1>1, <1>2, <1>3, <1>4, <1>5, <1>6, <1>7
     DEF EnsureStep, ToolOwnStep, CheckReturns, LookupReturns

\* An installer leaves its tool as it was or at what it installs, and no other.
LEMMA InstallerType ==
  ASSUME TypeInv, NEW p \in Run, InstallerSucceeds(p) \/ InstallerFails(p)
  PROVE  /\ TypeInv' /\ UNCHANGED <<registry, nature, meddled, work, seen, latest>>
         /\ \A q \in Run \ {p} : Same(q)
         /\ \E t \in Tool :
              /\ child[p] = <<t>> /\ \A u \in Tool \ {t} : installed'[u] = installed[u]
              /\ installed'[t] \in {installed[t], Effect(t)}
              /\ InstallerSucceeds(p) => installed'[t] = Effect(t)
<1>1. PICK t \in Tool : child[p] = <<t>>
  BY DEF TypeInv, RunsOK, InstallerSucceeds, InstallerFails
<1>2. Effect(t) \in Nat
  BY PickVersionType DEF TypeInv
<1>3. /\ UNCHANGED <<registry, nature, meddled, work, seen, latest>>
      /\ child' = [child EXCEPT ![p] = <<>>]
      /\ \E v \in {installed[t], Effect(t)} : installed' = [installed EXCEPT ![t] = v]
      /\ InstallerSucceeds(p) => installed' = [installed EXCEPT ![t] = Effect(t)]
  BY <1>1 DEF InstallerSucceeds, InstallerFails
<1>4. /\ \A u \in Tool \ {t} : installed'[u] = installed[u]
      /\ installed'[t] \in {installed[t], Effect(t)} /\ installed' \in [Tool -> Nat]
      /\ InstallerSucceeds(p) => installed'[t] = Effect(t)
  BY <1>2, <1>3 DEF TypeInv, Versions
<1>5. Versions'
  BY <1>3, <1>4 DEF TypeInv, Versions
<1>6. RunsOK' /\ \A q \in Run \ {p} : Same(q)
  <2>1. CASE at[p] = "install" /\ InstallDone(p)
    <3>1. Needed(p) \in Tool /\ Tail(queue[p]) \in Seq(Tool)
      BY <2>1, HeadTailProperties DEF TypeInv, RunsOK, Needed
    <3>2. Record(Needed(p), seen[p], latest[p]) \in Update
      BY <3>1 DEF TypeInv, RunsOK, Record, Update
    <3>3. Append(records[p], Record(Needed(p), seen[p], latest[p])) \in Seq(Update)
      BY <3>2 DEF TypeInv, RunsOK
    <3> QED BY <1>3, <2>1, <3>1, <3>3 DEF TypeInv, RunsOK, Same, InstallDone, Pass, Places, Needed
  <2>2. CASE at[p] = "install" /\ InstallFailed(p)
    BY <1>3, <2>2 DEF TypeInv, RunsOK, Same, InstallFailed, Places, Ended, Needed
  <2>3. CASE Unawaited(p)
    BY <1>3, <2>3 DEF TypeInv, RunsOK, Same, Unawaited, Needed
  <2> QED BY <2>1, <2>2, <2>3 DEF InstallerSucceeds, InstallerFails
<1> QED BY <1>1, <1>3, <1>4, <1>5, <1>6 DEF TypeInv

LEMMA StartType ==
  ASSUME TypeInv, NEW p \in Run, NEW tools \in Works, StartTools(p, tools)
  PROVE  TypeInv' /\ UNCHANGED machine /\ \A q \in Run \ {p} : Same(q)
BY ToolsAssumption DEF StartTools, TypeInv, Versions, RunsOK, Same, machine, Places, Needed

LEMMA MeddleType ==
  ASSUME TypeInv, NEW t \in Tool, NEW version \in {0, registry[t].newest}, Meddle(t, version)
  PROVE  TypeInv' /\ meddled' # 0 /\ UNCHANGED <<registry, nature, runs>>
BY DEF Meddle, TypeInv, Versions, RunsOK, runs, Needed

LEMMA TypeStays == ASSUME CommandInv, TypeInv, [Next]_vars PROVE TypeInv'
<1>1. CASE \E p \in Run : \E tools \in Works : StartTools(p, tools)
  BY <1>1, StartType
<1>2. CASE \E p \in Run : EnsureStep(p) \/ InstallerSucceeds(p) \/ InstallerFails(p) \/ KillRun(p)
  BY <1>2, EnsureType, InstallerType
<1>3. CASE \E t \in Tool, stable \in BOOLEAN : Publish(t, stable)
  BY <1>3, PublishGoesUp DEF TypeInv, RunsOK, Publish, runs, Needed
<1>4. CASE \E t \in Tool : \E version \in {0, registry[t].newest} : Meddle(t, version)
  BY <1>4, MeddleType
<1>5. CASE UNCHANGED toolVars
  BY <1>5 DEF TypeInv, Versions, RunsOK, toolVars, machine, runs, Needed
<1> QED BY <1>1, <1>2, <1>3, <1>4, <1>5, ToolCases

\* Every variable of the tools holds a value of its kind, and a run that waits for an
\* installer waits for that of the tool it is at.
THEOREM ToolTypes == Spec => []TypeInv
<1>1. Init => TypeInv
  BY DEF Init, ToolsInit, TypeInv, Versions, RunsOK, Places
<1> QED BY <1>1, TypeStays, CommandsHold, PTL DEF Spec

-----------------------------------------------------------------------------

\* A lookup is about a tool that was found, and an installer is started for one that
\* was not, or for a version above the one probed that crates.io still has.
LookOK(p) ==
  /\ at[p] = "lookup" => seen[p] # 0
  /\ at[p] = "install" =>
       \/ seen[p] = 0 /\ latest[p] = 0
       \/ seen[p] # 0 /\ seen[p] < latest[p] /\ latest[p] <= PickVersion(Needed(p))

LookInv == TypeInv /\ \A p \in Run : LookOK(p)

LEMMA EnsureLooks ==
  ASSUME TypeInv, NEW p \in Run, LookOK(p), EnsureStep(p) \/ KillRun(p)
  PROVE  LookOK(p)'
<1> UNCHANGED registry BY EnsureType DEF machine
<1> USE DEF TypeInv, RunsOK, LookOK, Needed
<1>1. CASE AllReady(p) \/ Present(p) \/ RequiredToolMissing(p) \/ LookupFails(p)
           \/ InstallSpawnFails(p) \/ KillRun(p)
  <2>1. at'[p] \notin {"lookup", "install"}
    BY <1>1 DEF AllReady, Present, RequiredToolMissing, LookupFails, InstallSpawnFails, KillRun,
         Pass, Go
  <2> QED BY <2>1
<1>2. CASE Compare(p)
  BY <1>2 DEF Compare, Probing, Found, See, Go
<1>3. CASE Absent(p)
  <2>1. installed[Needed(p)] = 0
    BY <1>3 DEF Absent, Found
  <2> QED BY <1>3, <2>1 DEF Absent, Probing, See, Go
<1>4. CASE LookupAnswers(p)
  <2>1. Head(queue[p]) \in Tool
    BY <1>4, HeadTailProperties DEF LookupAnswers
  <2>2. PickVersion(Needed(p)) \in Nat
    BY <2>1, PickVersionType
  <2>3. PickVersion(Needed(p))' = PickVersion(Needed(p)) \/ queue'[p] # queue[p]
    BY DEF PickVersion
  <2>4. CASE Newer(PickVersion(Needed(p)), seen[p])
    <3>1. queue' = queue /\ latest'[p] = PickVersion(Needed(p)) /\ seen' = seen /\ at'[p] = "install"
      BY <1>4, <2>4 DEF LookupAnswers, Go
    <3>2. PickVersion(Needed(p))' = PickVersion(Needed(p))
      BY <3>1 DEF PickVersion
    <3> QED BY <1>4, <2>2, <2>4, <3>1, <3>2 DEF Newer, LookupAnswers
  <2>5. CASE ~Newer(PickVersion(Needed(p)), seen[p])
    BY <1>4, <2>5 DEF LookupAnswers, Pass
  <2> QED BY <2>4, <2>5
<1>5. CASE StartInstall(p)
  <2>1. PickVersion(Needed(p))' = PickVersion(Needed(p))
    BY <1>5 DEF StartInstall, PickVersion
  <2> QED BY <1>5, <2>1 DEF StartInstall
<1> QED BY <1>1, <1>2, <1>3, <1>4, <1>5 DEF EnsureStep, ToolOwnStep, CheckReturns, LookupReturns

\* What a run has looked up is unaffected by others, and by what is published.
LEMMA LooksAlone ==
  ASSUME TypeInv, NEW q \in Run, LookOK(q), Same(q),
         \A t \in Tool : PickVersion(t) <= PickVersion(t)'
         , Versions'
  PROVE  LookOK(q)'
<1>1. CASE at[q] = "install"
  <2>1. Needed(q) \in Tool /\ Needed(q)' = Needed(q)
    BY <1>1, HeadTailProperties DEF TypeInv, RunsOK, Needed, Same
  <2>2. PickVersion(Needed(q)) \in Nat /\ PickVersion(Needed(q)) <= PickVersion(Needed(q))'
    BY <2>1, PickVersionType DEF TypeInv
  <2>3. PickVersion(Needed(q))' \in Nat
    BY <2>1 DEF Versions, PickVersion
  <2> QED BY <2>1, <2>2, <2>3 DEF TypeInv, RunsOK, LookOK, Same
<1>2. CASE at[q] # "install"
  BY <1>2 DEF LookOK, Same
<1> QED BY <1>1, <1>2

LEMMA PicksUp ==
  ASSUME TypeInv, registry' = registry
  PROVE  \A t \in Tool : PickVersion(t) <= PickVersion(t)'
BY PickVersionType DEF TypeInv, PickVersion, Versions

LEMMA LookStays == ASSUME CommandInv, LookInv, [Next]_vars PROVE LookInv'
<1> TypeInv' BY TypeStays DEF LookInv
<1> Versions' BY DEF TypeInv
<1> SUFFICES ASSUME NEW q \in Run PROVE LookOK(q)'
  BY DEF LookInv
<1> TypeInv /\ LookOK(q) BY DEF LookInv
<1>1. CASE \E p \in Run : \E tools \in Works : StartTools(p, tools)
  <2> PICK p \in Run : \E tools \in Works : StartTools(p, tools) BY <1>1
  <2>1. CASE p = q
    BY <2>1 DEF StartTools, TypeInv, RunsOK, LookOK
  <2>2. CASE p # q
    BY <2>2, StartType, LooksAlone, PicksUp DEF machine
  <2> QED BY <2>1, <2>2
<1>2. CASE \E p \in Run : EnsureStep(p) \/ KillRun(p)
  <2> PICK p \in Run : EnsureStep(p) \/ KillRun(p) BY <1>2
  <2>1. CASE p = q
    BY <2>1, EnsureLooks
  <2>2. CASE p # q
    BY <2>2, EnsureType, LooksAlone, PicksUp DEF machine
  <2> QED BY <2>1, <2>2
<1>3. CASE \E p \in Run : InstallerSucceeds(p) \/ InstallerFails(p)
  <2> PICK p \in Run : InstallerSucceeds(p) \/ InstallerFails(p) BY <1>3
  <2>1. CASE p = q
    <3>1. (at'[q] = at[q] /\ at[q] # "install") \/ at'[q] \in {"probe", "failed"}
      BY <2>1 DEF InstallerSucceeds, InstallerFails, InstallDone, InstallFailed, Unawaited, Pass,
           TypeInv, RunsOK
    <3>2. seen' = seen
      BY InstallerType
    <3> QED BY <3>1, <3>2 DEF LookOK
  <2>2. CASE p # q
    BY <2>2, InstallerType, LooksAlone, PicksUp
  <2> QED BY <2>1, <2>2
<1>4. CASE \E t \in Tool, stable \in BOOLEAN : Publish(t, stable)
  BY <1>4, PublishGoesUp, LooksAlone DEF TypeInv, Publish, runs, Same
<1>5. CASE \E t \in Tool : \E version \in {0, registry[t].newest} : Meddle(t, version)
  BY <1>5, MeddleType, LooksAlone, PicksUp DEF runs, Same
<1>6. CASE UNCHANGED toolVars
  BY <1>6, LooksAlone, PicksUp DEF toolVars, machine, runs, Same
<1> QED BY <1>1, <1>2, <1>3, <1>4, <1>5, <1>6, ToolCases

\* The installer a run waits for is that of the tool it is at.
LEMMA ItsOwnTool ==
  ASSUME TypeInv, NEW p \in Run, at[p] = "install", NEW t \in Tool, child[p] = <<t>>
  PROVE  Needed(p) = t /\ queue[p] # <<>> /\ queue[p] \in Seq(Tool)
<1>1. <<t>> \in {<<>>, <<Needed(p)>>} /\ queue[p] # <<>> /\ queue[p] \in Seq(Tool)
  BY DEF TypeInv, RunsOK
<1>2. <<t>> # <<>>
  OBVIOUS
<1>3. <<t>>[1] = <<Needed(p)>>[1]
  BY <1>1, <1>2
<1> QED BY <1>1, <1>3

\* No run starts an installer for a version it has seen, or that is gone.
THEOREM LooksHold == Spec => []LookInv
<1>1. Init => LookInv
  BY DEF Init, ToolsInit, LookInv, TypeInv, Versions, RunsOK, Places, LookOK
<1> QED BY <1>1, LookStays, CommandsHold, PTL DEF Spec

\* A tool that nobody else has touched goes up when it is installed, whatever is
\* published while the installer is at work (update_if_newer, run_install).
THEOREM InstallsAreNeeded == Spec => InstallIsNeeded
<1>1. ASSUME CommandInv, LookInv, [Next]_vars, NEW p \in Run, records'[p] # records[p],
             nature[Needed(p)].installer = "newest", installed[Needed(p)] = seen[p]
      PROVE  installed'[Needed(p)] > installed[Needed(p)]
  <2> TypeInv /\ LookOK(p) BY <1>1 DEF LookInv
  <2>1. InstallerSucceeds(p) /\ at[p] = "install"
    <3>1. ASSUME NEW q \in Run, q # p, EnsureStep(q) \/ KillRun(q) \/ InstallerSucceeds(q)
                   \/ InstallerFails(q) \/ \E tools \in Works : StartTools(q, tools)
          PROVE  FALSE
      BY <1>1, <3>1, EnsureType, InstallerType, StartType DEF Same
    <3>2. ~(EnsureStep(p) \/ KillRun(p) \/ \E tools \in Works : StartTools(p, tools))
      BY <1>1 DEF EnsureStep, ToolOwnStep, CheckReturns, LookupReturns,
        AllReady, Present, Compare, RequiredToolMissing, Absent, LookupFails,
           LookupAnswers, InstallSpawnFails, StartInstall, KillRun, StartTools
    <3>3. ~InstallerFails(p)
      BY <1>1 DEF InstallerFails, InstallFailed, Unawaited
    <3>4. /\ ~(\E t \in Tool, stable \in BOOLEAN : Publish(t, stable))
          /\ ~(\E t \in Tool : \E version \in {0, registry[t].newest} : Meddle(t, version))
          /\ ~(UNCHANGED toolVars)
      BY <1>1 DEF Publish, Meddle, toolVars, runs
    <3> QED BY <1>1, <3>1, <3>2, <3>3, <3>4, ToolCases DEF InstallerSucceeds, Unawaited
  <2>2. PICK t \in Tool : child[p] = <<t>> /\ installed'[t] = Effect(t)
    BY <2>1, InstallerType
  <2>3. Needed(p) = t
    BY <2>1, <2>2, ItsOwnTool
  <2>4. Effect(t) = PickVersion(t) /\ PickVersion(t) \in Nat \ {0}
    BY <1>1, <2>3, PickVersionType DEF Effect, TypeInv
  <2> QED BY <1>1, <2>1, <2>2, <2>3, <2>4 DEF LookOK, TypeInv, RunsOK
<1>2. ASSUME CommandInv, LookInv, [Next]_vars
      PROVE  [\A p \in Run :
               LET t == Needed(p) IN
               records'[p] # records[p] /\ nature[t].installer = "newest" /\ installed[t] = seen[p] =>
                 installed'[t] > installed[t]]_toolVars
  BY <1>1, <1>2
<1> QED BY <1>2, LooksHold, CommandsHold, PTL DEF Spec, InstallIsNeeded

-----------------------------------------------------------------------------

\* Without a user's interference nothing is above what crates.io has, so that an
\* installer of the newest never goes back.
BelowNewest ==
  meddled = 0 =>
    \A t \in Tool : nature[t].installer = "newest" => installed[t] <= PickVersion(t)

RecordInv == LookInv /\ BelowNewest /\ RecordsTrue

\* A record that holds goes on to hold when its tool does not go back.
RecordHolds(r) ==
  /\ r.from # 0 => r.from < r.to
  /\ meddled = 0 /\ nature[r.tool].installer = "newest" =>
       installed[r.tool] > 0 /\ installed[r.tool] >= r.to

LEMMA RecordKept ==
  ASSUME TypeInv, TypeInv', NEW r \in Update, RecordHolds(r), UNCHANGED <<nature, meddled>>,
         meddled = 0 /\ nature[r.tool].installer = "newest" =>
           installed[r.tool] <= installed'[r.tool]
  PROVE  RecordHolds(r)'
<1> r.tool \in Tool /\ r.to \in Nat /\ r.from \in Nat BY DEF Update
<1> installed[r.tool] \in Nat /\ installed'[r.tool] \in Nat BY DEF TypeInv, Versions
<1> QED BY DEF RecordHolds

LEMMA RecordType ==
  ASSUME TypeInv, NEW p \in Run, NEW n \in 1..Len(records[p])
  PROVE  records[p][n] \in Update
BY DEF TypeInv, RunsOK

\* The installers: a new record says what was seen and what was looked up.
LEMMA InstallersRecord ==
  ASSUME RecordInv, TypeInv', NEW p \in Run, InstallerSucceeds(p) \/ InstallerFails(p)
  PROVE  BelowNewest' /\ RecordsTrue'
<1> TypeInv /\ LookOK(p) BY DEF RecordInv, LookInv
<1>1. PICK t \in Tool :
        /\ child[p] = <<t>> /\ \A u \in Tool \ {t} : installed'[u] = installed[u]
        /\ installed'[t] \in {installed[t], Effect(t)}
        /\ InstallerSucceeds(p) => installed'[t] = Effect(t)
  BY InstallerType
<1>2. UNCHANGED <<registry, nature, meddled, seen, latest>> /\ \A q \in Run \ {p} : Same(q)
  BY InstallerType
<1>3. \A u \in Tool : PickVersion(u)' = PickVersion(u) /\ PickVersion(u) \in Nat \ {0}
  BY <1>2, PickVersionType DEF PickVersion, TypeInv
<1>4. ASSUME meddled = 0, NEW u \in Tool, nature[u].installer = "newest"
      PROVE  installed[u] <= installed'[u] /\ installed'[u] <= PickVersion(u)
  <2>1. installed[u] \in Nat /\ installed[u] <= PickVersion(u) /\ PickVersion(u) \in Nat
    BY <1>3, <1>4 DEF RecordInv, BelowNewest, TypeInv, Versions
  <2>2. Effect(u) = PickVersion(u)
    BY <1>4 DEF Effect
  <2> QED BY <1>1, <2>1, <2>2
<1>5. BelowNewest'
  BY <1>2, <1>3, <1>4 DEF BelowNewest
<1>6. ASSUME NEW r \in Update, RecordHolds(r) PROVE RecordHolds(r)'
  BY <1>2, <1>4, <1>6, RecordKept DEF Update
<1>7. ASSUME NEW q \in Run, NEW n \in 1..Len(records'[q]), NEW r \in Update,
             r = records'[q][n]
      PROVE  RecordHolds(r)'
  <2>1. CASE n \in 1..Len(records[q]) /\ records'[q][n] = records[q][n]
    BY <1>6, <1>7, <2>1 DEF RecordInv, RecordsTrue, RecordHolds
  <2>2. CASE /\ q = p /\ InstallDone(p) /\ at[p] = "install" /\ InstallerSucceeds(p)
             /\ n = Len(records[p]) + 1
    <3>1. r = Record(t, seen[p], latest[p]) /\ t = Needed(p)
      <4>1. t = Needed(p)
        BY <1>1, <2>2, ItsOwnTool
      <4>2. /\ records[p] \in Seq(Update)
            /\ records'[p] = Append(records[p], Record(Needed(p), seen[p], latest[p]))
        BY <2>2 DEF InstallDone, TypeInv, RunsOK
      <4> QED BY <1>7, <2>2, <4>1, <4>2
    <3>2. r.tool = t /\ r.from = seen[p] /\ r.to = latest[p] /\ seen[p] \in Nat /\ latest[p] \in Nat
      BY <3>1 DEF Record, TypeInv, RunsOK
    <3>3. PickVersion(t) \in Nat \ {0} /\ latest[p] <= PickVersion(t)
      BY <1>3, <2>2, <3>1 DEF LookOK, TypeInv, RunsOK
    <3>4. nature[t].installer = "newest" => installed'[t] = PickVersion(t)
      BY <1>1, <2>2 DEF Effect
    <3> QED BY <1>2, <2>2, <3>2, <3>3, <3>4 DEF RecordHolds, LookOK
  <2>3. CASE q # p \/ records' = records
    BY <1>2, <1>7, <2>1, <2>3 DEF Same, TypeInv, RunsOK
  <2>4. CASE q = p /\ InstallDone(p) /\ n # Len(records[p]) + 1
    <3>1. records[p] \in Seq(Update) /\ records'[p] = Append(records[p], Record(Needed(p), seen[p], latest[p]))
      BY <2>4 DEF InstallDone, TypeInv, RunsOK
    <3> QED BY <1>7, <2>1, <2>4, <3>1
  <2>5. (at[p] = "install" /\ InstallDone(p) /\ InstallerSucceeds(p)) \/ records' = records
    BY DEF InstallerSucceeds, InstallerFails, InstallFailed, Unawaited
  <2> QED BY <2>2, <2>3, <2>4, <2>5
<1>8. \A q \in Run : \A n \in 1..Len(records'[q]) : records'[q][n] \in Update
  BY DEF TypeInv, RunsOK
<1>9. RecordsTrue'
  BY <1>7, <1>8 DEF RecordsTrue, RecordHolds
<1> QED BY <1>5, <1>9

\* Everybody else leaves the tools no older than they are, or is the user.
LEMMA OthersRecord ==
  ASSUME RecordInv, TypeInv', UNCHANGED records,
         meddled' # 0 \/ UNCHANGED <<installed, nature, meddled>>,
         \A t \in Tool : PickVersion(t) <= PickVersion(t)'
  PROVE  BelowNewest' /\ RecordsTrue'
<1>1. CASE meddled' # 0
  BY <1>1 DEF RecordInv, RecordsTrue, BelowNewest
<1>2. CASE UNCHANGED <<installed, nature, meddled>>
  <2>1. \A t \in Tool : PickVersion(t) \in Nat /\ PickVersion(t)' \in Nat /\ installed[t] \in Nat
    BY DEF RecordInv, LookInv, TypeInv, Versions, PickVersion
  <2> QED BY <1>2, <2>1 DEF RecordInv, RecordsTrue, BelowNewest
<1> QED BY <1>1, <1>2

LEMMA RecordStays == ASSUME CommandInv, RecordInv, [Next]_vars PROVE RecordInv'
<1> TypeInv /\ LookInv BY DEF RecordInv, LookInv
<1> LookInv' /\ TypeInv' BY LookStays DEF LookInv
<1>1. CASE \E p \in Run : \E tools \in Works : StartTools(p, tools)
  BY <1>1, StartType, OthersRecord, PicksUp DEF RecordInv, StartTools, machine
<1>2. CASE \E p \in Run : EnsureStep(p) \/ KillRun(p)
  <2> PICK p \in Run : EnsureStep(p) \/ KillRun(p) BY <1>2
  <2>1. UNCHANGED records
    BY DEF EnsureStep, ToolOwnStep, CheckReturns, LookupReturns,
      AllReady, Present, Compare, RequiredToolMissing, Absent, LookupFails,
       LookupAnswers, InstallSpawnFails, StartInstall, KillRun
  <2> QED BY <2>1, EnsureType, OthersRecord, PicksUp DEF RecordInv, machine
<1>3. CASE \E p \in Run : InstallerSucceeds(p) \/ InstallerFails(p)
  BY <1>3, InstallersRecord DEF RecordInv
<1>4. CASE \E t \in Tool, stable \in BOOLEAN : Publish(t, stable)
  BY <1>4, PublishGoesUp, OthersRecord DEF RecordInv, TypeInv, Publish, runs
<1>5. CASE \E t \in Tool : \E version \in {0, registry[t].newest} : Meddle(t, version)
  BY <1>5, MeddleType, OthersRecord, PicksUp DEF RecordInv, runs
<1>6. CASE UNCHANGED toolVars
  BY <1>6, OthersRecord, PicksUp DEF RecordInv, toolVars, machine, runs
<1> QED BY <1>1, <1>2, <1>3, <1>4, <1>5, <1>6, ToolCases

\* The summary tells the truth whatever other runs, their orphaned installers and
\* crates.io do meanwhile.
THEOREM RecordsAreTrue == Spec => []RecordsTrue
<1>1. Init => RecordInv
  BY DEF Init, ToolsInit, RecordInv, LookInv, TypeInv, Versions, RunsOK, Places, LookOK,
     BelowNewest, RecordsTrue, PickVersion
<1> QED BY <1>1, RecordStays, CommandsHold, PTL DEF Spec, RecordInv

-----------------------------------------------------------------------------


\* The tools that are there, or whose installers do nothing.
Have == {t \in Tool : installed[t] # 0 \/ (nature[t].installer = "idle" /\ InstallDeclared(t))}

Passed(p) == Len(work[p]) - Len(queue[p])

\* Of a run's tools those it has passed are there; and the one it looks up or installs
\* is, or may be installed.
ReadyOK(p) ==
  /\ Passed(p) \in Nat
  /\ \A n \in 1..Len(queue[p]) : queue[p][n] = work[p][Passed(p) + n]
  /\ \A n \in 1..Passed(p) : work[p][n] \in Have
  /\ at[p] = "lookup" => installed[Needed(p)] # 0
  /\ at[p] = "install" => installed[Needed(p)] # 0 \/ InstallDeclared(Needed(p))
  /\ at[p] = "ready" => queue[p] = <<>>

ReadyInv == TypeInv /\ (meddled = 0 => \A p \in Run : ReadyOK(p))

\* The rest of a sequence, without its head, is the rest of it.
LEMMA TailIsRest ==
  ASSUME NEW S, NEW W \in Seq(S), NEW Q \in Seq(S), Q # <<>>, NEW K \in Nat,
         K = Len(W) - Len(Q), \A n \in 1..Len(Q) : Q[n] = W[K + n]
  PROVE  /\ Len(W) - Len(Tail(Q)) = K + 1 /\ Head(Q) = W[K + 1]
         /\ \A n \in 1..Len(Tail(Q)) : Tail(Q)[n] = W[K + 1 + n]
<1>1. /\ Len(Q) \in Nat \ {0} /\ Len(W) \in Nat /\ Len(Tail(Q)) = Len(Q) - 1 /\ Head(Q) = Q[1]
      /\ \A n \in 1..(Len(Q) - 1) : Tail(Q)[n] = Q[n + 1]
  BY HeadTailProperties, EmptySeq
<1>2. Head(Q) = W[K + 1]
  BY <1>1
<1>3. ASSUME NEW n \in 1..Len(Tail(Q)) PROVE Tail(Q)[n] = W[K + 1 + n]
  <2>1. n + 1 \in 1..Len(Q) /\ Tail(Q)[n] = Q[n + 1]
    BY <1>1
  <2>2. Q[n + 1] = W[K + (n + 1)]
    BY <2>1
  <2>3. K + (n + 1) = K + 1 + n
    BY <1>1
  <2> QED BY <2>1, <2>2, <2>3
<1> QED BY <1>1, <1>2, <1>3

\* A run passes its first tool when it is there.
LEMMA PassKeeps ==
  ASSUME TypeInv, TypeInv', NEW p \in Run, ReadyOK(p), queue[p] # <<>>,
         queue' = [queue EXCEPT ![p] = Tail(@)], work' = work, at'[p] = "probe",
         Have \subseteq Have', Needed(p) \in Have'
  PROVE  ReadyOK(p)'
<1>1. PICK Q \in Seq(Tool), W \in Seq(Tool), K \in Nat :
        Q = queue[p] /\ W = work[p] /\ K = Passed(p)
  BY DEF TypeInv, RunsOK, ReadyOK
<1>2. queue'[p] = Tail(Q) /\ work'[p] = W /\ Q # <<>>
  BY <1>1 DEF TypeInv, RunsOK
<1>3. K = Len(W) - Len(Q) /\ \A n \in 1..Len(Q) : Q[n] = W[K + n]
  BY <1>1 DEF ReadyOK, Passed
<1>4. /\ Len(W) - Len(Tail(Q)) = K + 1 /\ Head(Q) = W[K + 1]
      /\ \A n \in 1..Len(Tail(Q)) : Tail(Q)[n] = W[K + 1 + n]
  BY <1>2, <1>3, TailIsRest
<1>5. Passed(p)' = K + 1
  BY <1>2, <1>4 DEF Passed
<1>6. \A n \in 1..(K + 1) : W[n] \in Have'
  <2> TAKE n \in 1..(K + 1)
  <2>1. n \in 1..K \/ n = K + 1
    OBVIOUS
  <2>2. n \in 1..K => W[n] \in Have
    BY <1>1 DEF ReadyOK
  <2> QED BY <1>1, <1>4, <2>1, <2>2 DEF Needed
<1>7. \A n \in 1..Len(queue'[p]) : queue'[p][n] = work'[p][Passed(p)' + n]
  <2>1. \A n \in 1..Len(Tail(Q)) : Tail(Q)[n] = W[(K + 1) + n]
    BY <1>4
  <2> QED BY <1>2, <1>5, <2>1
<1>8. \A n \in 1..Passed(p)' : work'[p][n] \in Have'
  BY <1>2, <1>5, <1>6
<1>9. Passed(p)' \in Nat
  BY <1>5
<1>10. ~(at'[p] = "lookup" \/ at'[p] = "install" \/ at'[p] = "ready")
  OBVIOUS
<1> QED BY ONLY <1>7, <1>8, <1>9, <1>10 DEF ReadyOK

\* A run that stays with its tools may go where it may be.
LEMMA StayKeeps ==
  ASSUME NEW p \in Run, ReadyOK(p), queue'[p] = queue[p], work'[p] = work[p], Have \subseteq Have',
         at'[p] = "lookup" => installed'[Needed(p)] # 0,
         at'[p] = "install" => installed'[Needed(p)] # 0 \/ InstallDeclared(Needed(p)),
         at'[p] = "ready" => queue[p] = <<>>
  PROVE  ReadyOK(p)'
<1>1. Passed(p)' = Passed(p) /\ Needed(p)' = Needed(p)
  BY DEF Passed, Needed
<1>2. \A n \in 1..Passed(p) : work[p][n] \in Have'
  BY DEF ReadyOK
<1>3. /\ Passed(p)' \in Nat
      /\ \A n \in 1..Len(queue'[p]) : queue'[p][n] = work'[p][Passed(p)' + n]
      /\ \A n \in 1..Passed(p)' : work'[p][n] \in Have'
  BY <1>1, <1>2 DEF ReadyOK
<1>4. at'[p] = "install" => installed'[Needed(p)'] # 0 \/ InstallDeclared(Needed(p)')
  BY <1>1
<1> QED BY <1>1, <1>3, <1>4 DEF ReadyOK, InstallDeclared

LEMMA HaveSame == ASSUME UNCHANGED machine PROVE Have' = Have
BY DEF machine, Have

LEMMA EnsureReady ==
  ASSUME TypeInv, NEW p \in Run, ReadyOK(p), EnsureStep(p) \/ KillRun(p)
  PROVE  ReadyOK(p)'
<1> TypeInv' /\ UNCHANGED machine /\ Have' = Have BY EnsureType, HaveSame
<1> UNCHANGED installed BY DEF machine
<1>1. CASE AllReady(p) \/ InstallSpawnFails(p) \/ StartInstall(p) \/ KillRun(p)
  <2>1. /\ UNCHANGED <<queue, work>>
        /\ \/ at'[p] \in {"failed", "killed"}
           \/ at'[p] = "ready" /\ queue[p] = <<>>
           \/ at'[p] = at[p] /\ at[p] = "install"
    BY <1>1 DEF AllReady, InstallSpawnFails, StartInstall, KillRun, Go, TypeInv, RunsOK
  <2>2. at[p] = "install" => installed[Needed(p)] # 0 \/ InstallDeclared(Needed(p))
    BY DEF ReadyOK
  <2> QED BY <2>1, <2>2, StayKeeps
<1>2. CASE Compare(p) \/ RequiredToolMissing(p) \/ Absent(p)
  <2>1. /\ UNCHANGED <<queue, work>>
        /\ \/ at'[p] = "failed"
           \/ at'[p] = "lookup" /\ installed[Needed(p)] # 0
           \/ at'[p] = "install" /\ InstallDeclared(Needed(p))
    BY <1>2 DEF Compare, RequiredToolMissing, Absent, Found, Go, TypeInv, RunsOK
  <2> QED BY <2>1, StayKeeps
<1>3. CASE Present(p) \/ LookupFails(p) \/ LookupAnswers(p)
  <2>1. queue[p] # <<>> /\ installed[Needed(p)] # 0 /\ UNCHANGED work
    BY <1>3 DEF Present, LookupFails, LookupAnswers, Probing, Found, ReadyOK, TypeInv, RunsOK
  <2>2. Needed(p) \in Have'
    <3>1. Needed(p) \in Tool
      BY <2>1, HeadTailProperties DEF TypeInv, RunsOK, Needed
    <3> QED BY <2>1, <3>1 DEF Have
  <2>3. CASE Pass(p)
    <3>1. at'[p] = "probe"
      BY <2>3 DEF Pass, TypeInv, RunsOK
    <3> QED BY <2>1, <2>2, <2>3, <3>1, PassKeeps DEF Pass
  <2>4. CASE Go(p, "install")
    <3>1. UNCHANGED queue /\ at'[p] = "install"
      BY <2>4 DEF Go, TypeInv, RunsOK
    <3> QED BY <2>1, <3>1, StayKeeps
  <2> QED BY <1>3, <2>3, <2>4 DEF Present, LookupFails, LookupAnswers
<1> QED BY <1>1, <1>2, <1>3 DEF EnsureStep, ToolOwnStep, CheckReturns, LookupReturns

\* What installers do for a run loses nobody a tool, and leaves it its own.
LEMMA InstallersKeep ==
  ASSUME TypeInv, NEW p \in Run, InstallerSucceeds(p) \/ InstallerFails(p)
  PROVE  /\ Have \subseteq Have' /\ \A t \in Tool : installed[t] # 0 => installed'[t] # 0
<1>1. PICK t \in Tool : /\ \A u \in Tool \ {t} : installed'[u] = installed[u]
                        /\ installed'[t] \in {installed[t], Effect(t)}
  BY InstallerType
<1>2. installed[t] # 0 => Effect(t) # 0
  BY PickVersionType DEF Effect, TypeInv
<1>3. UNCHANGED nature
  BY InstallerType
<1> QED BY <1>1, <1>2, <1>3 DEF Have, InstallDeclared

LEMMA InstallReady ==
  ASSUME TypeInv, NEW p \in Run, ReadyOK(p), InstallerSucceeds(p) \/ InstallerFails(p)
  PROVE  ReadyOK(p)'
<1> TypeInv' /\ Have \subseteq Have' /\ UNCHANGED <<nature, work>>
  BY InstallerType, InstallersKeep
<1>1. CASE InstallerSucceeds(p) /\ at[p] = "install" /\ InstallDone(p)
  <2>1. PICK t \in Tool : child[p] = <<t>> /\ installed'[t] = Effect(t)
    BY <1>1, InstallerType
  <2>2. Needed(p) = t /\ queue[p] # <<>>
    BY <1>1, <2>1, ItsOwnTool
  <2>3. installed[t] # 0 \/ InstallDeclared(t)
    BY <1>1, <2>2 DEF ReadyOK
  <2>4. PickVersion(t) # 0
    BY PickVersionType DEF TypeInv
  <2>5. nature[t].installer \in {"newest", "pinned", "idle"}
    BY ToolsAssumption DEF TypeInv, Versions
  <2>6. t \in Have'
    BY <2>1, <2>3, <2>4, <2>5 DEF Effect, Have, InstallDeclared
  <2>7. at'[p] = "probe" /\ queue' = [queue EXCEPT ![p] = Tail(@)]
    BY <1>1 DEF InstallDone, Pass, TypeInv, RunsOK
  <2> QED BY <2>2, <2>6, <2>7, PassKeeps
<1>2. CASE UNCHANGED queue /\ at'[p] = "failed"
  BY <1>2, StayKeeps
<1>3. CASE UNCHANGED queue /\ at'[p] = at[p] /\ at[p] # "install"
  <2>1. at[p] # "lookup"
    BY DEF InstallerSucceeds, InstallerFails, TypeInv, RunsOK
  <2>2. at[p] = "ready" => queue[p] = <<>>
    BY DEF ReadyOK
  <2> QED BY <1>3, <2>1, <2>2, StayKeeps
<1>4. \/ InstallerSucceeds(p) /\ at[p] = "install" /\ InstallDone(p)
      \/ UNCHANGED queue /\ at'[p] = "failed"
      \/ UNCHANGED queue /\ at'[p] = at[p] /\ at[p] # "install"
  BY DEF InstallerSucceeds, InstallerFails, InstallFailed, Unawaited, TypeInv, RunsOK
<1> QED BY <1>1, <1>2, <1>3, <1>4

\* A run is not set back by what others do, the user apart.
LEMMA ReadyAlone ==
  ASSUME TypeInv, NEW q \in Run, ReadyOK(q), Same(q), Have \subseteq Have',
         \A t \in Tool : installed[t] # 0 => installed'[t] # 0
  PROVE  ReadyOK(q)'
<1>1. at[q] \in {"lookup", "install"} => Needed(q) \in Tool
  BY HeadTailProperties DEF TypeInv, RunsOK, Needed
<1>2. /\ at'[q] = "lookup" => installed'[Needed(q)] # 0
      /\ at'[q] = "install" => installed'[Needed(q)] # 0 \/ InstallDeclared(Needed(q))
      /\ at'[q] = "ready" => queue[q] = <<>>
  BY <1>1 DEF ReadyOK, Same
<1> QED BY <1>2, StayKeeps DEF Same

LEMMA ReadyStays == ASSUME CommandInv, ReadyInv, [Next]_vars PROVE ReadyInv'
<1> TypeInv /\ TypeInv' BY TypeStays DEF ReadyInv
<1> SUFFICES ASSUME meddled' = 0, NEW q \in Run PROVE ReadyOK(q)'
  BY DEF ReadyInv
<1>1. CASE \E p \in Run : \E tools \in Works : StartTools(p, tools)
  <2> PICK p \in Run, tools \in Works : StartTools(p, tools) BY <1>1
  <2> UNCHANGED machine BY StartType
  <2>1. CASE p = q
    <3>1. work'[q] = tools /\ queue'[q] = tools /\ at'[q] = "probe" /\ tools \in Seq(Tool)
      BY <2>1, ToolsAssumption DEF StartTools, TypeInv, RunsOK
    <3>2. Passed(q)' = 0
      BY <3>1 DEF Passed
    <3> QED BY <3>1, <3>2 DEF ReadyOK
  <2>2. CASE p # q
    BY <2>2, StartType, ReadyAlone, HaveSame DEF machine, ReadyInv
  <2> QED BY <2>1, <2>2
<1>2. CASE \E p \in Run : EnsureStep(p) \/ KillRun(p)
  <2> PICK p \in Run : EnsureStep(p) \/ KillRun(p) BY <1>2
  <2>1. UNCHANGED machine /\ (p # q => Same(q)) /\ ReadyOK(q)
    BY EnsureType DEF ReadyInv, machine
  <2>2. CASE p = q
    BY <2>1, <2>2, EnsureReady
  <2>3. CASE p # q
    BY <2>1, <2>3, ReadyAlone, HaveSame DEF machine
  <2> QED BY <2>2, <2>3
<1>3. CASE \E p \in Run : InstallerSucceeds(p) \/ InstallerFails(p)
  <2> PICK p \in Run : InstallerSucceeds(p) \/ InstallerFails(p) BY <1>3
  <2>1. UNCHANGED meddled /\ (p # q => Same(q)) /\ ReadyOK(q)
    BY InstallerType DEF ReadyInv
  <2>2. CASE p = q
    BY <2>1, <2>2, InstallReady
  <2>3. CASE p # q
    BY <2>1, <2>3, ReadyAlone, InstallersKeep
  <2> QED BY <2>2, <2>3
<1>4. CASE (\E t \in Tool, stable \in BOOLEAN : Publish(t, stable)) \/ UNCHANGED toolVars
  <2>1. UNCHANGED <<installed, nature, meddled, runs>>
    BY <1>4 DEF Publish, toolVars, machine
  <2>2. Have' = Have /\ Same(q) /\ ReadyOK(q)
    BY <2>1 DEF Have, runs, Same, ReadyInv
  <2> QED BY <2>1, <2>2, ReadyAlone
<1>5. CASE \E t \in Tool : \E version \in {0, registry[t].newest} : Meddle(t, version)
  BY <1>5, MeddleType
<1> QED BY <1>1, <1>2, <1>3, <1>4, <1>5, ToolCases

\* A run that got past its tools has them, the installers that do nothing apart: a
\* tool is not probed again after an installer that exits with 0 (tool.rs:300).
THEOREM ToolsStayThere == Spec => []ToolsAreThere
<1>1. Init => ReadyInv
  <2> SUFFICES ASSUME Init, NEW p \in Run PROVE TypeInv /\ ReadyOK(p)
    BY DEF Init, ToolsInit, ReadyInv, TypeInv, Versions, RunsOK, Places
  <2>1. TypeInv
    BY DEF Init, ToolsInit, TypeInv, Versions, RunsOK, Places
  <2>2. at[p] = "idle" /\ queue[p] = <<>> /\ work[p] = <<>>
    BY DEF Init, ToolsInit
  <2> QED BY <2>1, <2>2 DEF ReadyOK, Passed
<1>2. ReadyInv => ToolsAreThere
  <2> SUFFICES ASSUME ReadyInv, NEW p \in Run, at[p] = "ready", meddled = 0,
                      NEW n \in 1..Len(work[p])
               PROVE  work[p][n] \in Have
    BY DEF ToolsAreThere, Have
  <2>1. ReadyOK(p) /\ queue[p] = <<>> /\ work[p] \in Seq(Tool)
    BY DEF ReadyInv, ReadyOK, TypeInv, RunsOK
  <2>2. Passed(p) = Len(work[p])
    BY <2>1 DEF Passed
  <2> QED BY <2>1, <2>2 DEF ReadyOK
<1> QED BY <1>1, <1>2, ReadyStays, CommandsHold, PTL DEF Spec
=============================================================================
