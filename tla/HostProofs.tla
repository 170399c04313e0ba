------------------------------ MODULE HostProofs ------------------------------
(***************************************************************************)
(* What the parts of the host around playback promise, for every value of  *)
(* their constants.                                                        *)
(*                                                                         *)
(* The store keeps its promise for any number of saves and crashes: the    *)
(* integrity of the files, the backup and the refinement of DurableShow    *)
(* are read off StoreTypeOK /\ StoreInv, which is inductive.              *)
(*                                                                         *)
(* The update manager: the reservation of playback has one owner, for any  *)
(* number of checks and presses and with or without automatic installation.*)
(* A reservation is only taken when none is in force, and then no task     *)
(* owns one; from there it moves from owner to owner, and what overwrites  *)
(* a task (Check, Install) is refused while the phase names a task.        *)
(*                                                                         *)
(* The update helper: RecoverableInv says where the old version is at each *)
(* step, and which processes can be alive then, whichever step fails and   *)
(* whenever any of the processes stops.                                    *)
(*                                                                         *)
(* The log of requests: the queue is the end of the history, so what is    *)
(* carried out is either remembered or long past.                          *)
(***************************************************************************)
EXTENDS MCHost, Sequences, TLAPS

(* The store. *)

\* The inductive invariant of the store.
StoreOK == StoreTypeOK /\ StoreInv

USE DEF Files, Versions, Contents, Torn, Idle, NoTemp

\* A store before its first save.
LEMMA StoreInitHolds == StoreInit => StoreOK
  BY BoundAssumption DEF StoreInit, StoreOK, StoreTypeOK, StoreInv, Empty, Saving, Writing

\* A save is entered: a version no file holds yet.
LEMMA BeginKeeps == ASSUME StoreOK, Begin PROVE StoreOK'
  BY BoundAssumption DEF StoreOK, StoreTypeOK, StoreInv, Begin, Saving, Writing

\* The temporary file is written, no other.
LEMMA WriteTempKeeps == ASSUME StoreOK, WriteTemp PROVE StoreOK'
  BY BoundAssumption DEF StoreOK, StoreTypeOK, StoreInv, WriteTemp, Goes, Files3, Rest, Saving, Writing, Data

\* It is synced.
LEMMA SyncTempKeeps == ASSUME StoreOK, SyncTemp PROVE StoreOK'
  BY BoundAssumption DEF StoreOK, StoreTypeOK, StoreInv, SyncTemp, Goes, Files3, Rest, Saving, Writing, Data

\* What was renamed is what was synced, so no file is torn.
LEMMA RenameTempKeeps == ASSUME StoreOK, RenameTemp PROVE StoreOK'
  BY BoundAssumption DEF StoreOK, StoreTypeOK, StoreInv, RenameTemp, Goes, Files3, Rest, Saving, Writing, Data

\* The directory is flushed: the backup is safe.
LEMMA FlushBackupKeeps == ASSUME StoreOK, FlushBackup PROVE StoreOK'
  BY BoundAssumption, ZenonT(40) DEF StoreOK, StoreTypeOK, StoreInv, FlushBackup, Rest, Saving, Writing, Data

\* It is flushed again: the state is safe, and the save is over.
LEMMA FlushStateKeeps == ASSUME StoreOK, FlushState PROVE StoreOK'
  <1>1. /\ op' = Idle /\ good' = op.version /\ inForce' = inForce \cup {op.version}
        /\ disk' = landing /\ op.version = issued
        /\ UNCHANGED <<seen, landing, temp, up, issued, crashes>>
    BY DEF StoreOK, StoreInv, FlushState, SaysSaved, Saving
  <1>2. StoreTypeOK'
    <2>1. temp' = NoTemp BY <1>1 DEF StoreOK, StoreTypeOK, FlushState
    <2> QED BY BoundAssumption, <1>1, <2>1 DEF StoreOK, StoreTypeOK
  <1>3. StoreInv'
    <2>1. /\ \A f \in Files : {seen[f], landing[f], disk[f]}' \subseteq 0..issued' /\ seen'[f] = landing'[f]
          /\ good' \in 0..issued' /\ good' \in inForce'
          /\ {landing["backup"], disk["backup"]}' \subseteq inForce'
      BY BoundAssumption, <1>1 DEF StoreOK, StoreTypeOK, StoreInv
    <2> QED BY <1>1, <2>1 DEF StoreInv, Saving, Writing
  <1> QED BY <1>2, <1>3 DEF StoreOK

\* Any call of a save fails.
LEMMA FailKeeps == ASSUME StoreOK, Fail PROVE StoreOK'
  BY BoundAssumption DEF StoreOK, StoreTypeOK, StoreInv, Fail, Files3, Rest, Saving, Writing, Data

\* The process dies; the files stay.
LEMMA CrashProcessKeeps == ASSUME StoreOK, CrashProcess PROVE StoreOK'
  <1>1. /\ op' = Idle /\ temp' = NoTemp /\ up' = FALSE /\ crashes' = crashes + 1 /\ crashes < MaxCrashes
        /\ UNCHANGED <<seen, landing, disk, good, issued, inForce>>
    BY DEF CrashProcess, Dies, Files3
  <1>2. StoreTypeOK'
    <2>1. crashes' \in 0..MaxCrashes
      <3>1. crashes \in 0..MaxCrashes BY DEF StoreOK, StoreTypeOK
      <3>2. crashes' = crashes + 1 /\ crashes < MaxCrashes BY <1>1
      <3> QED BY BoundAssumption, <3>1, <3>2
    <2>2. op' \in [version : Versions, file : Files,
                   step : {"idle", "write", "sync", "rename", "flush"}]
      BY BoundAssumption, <1>1
    <2>3. up' \in BOOLEAN BY <1>1
    <2>4. temp' \in [content : Contents, synced : BOOLEAN] /\ temp' = NoTemp
      BY BoundAssumption, <1>1
    <2>5. /\ seen' \in [Files -> Contents] /\ landing' \in [Files -> Contents]
          /\ disk' \in [Files -> Contents] /\ good' \in Contents /\ issued' \in Versions
          /\ inForce' \subseteq Contents
      BY <1>1 DEF StoreOK, StoreTypeOK
    <2> QED BY <2>1, <2>2, <2>3, <2>4, <2>5 DEF StoreTypeOK
  <1>3. StoreInv' BY <1>1 DEF StoreOK, StoreInv, Saving, Writing
  <1> QED BY <1>2, <1>3 DEF StoreOK

\* The power fails; what was not flushed may be lost.
LEMMA LosePowerKeeps == ASSUME StoreOK, LosePower PROVE StoreOK'
  <1>1. /\ op' = Idle /\ temp' = NoTemp /\ up' = FALSE /\ crashes' = crashes + 1 /\ crashes < MaxCrashes
        /\ UNCHANGED <<good, issued, inForce>>
    BY DEF LosePower, Dies
  <1>2. PICK left \in [Files -> Contents] :
          /\ \A f \in Files : left[f] \in {disk[f], landing[f]}
          /\ seen' = left /\ landing' = left /\ disk' = left
    BY DEF LosePower
  <1>3. StoreTypeOK'
    <2>1. crashes' \in 0..MaxCrashes
      <3>1. crashes \in 0..MaxCrashes BY DEF StoreOK, StoreTypeOK
      <3>2. crashes' = crashes + 1 /\ crashes < MaxCrashes BY <1>1
      <3> QED BY BoundAssumption, <3>1, <3>2
    <2>2. op' \in [version : Versions, file : Files,
                   step : {"idle", "write", "sync", "rename", "flush"}]
      BY BoundAssumption, <1>1
    <2>3. up' \in BOOLEAN BY <1>1
    <2>4. temp' \in [content : Contents, synced : BOOLEAN] /\ temp' = NoTemp
      BY BoundAssumption, <1>1
    <2>5. /\ seen' \in [Files -> Contents] /\ landing' \in [Files -> Contents]
          /\ disk' \in [Files -> Contents] /\ good' \in Contents /\ issued' \in Versions
          /\ inForce' \subseteq Contents
      BY <1>1, <1>2 DEF StoreOK, StoreTypeOK
    <2> QED BY <2>1, <2>2, <2>3, <2>4, <2>5 DEF StoreTypeOK
  <1>4. StoreInv'
    <2>1. \A f \in Files : left[f] \in 0..issued BY <1>2 DEF StoreOK, StoreInv
    <2>2. left["backup"] \in inForce BY <1>2 DEF StoreOK, StoreInv
    <2>3. good \in 0..issued /\ good \in inForce BY DEF StoreOK, StoreInv
    <2> QED BY <1>1, <1>2, <2>1, <2>2, <2>3 DEF StoreInv, Saving, Writing
  <1> QED BY <1>3, <1>4 DEF StoreOK

\* A start reads what it finds.
LEMMA OpenKeeps == ASSUME StoreOK, Open PROVE StoreOK'
  BY BoundAssumption DEF StoreOK, StoreTypeOK, StoreInv, Open, Files3, Saving, Writing, Data

\* Nothing happens.
LEMMA StutterKeeps == ASSUME StoreOK, UNCHANGED storeVars PROVE StoreOK'
  BY DEF StoreOK, StoreTypeOK, StoreInv, storeVars, Saving, Writing, Data

\* Every step of the store.
LEMMA StepKeeps == ASSUME StoreOK, [StoreNext]_storeVars PROVE StoreOK'
  BY BeginKeeps, WriteTempKeeps, SyncTempKeeps, RenameTempKeeps, FlushBackupKeeps, FlushStateKeeps,
     FailKeeps, CrashProcessKeeps, LosePowerKeeps, OpenKeeps, StutterKeeps DEF StoreNext

\* Every variable keeps its type and the invariant holds: the strengthening of the
\* theorems below.
THEOREM StoreHolds == StoreSpec => [](StoreTypeOK /\ StoreInv)
  <1>1. StoreOK => StoreTypeOK /\ StoreInv BY DEF StoreOK
  <1> QED BY <1>1, StoreInitHolds, StepKeeps, PTL DEF StoreSpec

\* store.go: whatever call fails or is the last before a crash, neither file is torn,
\* so the next start can read both.
THEOREM AlwaysReadable == StoreSpec => []Readable
  <1>1. StoreTypeOK /\ StoreInv => Readable BY BoundAssumption DEF StoreTypeOK, StoreInv, Readable
  <1> QED BY <1>1, StoreHolds, PTL

\* The backup was in force once: a refused version never becomes the backup.
THEOREM BackupIsGood == StoreSpec => []BackupWasInForce
  <1>1. StoreInv => BackupWasInForce BY DEF StoreInv, BackupWasInForce
  <1> QED BY <1>1, StoreHolds, PTL

\* The step relation of the store, seen as the promise: one case per action.
LEMMA StepIsPromised ==
  ASSUME StoreOK, StoreOK', [StoreNext]_storeVars
  PROVE  Abstract!Next \/ UNCHANGED <<{disk["state"], landing["state"]}, good, up>>
  <1> USE DEF Abstract!Next, Abstract!Settle, Abstract!Narrows
  <1>1. CASE Begin \/ WriteTemp \/ SyncTemp \/ Fail \/ UNCHANGED storeVars
    BY <1>1 DEF Begin, WriteTemp, SyncTemp, Fail, Goes, Rest, Files3, storeVars
  <1>2. CASE RenameTemp
    <2>1. /\ UNCHANGED <<good, up>> /\ disk' = disk /\ up
          /\ landing' = [landing EXCEPT ![op.file] = temp.content]
      BY <1>2 DEF RenameTemp, Goes, Rest, StoreOK, StoreInv
    <2>2. CASE op.file = "backup"
      BY <2>1, <2>2 DEF StoreOK, StoreTypeOK
    <2>3. CASE op.file = "state"
      <3>1. landing'["state"] = issued BY <1>2, <2>1, <2>3 DEF StoreOK, StoreTypeOK, StoreInv, Data, Saving, RenameTemp, Goes
      <3>2. issued \notin {disk["state"], landing["state"]}
        BY <1>2, BoundAssumption DEF StoreOK, StoreTypeOK, StoreInv, Saving, Writing, RenameTemp, Goes
      <3>3. Abstract!Attempt(issued) BY <2>1, <3>1, <3>2 DEF Abstract!Attempt
      <3> QED BY <3>1, <3>3
    <2> QED BY <1>2, <2>2, <2>3 DEF StoreOK, StoreTypeOK
  <1>3. CASE FlushBackup
    <2>1. up /\ disk' = landing /\ landing' = landing /\ UNCHANGED <<good, up>>
      BY <1>3 DEF FlushBackup, Rest
    <2> QED BY <2>1
  <1>4. CASE FlushState
    <2>1. /\ up /\ up' = up /\ good' = op.version /\ landing["state"] = op.version
          /\ disk' = landing /\ landing' = landing
      BY <1>4 DEF FlushState, SaysSaved, StoreOK, StoreInv, Data
    <2>2. Abstract!Saved(op.version) BY <2>1 DEF Abstract!Saved
    <2> QED BY <2>1, <2>2
  <1>5. CASE CrashProcess BY <1>5 DEF CrashProcess, Dies, Files3, Abstract!Stop
  <1>6. CASE LosePower
    <2>1. /\ UNCHANGED good /\ up' = FALSE /\ landing' = disk'
          /\ disk'["state"] \in {disk["state"], landing["state"]}
      BY <1>6 DEF LosePower, Dies
    <2> QED BY <2>1 DEF Abstract!Stop
  <1>7. CASE Open
    <2>1. /\ ~up /\ up' = TRUE /\ good' = landing["state"] /\ landing' = landing /\ disk' = disk
      BY <1>7 DEF Open, Files3, StoreOK, StoreInv
    <2>2. Abstract!Restart(landing["state"]) BY <2>1 DEF Abstract!Restart
    <2> QED BY <2>2
  <1> QED BY <1>1, <1>2, <1>3, <1>4, <1>5, <1>6, <1>7 DEF StoreNext

\* The store implements the promise: Save returns without an error only when nothing
\* but the saved version can be found by a restart, and until then a restart finds
\* the version in force or one whose saving was tried.
THEOREM StoreImplementsPromise == StoreSpec => StoreIsDurable
  <1>1. StoreInit => Abstract!Init BY DEF StoreInit, Empty, Abstract!Init
  <1>2. StoreOK /\ StoreOK' /\ [StoreNext]_storeVars => [Abstract!Next]_(Abstract!vars)
    BY StepIsPromised DEF Abstract!vars
  <1>3. StoreSpec => []StoreOK
    <2>1. StoreTypeOK /\ StoreInv => StoreOK BY DEF StoreOK
    <2> QED BY <2>1, StoreHolds, PTL
  <1> QED BY <1>1, <1>2, <1>3, PTL DEF StoreSpec, StoreIsDurable, Abstract!Spec

\* When Save reports success the version it replaced is on the disk as the backup.
THEOREM BackupIsKept == StoreSpec => PreviousIsKept
  <1>1. StoreOK /\ [StoreNext]_storeVars => [up /\ up' /\ good' # good /\ good # 0 => disk'["backup"] = good]_storeVars
    <2> SUFFICES ASSUME StoreOK, StoreNext, up, up', good' # good, good # 0
                 PROVE  disk'["backup"] = good
      OBVIOUS
    <2>1. FlushState
      BY DEF StoreNext, Begin, WriteTemp, SyncTemp, RenameTemp, FlushBackup, Fail, CrashProcess, LosePower,
             Open, Goes, Dies, Rest
    <2> QED BY <2>1 DEF FlushState, StoreOK, StoreInv, Saving
  <1>2. StoreSpec => []StoreOK
    <2>1. StoreTypeOK /\ StoreInv => StoreOK BY DEF StoreOK
    <2> QED BY <2>1, StoreHolds, PTL
  <1> QED BY <1>1, <1>2, PTL DEF StoreSpec, PreviousIsKept

-----------------------------------------------------------------------------
(* The update manager. *)

HIDE DEF Files, Versions, Contents, Torn, Idle, NoTemp

\* The set of owners and the two formulas that stand for it agree.
LEMMA OwnersAre ==
  /\ Owners # {} <=> Owned
  /\ (\A o, p \in Owners : o = p) <=> Alone
<1>1. /\ "check" \in Owners <=> checker = "startup"
      /\ "ended check" \in Owners <=> releases
      /\ "installation" \in Owners <=> installer # "none"
      /\ "main" \in Owners <=> updateReady
      /\ "remote access" \in Owners <=> other # "none"
  BY DEF Owners
<1>2. \A o \in Owners :
        o \in {"check", "ended check", "installation", "main", "remote access"}
  BY DEF Owners
<1>3. Owners # {} <=> Owned
  BY <1>1, <1>2 DEF Owned
<1>4. ASSUME \A o, p \in Owners : o = p PROVE Alone
  BY <1>1, <1>4 DEF Alone
<1>5. ASSUME Alone, NEW o \in Owners, NEW p \in Owners PROVE o = p
  BY <1>1, <1>2, <1>5 DEF Alone
<1> QED
  BY <1>3, <1>4, <1>5

\* Nobody owns a reservation at the start.
LEMMA ManagerInitHolds == ManagerInit => OwnerInv
  BY DEF ManagerInit, OwnerInv, ManagerTypeOK, Owned, Alone

\* Every step passes it from owner to owner.
LEMMA ManagerStepHolds == OwnerInv /\ [ManagerNext]_managerVars => OwnerInv'
<1> SUFFICES ASSUME OwnerInv, [ManagerNext]_managerVars PROVE OwnerInv'
  OBVIOUS
<1> USE DEF OwnerInv, ManagerTypeOK, Owned, Alone
<1>1. CASE Press
  BY <1>1 DEF Press, manager, main
<1>2. CASE ReserveRestart
  BY <1>2 DEF ReserveRestart, CanReserve, Serving, manager, main
<1>3. CASE AbandonRestart
  <2>1. reserved' \in BOOLEAN
    BY <1>3 DEF AbandonRestart
  <2> QED
    BY <1>3, <2>1 DEF AbandonRestart, manager, main
<1>4. CASE SendRestart
  BY <1>4 DEF SendRestart, manager, main
<1>5. CASE Start
  BY <1>5 DEF Start, CanReserve
<1>6. CASE HearQuit
  BY <1>6 DEF HearQuit, main
<1>7. CASE Check
  BY <1>7 DEF Check, Busy, Serving, main
<1>8. ASSUME NEW found \in BOOLEAN, NEW failed \in BOOLEAN, CheckEnds(found, failed)
      PROVE OwnerInv'
  BY <1>8 DEF CheckEnds, GivesBack, Stopping, main
<1>9. CASE CheckReleases
  <2>1. releases' \in BOOLEAN /\ reserved' \in BOOLEAN
    BY <1>9 DEF CheckReleases
  <2> QED
    BY <1>9, <2>1 DEF CheckReleases, main
<1>10. CASE Install
  BY <1>10 DEF Install, CanReserve, Busy, Serving, main
<1>11. CASE StageFails
  BY <1>11 DEF StageFails, main
<1>12. CASE Stages
  BY <1>12 DEF Stages, main
<1>13. ASSUME NEW expired \in BOOLEAN, Transfers(expired) PROVE OwnerInv'
  BY <1>13 DEF Transfers, main
<1>14. CASE Hands
  BY <1>14 DEF Hands
<1>15. CASE InstallReleases
  <2>1. reserved' \in BOOLEAN
    BY <1>15 DEF InstallReleases
  <2> QED
    BY <1>15, <2>1 DEF InstallReleases, main
<1>16. CASE Quit
  BY <1>16 DEF Quit, manager
<1>17. CASE TakeUpdate
  <2>1. updateReady' \in BOOLEAN
    BY <1>17 DEF TakeUpdate
  <2> QED
    BY <1>17, <2>1, ZenonT(40) DEF TakeUpdate, manager
<1>18. CASE TakeRestart
  BY <1>18 DEF TakeRestart, manager
<1>19. CASE TakeQuit
  BY <1>19 DEF TakeQuit, manager
<1>20. CASE ServeFails
  BY <1>20 DEF ServeFails, manager
<1>21. CASE Close
  BY <1>21 DEF Close
<1>22. CASE Drain
  <2>1. updateReady' \in BOOLEAN
    BY <1>22 DEF Drain
  <2> QED
    BY <1>22, <2>1 DEF Drain, manager
<1>23. ASSUME NEW succeeds \in BOOLEAN, Finish(succeeds) PROVE OwnerInv'
  BY <1>23 DEF Finish, manager
<1>24. CASE UNCHANGED managerVars
  BY <1>24 DEF managerVars, manager, main
<1> QED
  BY <1>1, <1>2, <1>3, <1>4, <1>5, <1>6, <1>7, <1>8, <1>9, <1>10, <1>11, <1>12, <1>13,
     <1>14, <1>15, <1>16, <1>17, <1>18, <1>19, <1>20, <1>21, <1>22, <1>23, <1>24
  DEF ManagerNext, Manager, Main, Users, Restart

\* OwnerInv holds in every reachable state.
LEMMA AlwaysOwnerInv == ManagerSpec => []OwnerInv
  BY ManagerInitHolds, ManagerStepHolds, PTL DEF ManagerSpec

\* While the application runs playback is reserved exactly when one task, and
\* only one, has to give the reservation back.
THEOREM OneOwner == ManagerSpec => []SingleOwner
<1>1. OwnerInv => SingleOwner
  BY OwnersAre DEF OwnerInv, SingleOwner
<1> QED
  BY <1>1, AlwaysOwnerInv, PTL

\* Nothing plays from the moment files are staged until the handover.
THEOREM PlaybackWaits == ManagerSpec => []NothingPlays
<1>1. OwnerInv => NothingPlays
  BY DEF OwnerInv, NothingPlays, Owned
<1> QED
  BY <1>1, AlwaysOwnerInv, PTL

\* The reservation has one owner, and nothing plays while it matters.
THEOREM AlwaysOwned == ManagerSpec => []ReservationIsOwned
<1>1. SingleOwner /\ NothingPlays => ReservationIsOwned
  BY DEF ReservationIsOwned
<1> QED
  BY <1>1, OneOwner, PlaybackWaits, PTL

-----------------------------------------------------------------------------
(* The helper. *)

\* What a move of an installation does.
LEMMA MovedFacts ==
  ASSUME HelperTypeOK, NEW from \in Places, NEW to \in Places, from # to
  PROVE  /\ Moved(from, to) \in [Places -> {"old", "new", "none"}]
         /\ Moved(from, to)[from] = "none" /\ Moved(from, to)[to] = at[from]
         /\ \A p \in Places \ {from, to} : Moved(from, to)[p] = at[p]
  BY DEF Moved, HelperTypeOK

\* The old version is in its place at the start.
LEMMA InitIsRecoverable == HelperInit => RecoverableInv
  BY DEF HelperInit, RecoverableInv, HelperTypeOK, Recoverable, Alive, Places

\* The processes around the helper cannot move files.
LEMMA OthersKeepIt == RecoverableInv /\ OtherStep => RecoverableInv'
<1> SUFFICES ASSUME RecoverableInv, OtherStep PROVE RecoverableInv'
  OBVIOUS
<1>1. CASE ParentExits
  BY <1>1, ZenonT(40) DEF RecoverableInv, HelperTypeOK, Recoverable, Alive, Goto, Quiet, files, ParentExits
<1>2. CASE Register
  BY <1>2 DEF RecoverableInv, HelperTypeOK, Recoverable, Alive, Goto, Quiet, files, Register
<1>3. CASE Confirm
  BY <1>3 DEF RecoverableInv, HelperTypeOK, Recoverable, Alive, Goto, Quiet, files, Confirm
<1>4. CASE CandidateEnds
  BY <1>4 DEF RecoverableInv, HelperTypeOK, Recoverable, Alive, Goto, Quiet, files, CandidateEnds
<1>5. CASE HelperKilled
  BY <1>5 DEF RecoverableInv, HelperTypeOK, Recoverable, Alive, Goto, Quiet, files, HelperKilled
<1> QED
  BY <1>1, <1>2, <1>3, <1>4, <1>5 DEF OtherStep

\* Every step of the helper, failing or not.
LEMMA HelperKeepsIt == RecoverableInv /\ HelperStep => RecoverableInv'
<1> SUFFICES ASSUME RecoverableInv, HelperStep PROVE RecoverableInv'
  OBVIOUS
<1>1. CASE ParentGone
  BY <1>1 DEF RecoverableInv, HelperTypeOK, Recoverable, Alive, Goto, Quiet, files, ParentGone
<1>2. CASE Refuse
  BY <1>2 DEF RecoverableInv, HelperTypeOK, Recoverable, Alive, Goto, Quiet, files, Refuse, Tells, GiveUp
<1>3. CASE Preserve
  <2>1. /\ Moved("target", "backup") \in [Places -> {"old", "new", "none"}]
        /\ Moved("target", "backup")["target"] = "none" /\ Moved("target", "backup")["backup"] = at["target"]
        /\ \A p \in Places \ {"target", "backup"} : Moved("target", "backup")[p] = at[p]
    BY MovedFacts DEF RecoverableInv, HelperTypeOK, Places
  <2> QED
    BY <1>3, <2>1 DEF RecoverableInv, HelperTypeOK, Recoverable, Alive, Goto, Quiet, files, Preserve, Places
<1>4. CASE PreserveFails
  BY <1>4 DEF RecoverableInv, HelperTypeOK, Recoverable, Alive, Goto, Quiet, files, PreserveFails, Tells
<1>5. CASE Replace
  <2>1. /\ Moved("payload", "target") \in [Places -> {"old", "new", "none"}]
        /\ Moved("payload", "target")["payload"] = "none" /\ Moved("payload", "target")["target"] = at["payload"]
        /\ \A p \in Places \ {"payload", "target"} : Moved("payload", "target")[p] = at[p]
    BY MovedFacts DEF RecoverableInv, HelperTypeOK, Places
  <2> QED
    BY <1>5, <2>1 DEF RecoverableInv, HelperTypeOK, Recoverable, Alive, Goto, Quiet, files, Replace, Places
<1>6. CASE ReplaceFails
  BY <1>6 DEF RecoverableInv, HelperTypeOK, Recoverable, Alive, Goto, Quiet, files, ReplaceFails
<1>7. CASE Restore
  <2>1. /\ Moved("backup", "target") \in [Places -> {"old", "new", "none"}]
        /\ Moved("backup", "target")["backup"] = "none" /\ Moved("backup", "target")["target"] = at["backup"]
        /\ \A p \in Places \ {"backup", "target"} : Moved("backup", "target")[p] = at[p]
    BY MovedFacts DEF RecoverableInv, HelperTypeOK, Places
  <2> QED
    BY <1>7, <2>1 DEF RecoverableInv, HelperTypeOK, Recoverable, Alive, Goto, Quiet, files, Restore, Tells, Places
<1>8. CASE RestoreFails
  BY <1>8 DEF RecoverableInv, HelperTypeOK, Recoverable, Alive, Goto, Quiet, files, RestoreFails,
     Tells, GiveUp
<1>9. CASE Relaunch
  BY <1>9 DEF RecoverableInv, HelperTypeOK, Recoverable, Alive, Goto, Quiet, files, Relaunch
<1>10. CASE RelaunchFails
  BY <1>10 DEF RecoverableInv, HelperTypeOK, Recoverable, Alive, Goto, Quiet, files, RelaunchFails, Tells
<1>11. CASE WriteRequest
  BY <1>11 DEF RecoverableInv, HelperTypeOK, Recoverable, Alive, Goto, Quiet, files, WriteRequest
<1>12. CASE Launch
  BY <1>12 DEF RecoverableInv, HelperTypeOK, Recoverable, Alive, Goto, Quiet, files, Launch
<1>13. CASE LaunchFails
  BY <1>13 DEF RecoverableInv, HelperTypeOK, Recoverable, Alive, Goto, Quiet, files, LaunchFails
<1>14. CASE SeesReady
  BY <1>14 DEF RecoverableInv, HelperTypeOK, Recoverable, Alive, Goto, Quiet, files, SeesReady
<1>15. CASE SeesFailure
  BY <1>15 DEF RecoverableInv, HelperTypeOK, Recoverable, Alive, Goto, Quiet, files, SeesFailure
<1>16. CASE RemoveBackup
  BY <1>16 DEF RecoverableInv, HelperTypeOK, Recoverable, Alive, Goto, Quiet, files, RemoveBackup, Places
<1>17. CASE TellUpdated
  BY <1>17 DEF RecoverableInv, HelperTypeOK, Recoverable, Alive, Goto, Quiet, files, TellUpdated, Tells
<1>18. CASE StopCandidate
  BY <1>18 DEF RecoverableInv, HelperTypeOK, Recoverable, Alive, Goto, Quiet, files, StopCandidate, Known
<1>19. CASE StopFails
  BY <1>19 DEF RecoverableInv, HelperTypeOK, Recoverable, Alive, Goto, Quiet, files, StopFails, Tells,
     GiveUp
<1>20. CASE MoveFailed
  <2>1. /\ Moved("target", "failed") \in [Places -> {"old", "new", "none"}]
        /\ Moved("target", "failed")["target"] = "none" /\ Moved("target", "failed")["failed"] = at["target"]
        /\ \A p \in Places \ {"target", "failed"} : Moved("target", "failed")[p] = at[p]
    BY MovedFacts DEF RecoverableInv, HelperTypeOK, Places
  <2> QED
    BY <1>20, <2>1 DEF RecoverableInv, HelperTypeOK, Recoverable, Alive, Goto, Quiet, files, MoveFailed, Places
<1>21. CASE MoveFails
  BY <1>21 DEF RecoverableInv, HelperTypeOK, Recoverable, Alive, Goto, Quiet, files, MoveFails, Tells,
     GiveUp
<1>22. CASE PutBack
  <2>1. /\ Moved("backup", "target") \in [Places -> {"old", "new", "none"}]
        /\ Moved("backup", "target")["backup"] = "none" /\ Moved("backup", "target")["target"] = at["backup"]
        /\ \A p \in Places \ {"backup", "target"} : Moved("backup", "target")[p] = at[p]
    BY MovedFacts DEF RecoverableInv, HelperTypeOK, Places
  <2> QED
    BY <1>22, <2>1 DEF RecoverableInv, HelperTypeOK, Recoverable, Alive, Goto, Quiet, files, PutBack, Places
<1>23. CASE PutBackFails
  <2>1. /\ Moved("failed", "target") \in [Places -> {"old", "new", "none"}]
        /\ Moved("failed", "target")["failed"] = "none" /\ Moved("failed", "target")["target"] = at["failed"]
        /\ \A p \in Places \ {"failed", "target"} : Moved("failed", "target")[p] = at[p]
    BY MovedFacts DEF RecoverableInv, HelperTypeOK, Places
  <2> QED
    BY <1>23, <2>1 DEF RecoverableInv, HelperTypeOK, Recoverable, Alive, Goto, Quiet, files, PutBackFails, Tells, GiveUp, Places
<1>24. CASE TellRollback
  BY <1>24 DEF RecoverableInv, HelperTypeOK, Recoverable, Alive, Goto, Quiet, files, TellRollback, Tells
<1> QED
  BY <1>1, <1>2, <1>3, <1>4, <1>5, <1>6, <1>7, <1>8, <1>9, <1>10, <1>11, <1>12, <1>13, <1>14,
     <1>15, <1>16, <1>17, <1>18, <1>19, <1>20, <1>21, <1>22, <1>23, <1>24 DEF HelperStep

\* The invariant always holds.
LEMMA AlwaysRecoverableInv == HelperSpec => []RecoverableInv
<1>1. RecoverableInv /\ UNCHANGED helperVars => RecoverableInv'
  BY DEF RecoverableInv, HelperTypeOK, Recoverable, Alive, helperVars
<1>2. RecoverableInv /\ [HelperNext]_helperVars => RecoverableInv'
  BY <1>1, OthersKeepIt, HelperKeepsIt DEF HelperNext
<1> QED
  BY <1>2, InitIsRecoverable, PTL DEF HelperSpec

\* Until the new version confirmed its startup the old one is in its place or
\* in the backup.
THEOREM AlwaysRecoverable == HelperSpec => []Recoverable
<1>1. RecoverableInv => Recoverable
  BY DEF RecoverableInv
<1> QED
  BY <1>1, AlwaysRecoverableInv, PTL

\* No two of the three applications run at the same time.
THEOREM OneCopyAlways == HelperSpec => []OneCopyRuns
<1>1. RecoverableInv => OneCopyRuns
  BY DEF RecoverableInv, OneCopyRuns
<1> QED
  BY <1>1, AlwaysRecoverableInv, PTL

\* What Admin is told of the update is what is installed.
THEOREM OutcomeAlwaysTrue == HelperSpec => []OutcomeIsTrue
<1>1. RecoverableInv => OutcomeIsTrue
  BY DEF RecoverableInv, OutcomeIsTrue
<1> QED
  BY <1>1, AlwaysRecoverableInv, PTL

\* The files are exchanged only while no new version runs.
THEOREM FilesRestWhileItRuns == HelperSpec => NeverUnderARunningApp
<1> DEFINE Rests == Alive => at'["target"] = at["target"]
<1>1. RecoverableInv /\ [HelperNext]_helperVars => [Rests]_helperVars
  <2> SUFFICES ASSUME RecoverableInv, HelperNext, Alive PROVE Rests
    OBVIOUS
  <2>1. CASE OtherStep
    BY <2>1 DEF OtherStep, ParentExits, Register, Confirm, CandidateEnds, HelperKilled
  <2>2. pc \in {"watch", "stop", "removeBackup", "tellUpdated", "done", "killed"}
    <3>1. pc \notin {"await", "preserve", "replace", "restore", "request", "launch", "move",
                      "putBack", "tellRollback", "relaunch"}
      BY DEF RecoverableInv, HelperTypeOK
    <3>2. pc \in {"await", "preserve", "replace", "restore", "relaunch", "request", "launch",
                 "watch", "stop", "move", "putBack", "tellRollback", "removeBackup",
                 "tellUpdated", "done", "killed"}
      BY DEF RecoverableInv, HelperTypeOK
    <3> QED
      BY <3>1, <3>2
  <2>3. CASE RemoveBackup
    BY <2>3 DEF RemoveBackup, RecoverableInv, HelperTypeOK, Places
  <2>4. CASE HelperStep /\ ~RemoveBackup
    BY <2>2, <2>4 DEF HelperStep, ParentGone, Refuse, Preserve, PreserveFails, Replace,
       ReplaceFails, Restore, RestoreFails, Relaunch, RelaunchFails, WriteRequest, Launch,
       LaunchFails, SeesReady, SeesFailure, TellUpdated, StopCandidate, StopFails,
       MoveFailed, MoveFails, PutBack, PutBackFails, TellRollback
  <2> QED
    BY <2>1, <2>3, <2>4 DEF HelperNext
<1> QED
  BY <1>1, AlwaysRecoverableInv, PTL DEF HelperSpec, NeverUnderARunningApp

\* Whatever fails and whoever dies: all of the above.
THEOREM HelperAlwaysSafe == HelperSpec => HelperIsSafe
<1> QED
  BY AlwaysRecoverable, OneCopyAlways, OutcomeAlwaysTrue, FilesRestWhileItRuns, PTL
  DEF HelperIsSafe

-----------------------------------------------------------------------------
(* An update from the first check to the last record. *)

\* The strengthening: who still has the staged files, and that main does not stop
\* waiting between the transfer of an update and its arrival in the channel.
SettledInv ==
  /\ OwnerInv
  /\ loop \in {"closing", "drained", "gone"} => Stopping
  /\ installer = "handing" => phase = "restarting"
  /\ loop \in {"drained", "gone"} => installer # "handing" /\ ~updateReady
  /\ prepared = "staged" => installer \in {"staged", "handing"} \/ updateReady
                              \/ pending = "update"
  /\ loop = "gone" /\ pending = "update" => prepared # "staged"

\* Every step of the manager keeps it.
LEMMA ManagerKeepsSettled ==
  ASSUME SettledInv, [ManagerNext]_managerVars
  PROVE  SettledInv'
  <1>1. OwnerInv' BY ManagerStepHolds DEF SettledInv
  <1> USE <1>1 DEF SettledInv, OwnerInv, Owned, Alone, Stopping, manager, main
  <1>2. CASE UNCHANGED managerVars BY <1>2 DEF managerVars
  <1>3. ASSUME NEW found \in BOOLEAN, NEW failed \in BOOLEAN, CheckEnds(found, failed)
        PROVE  SettledInv'
    BY <1>3 DEF CheckEnds, GivesBack
  <1>4. CASE CheckReleases \/ HearQuit \/ StageFails \/ Stages \/ InstallReleases
    BY <1>4 DEF CheckReleases, HearQuit, StageFails, Stages, InstallReleases
  <1>5. ASSUME NEW expired \in BOOLEAN, Transfers(expired) PROVE SettledInv'
    BY <1>5 DEF Transfers
  <1>6. CASE Hands BY <1>6 DEF Hands
  <1>7. CASE Start \/ TakeUpdate \/ TakeRestart \/ TakeQuit \/ Close
    BY <1>7 DEF Start, TakeUpdate, TakeRestart, TakeQuit, Close
  <1>8. CASE Drain BY <1>8 DEF Drain, AllEnded, TooSlow
  <1>9. ASSUME NEW succeeds \in BOOLEAN, Finish(succeeds) PROVE SettledInv'
    BY <1>9 DEF Finish
  <1>10. CASE Press \/ ReserveRestart \/ Check \/ Install \/ Quit \/ ServeFails
    BY <1>10 DEF Press, ReserveRestart, Check, Install, Quit, ServeFails, CanReserve, Busy,
                 Serving
  <1>11. CASE AbandonRestart \/ SendRestart BY <1>11 DEF AbandonRestart, SendRestart
  <1> QED BY <1>2, <1>3, <1>4, <1>5, <1>6, <1>7, <1>8, <1>9, <1>10, <1>11
          DEF ManagerNext, Manager, Main, Users, Restart

\* manager.go, Close, and main.go: when the process is over, what was prepared was
\* launched or given up, except what a staging too slow to be waited for leaves.
THEOREM UpdateAlwaysSettled == ManagerSpec => []UpdateIsSettled
  <1>1. ManagerInit => SettledInv
    BY ManagerInitHolds DEF ManagerInit, SettledInv, Stopping
  <1>2. SettledInv => UpdateIsSettled BY DEF SettledInv, OwnerInv, UpdateIsSettled
  <1> QED BY <1>1, <1>2, ManagerKeepsSettled, PTL DEF ManagerSpec

\* The strengthening: what the two ways back have said when the old version is due
\* to be started, so that a helper that cannot start it leaves the right word.
EndsInv ==
  /\ RecoverableInv
  /\ pc = "relaunch" /\ at["failed"] # "new" => outcome = "rolled_back" \/ unsaid
  /\ EndsWell

\* Every step of the helper and of the processes around it keeps it.
LEMMA HelperKeepsEnds ==
  ASSUME EndsInv, [HelperNext]_helperVars
  PROVE  EndsInv'
  <1>1. RecoverableInv'
    <2>1. CASE UNCHANGED helperVars
      BY <2>1 DEF EndsInv, RecoverableInv, HelperTypeOK, Recoverable, Alive, helperVars
    <2> QED BY <2>1, OthersKeepIt, HelperKeepsIt DEF EndsInv, HelperNext
  <1>2. RecoverableInv /\ EndsWell BY DEF EndsInv
  <1>3. /\ at \in [Places -> {"old", "new", "none"}]
        /\ {"target", "backup", "payload", "failed"} \subseteq Places
    BY <1>2 DEF RecoverableInv, HelperTypeOK, Places
  <1> USE <1>1 DEF EndsInv, EndsWell
  <1>4. CASE UNCHANGED helperVars BY <1>4 DEF helperVars
  <1>5. CASE ParentExits \/ Register \/ Confirm \/ CandidateEnds \/ HelperKilled
    BY <1>5 DEF ParentExits, Register, Confirm, CandidateEnds, HelperKilled, files
  <1>6. CASE ParentGone \/ Preserve \/ Replace \/ ReplaceFails \/ WriteRequest \/ Launch
             \/ LaunchFails \/ SeesReady \/ SeesFailure \/ RemoveBackup \/ StopCandidate
             \/ MoveFailed \/ PutBack
    BY <1>6 DEF ParentGone, Preserve, Replace, ReplaceFails, WriteRequest, Launch,
                LaunchFails, SeesReady, SeesFailure, RemoveBackup, StopCandidate, MoveFailed,
                PutBack, Goto
  <1>7. CASE Refuse \/ PreserveFails \/ RestoreFails \/ StopFails \/ MoveFails \/ PutBackFails
    <2>1. pc' = "done" /\ (outcome' = "error" \/ unsaid')
      BY <1>7 DEF Refuse, PreserveFails, RestoreFails, StopFails, MoveFails, PutBackFails,
                  GiveUp, Tells, Goto
    <2> QED BY <2>1
  <1>8. CASE Restore
    BY <1>2, <1>3, <1>8, MovedFacts DEF Restore, Goto, Tells, Quiet, RecoverableInv
  <1>9. CASE Relaunch BY <1>9 DEF Relaunch, Goto
  <1>10. CASE RelaunchFails BY <1>10 DEF RelaunchFails, Goto, Tells, Quiet, files
  <1>11. CASE TellUpdated
    BY <1>2, <1>11 DEF TellUpdated, Goto, Quiet, files, RecoverableInv
  <1>12. CASE TellRollback BY <1>12 DEF TellRollback, Goto, Tells
  <1> QED BY <1>4, <1>5, <1>6, <1>7, <1>8, <1>9, <1>10, <1>11, <1>12
          DEF HelperNext, OtherStep, HelperStep

\* helper.go: a helper that came to its end left an application that was started or
\* an error for the user, unless the record or the old version's start failed too.
THEOREM HelperAlwaysEndsWell == HelperSpec => []EndsWell
  <1>1. HelperInit => EndsInv
    BY InitIsRecoverable DEF HelperInit, EndsInv, EndsWell
  <1>2. EndsInv => EndsWell BY DEF EndsInv
  <1> QED BY <1>1, <1>2, HelperKeepsEnds, PTL DEF HelperSpec

\* The host and the helper together: each of them behaves as its own specification
\* says, so all of it holds of an update from the first check to the last record.
THEOREM UpdateIsBoth == UpdateSpec => ManagerSpec /\ HelperSpec
  <1>1. UpdateInit => ManagerInit /\ HelperInit BY DEF UpdateInit
  <1>2. [UpdateNext]_updateVars => [ManagerNext]_managerVars /\ [HelperNext]_helperVars
    BY DEF UpdateNext, ByHost, ByHelper, updateVars
  <1> QED BY <1>1, <1>2, PTL DEF UpdateSpec, ManagerSpec, HelperSpec

\* What an update never does, wherever it is when something fails.
THEOREM UpdateIsSafe ==
  UpdateSpec => [](ReservationIsOwned /\ UpdateIsSettled /\ EndsWell) /\ HelperIsSafe
  BY UpdateIsBoth, AlwaysOwned, UpdateAlwaysSettled, HelperAlwaysEndsWell, HelperAlwaysSafe, PTL

-----------------------------------------------------------------------------
(* The log of requests. *)

\* A press carried out by Play or Stop: not in the log, so not among the last ones.
LEMMA RememberKeeps ==
  ASSUME Requests!LogInv, NEW id \in Identities, ~Requests!Known(id),
         NEW epoch \in Nat, Requests!Remember(id, epoch)
  PROVE  Requests!LogInv'
  <1> DEFINE n == Len(acted)
             k == Len(order)
             kept == Requests!Kept
  <1>1. LogLimit \in Nat \ {0} BY PartsAssumption DEF Requests!RequestAssumption
  <1>2. n \in Nat /\ k \in Nat /\ k <= LogLimit /\ k <= n /\ (k < LogLimit => k = n)
    BY <1>1 DEF Requests!LogInv
  <1>16. /\ order \in Seq(Identities) /\ acted \in Seq(Identities)
         /\ DOMAIN order = 1..k /\ DOMAIN acted = 1..n
    BY DEF Requests!LogInv
  <1>14. \A i \in 1..k : order[i] = acted[n - k + i]
    BY <1>16 DEF Requests!LogInv
  <1>15. \A i, j \in 1..n : i < j /\ acted[i] = acted[j] => j - i > LogLimit
    BY <1>16 DEF Requests!LogInv
  <1>17. DOMAIN requests = {order[i] : i \in 1..k} BY <1>16 DEF Requests!LogInv
  <1>3. /\ acted' = Append(acted, id) /\ order' = Append(kept, id) /\ stopEpoch' = epoch
        /\ answers' = [answers EXCEPT ![id] = {epoch}]
        /\ requests' = [i \in {j \in DOMAIN requests : ~Requests!Forgotten(j)} \cup {id} |->
                          IF i = id THEN epoch ELSE requests[i]]
    BY DEF Requests!Remember
  <1>4. /\ acted' \in Seq(Identities) /\ Len(acted') = n + 1 /\ acted'[n + 1] = id
        /\ \A i \in 1..n : acted'[i] = acted[i]
    BY <1>3, <1>16
  <1>5. /\ kept \in Seq(Identities)
        /\ Len(kept) = IF k < LogLimit THEN k ELSE LogLimit - 1
        /\ \A i \in 1..Len(kept) : kept[i] = acted[n - Len(kept) + i]
    <2>1. CASE k < LogLimit
      <3>1. kept = order BY <1>1, <1>2, <2>1 DEF Requests!Kept
      <3> HIDE DEF kept
      <3> QED BY <1>2, <1>14, <1>16, <2>1, <3>1
    <2>2. CASE k = LogLimit
      <3>1. kept = Tail(order) BY <1>1, <1>2, <2>2 DEF Requests!Kept
      <3> HIDE DEF kept
      <3>2. /\ kept \in Seq(Identities) /\ Len(kept) = k - 1
            /\ \A i \in 1..(k - 1) : kept[i] = order[i + 1]
        BY <1>1, <1>2, <1>16, <2>2, <3>1
      <3>3. ASSUME NEW i \in 1..(k - 1) PROVE order[i + 1] = acted[n - (k - 1) + i]
        <4>1. i + 1 \in 1..k /\ n - k + (i + 1) = n - (k - 1) + i BY <1>2
        <4> QED BY <1>14, <4>1
      <3> HIDE DEF n, k
      <3> QED BY <1>1, <1>2, <2>2, <3>2, <3>3
    <2> QED BY <1>1, <1>2, <2>1, <2>2
  <1>6. /\ order' \in Seq(Identities) /\ Len(order') = Len(kept) + 1
        /\ order'[Len(kept) + 1] = id
        /\ \A i \in 1..Len(kept) : order'[i] = kept[i]
    <2> HIDE DEF kept
    <2> QED BY <1>3, <1>5
  <1>7. \A i \in DOMAIN order' : order'[i] = acted'[Len(acted') - Len(order') + i]
    <2> DEFINE m == Len(kept)
    <2>1. m \in Nat /\ m <= n /\ DOMAIN order' = 1..(m + 1) BY <1>1, <1>2, <1>5, <1>6
    <2>2. ASSUME NEW i \in 1..m PROVE order'[i] = acted'[(n + 1) - (m + 1) + i]
      <3>1. (n + 1) - (m + 1) + i = n - m + i /\ n - m + i \in 1..n BY <1>2, <2>1
      <3>2. order'[i] = acted[n - m + i] BY <1>5, <1>6
      <3> HIDE DEF n, m
      <3> QED BY <1>4, <3>1, <3>2
    <2>3. order'[m + 1] = acted'[(n + 1) - (m + 1) + (m + 1)]
      <3>1. (n + 1) - (m + 1) + (m + 1) = n + 1 BY <1>2, <2>1
      <3> QED BY <1>4, <1>6, <3>1
    <2>4. Len(acted') = n + 1 /\ Len(order') = m + 1 BY <1>4, <1>6
    <2> HIDE DEF n, m, kept
    <2> QED BY <2>1, <2>2, <2>3, <2>4
  <1>8. Len(order') = IF Len(acted') < LogLimit THEN Len(acted') ELSE LogLimit
    <2> HIDE DEF kept
    <2> QED BY <1>1, <1>2, <1>4, <1>5, <1>6
  <1>9. \A i \in 1..n : acted[i] = id => n + 1 - i > LogLimit
    <2> SUFFICES ASSUME NEW i \in 1..n, acted[i] = id, i > n - LogLimit PROVE FALSE
      BY <1>1, <1>2
    <2>1. i - (n - k) \in 1..k BY <1>1, <1>2
    <2>2. n - k + (i - (n - k)) = i BY <1>2
    <2>4. order[i - (n - k)] = acted[i] BY <1>14, <2>1, <2>2
    <2>3. id \in DOMAIN requests BY <1>17, <2>1, <2>4
    <2> QED BY <2>3 DEF Requests!Known
  <1>10. \A i, j \in DOMAIN acted' : i < j /\ acted'[i] = acted'[j] => j - i > LogLimit
    <2>1. ASSUME NEW i \in 1..(n + 1), NEW j \in 1..(n + 1), i < j, acted'[i] = acted'[j]
          PROVE  j - i > LogLimit
      <3>1. i \in 1..n BY <1>2, <2>1
      <3>2. CASE j \in 1..n BY <1>4, <1>15, <2>1, <3>1, <3>2
      <3>3. CASE j = n + 1 BY <1>2, <1>4, <1>9, <2>1, <3>1, <3>3
      <3> QED BY <1>2, <3>2, <3>3
    <2>2. DOMAIN acted' = 1..(n + 1) BY <1>2, <1>4
    <2> QED BY <2>1, <2>2
  <1>11. DOMAIN requests' = {order'[i] : i \in DOMAIN order'}
    <2>1. DOMAIN requests' = {kept[i] : i \in DOMAIN kept} \cup {id}
      <3>1. CASE k < LogLimit
        <4>1. kept = order BY <1>1, <1>2, <3>1 DEF Requests!Kept
        <4>2. \A j : ~Requests!Forgotten(j) BY <1>1, <1>2, <3>1 DEF Requests!Forgotten
        <4> HIDE DEF kept
        <4> QED BY <1>3, <1>16, <1>17, <4>1, <4>2
      <3>2. CASE k = LogLimit
        <4>1. kept = Tail(order) BY <1>1, <1>2, <3>2 DEF Requests!Kept
        <4>2. \A j : Requests!Forgotten(j) <=> j = order[1]
          BY <1>1, <1>2, <3>2 DEF Requests!Forgotten
        <4>3. \A i \in 2..k : order[i] # order[1]
          <5> SUFFICES ASSUME NEW i \in 2..k, order[i] = order[1] PROVE FALSE OBVIOUS
          <5>1. /\ n - k + 1 \in 1..n /\ n - k + i \in 1..n
                /\ (n - k + i) - (n - k + 1) = i - 1 /\ n - k + 1 < n - k + i
            BY <1>2
          <5>2. acted[n - k + 1] = acted[n - k + i] BY <1>2, <1>14
          <5> QED BY <1>1, <1>2, <1>15, <5>1, <5>2
        <4> HIDE DEF kept
        <4>4. DOMAIN kept = 1..(k - 1) /\ \A i \in 1..(k - 1) : kept[i] = order[i + 1]
          <5>1. /\ kept \in Seq(Identities) /\ Len(kept) = k - 1
                /\ \A i \in 1..(k - 1) : kept[i] = order[i + 1]
            BY <1>1, <1>2, <1>16, <3>2, <4>1
          <5> HIDE DEF k
          <5> QED BY <5>1
        <4>5. \A j : j \in {order[i] : i \in 1..k} /\ j # order[1]
                      <=> j \in {kept[i] : i \in 1..(k - 1)}
          <5>1. ASSUME NEW i \in 1..k, order[i] # order[1]
                PROVE  order[i] \in {kept[l] : l \in 1..(k - 1)}
            <6>1. i - 1 \in 1..(k - 1) /\ (i - 1) + 1 = i BY <1>2, <5>1
            <6> QED BY <4>4, <6>1
          <5>2. ASSUME NEW i \in 1..(k - 1)
                PROVE  kept[i] \in {order[l] : l \in 1..k} /\ kept[i] # order[1]
            <6>1. i + 1 \in 2..k /\ i + 1 \in 1..k BY <1>2
            <6> QED BY <4>3, <4>4, <6>1
          <5> HIDE DEF n, k
          <5> QED BY <5>1, <5>2
        <4> QED BY <1>3, <1>17, <4>2, <4>4, <4>5
      <3> QED BY <1>1, <1>2, <3>1, <3>2
    <2> HIDE DEF kept
    <2>2. DOMAIN order' = 1..(Len(kept) + 1) /\ DOMAIN kept = 1..Len(kept) BY <1>5, <1>6
    <2>3. Len(kept) \in Nat BY <1>5
    <2> QED BY <1>6, <2>1, <2>2, <2>3
  <1>12. \A i \in Identities : i \in DOMAIN requests' => answers'[i] = {requests'[i]}
    BY <1>3 DEF Requests!Known, Requests!LogInv
  <1>13. /\ DOMAIN answers' = Identities
         /\ \A i \in Identities : \A a, b \in answers'[i] : a = b
    BY <1>3 DEF Requests!LogInv
  <1> QED BY <1>3, <1>4, <1>6, <1>7, <1>8, <1>10, <1>11, <1>12, <1>13
       DEF Requests!Known, Requests!LogInv

\* Every step of the log keeps its invariant.
LEMMA LogKeeps ==
  ASSUME Requests!LogInv, [Requests!Next]_requestVars
  PROVE  Requests!LogInv'
  <1>1. CASE UNCHANGED requestVars
    BY <1>1 DEF Requests!LogInv, requestVars, Requests!Known
  <1>2. ASSUME NEW id \in Identities, Requests!Send(id) PROVE Requests!LogInv'
    BY <1>2 DEF Requests!LogInv, Requests!Send, Requests!Known
  <1>3. ASSUME NEW id \in Identities, Requests!AnswerAgain(id) PROVE Requests!LogInv'
    BY <1>3 DEF Requests!LogInv, Requests!AnswerAgain, Requests!Known
  <1>4. ASSUME NEW id \in Identities, Requests!Play(id) PROVE Requests!LogInv'
    <2>1. stopEpoch \in Nat BY DEF Requests!LogInv
    <2> QED BY <1>4, <2>1, RememberKeeps DEF Requests!Play
  <1>5. ASSUME NEW id \in Identities, Requests!Stop(id) PROVE Requests!LogInv'
    <2>1. stopEpoch + 1 \in Nat BY DEF Requests!LogInv
    <2> QED BY <1>5, <2>1, RememberKeeps DEF Requests!Stop
  <1> QED BY <1>1, <1>2, <1>3, <1>4, <1>5 DEF Requests!Next

\* service.go, duplicateLocked and rememberLocked: whatever is delivered again and
\* when, a press is carried out a second time only after LogLimit others were,
\* every copy is answered alike until then, and the log does not grow.
THEOREM PressesActOnce == HostSpec => []ActsOnce
  <1>1. HostInit => Requests!LogInv
    <2> SUFFICES ASSUME HostInit PROVE Requests!LogInv OBVIOUS
    <2>1. LogLimit \in Nat \ {0} BY PartsAssumption DEF Requests!RequestAssumption
    <2>2. Requests!Init BY DEF HostInit
    <2> QED BY <2>1, <2>2 DEF Requests!Init, Requests!LogInv, Requests!Known
  <1>2. Requests!LogInv /\ [HostNext]_hostVars => Requests!LogInv'
    <2> SUFFICES ASSUME Requests!LogInv, [HostNext]_hostVars PROVE Requests!LogInv' OBVIOUS
    <2>1. [Requests!Next]_requestVars
      BY DEF HostNext, StorePart, UpdatePart, ValidationPart, RequestsPart, StreamsPart,
             SlotsPart, hostVars
    <2> QED BY <2>1, LogKeeps
  <1>3. Requests!LogInv => ActsOnce
    <2> SUFFICES ASSUME Requests!LogInv PROVE ActsOnce OBVIOUS
    <2>1. LogLimit \in Nat \ {0} BY PartsAssumption DEF Requests!RequestAssumption
    <2>4. \A i, j \in DOMAIN order : i < j => order[i] # order[j]
      <3> DEFINE d == Len(acted) - Len(order)
      <3>1. /\ Len(acted) \in Nat /\ Len(order) \in Nat /\ Len(order) <= LogLimit /\ d \in Nat
            /\ Len(acted) = d + Len(order)
            /\ DOMAIN order = 1..Len(order) /\ DOMAIN acted = 1..Len(acted)
        BY <2>1 DEF Requests!LogInv
      <3>2. \A i \in DOMAIN order : order[i] = acted[d + i] BY DEF Requests!LogInv
      <3>3. \A i, j \in DOMAIN acted : i < j /\ acted[i] = acted[j] => j - i > LogLimit
        BY DEF Requests!LogInv
      <3> HIDE DEF d
      <3> SUFFICES ASSUME NEW i \in DOMAIN order, NEW j \in DOMAIN order, i < j,
                          order[i] = order[j]
                   PROVE  FALSE
        OBVIOUS
      <3>4. /\ d + i \in DOMAIN acted /\ d + j \in DOMAIN acted /\ d + i < d + j
            /\ (d + j) - (d + i) = j - i /\ j - i < LogLimit
        BY <2>1, <3>1
      <3> QED BY <2>1, <3>1, <3>2, <3>3, <3>4
    <2>2. Requests!LogIsBounded
      <3>1. \A i, j \in DOMAIN order : order[i] = order[j] => i = j
        <4>1. DOMAIN order = 1..Len(order) /\ Len(order) \in Nat BY DEF Requests!LogInv
        <4> QED BY <2>4, <4>1
      <3> QED BY <2>1, <3>1 DEF Requests!LogInv, Requests!LogIsBounded
    <2>3. Requests!ActsOnce BY DEF Requests!LogInv, Requests!ActsOnce
    <2> QED BY <2>2, <2>3 DEF ActsOnce
  <1> QED BY <1>1, <1>2, <1>3, PTL DEF HostSpec
=============================================================================
