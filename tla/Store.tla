-------------------------------- MODULE Store --------------------------------
(* The configuration store (store/store.go, native_unix.go): state.json and its *)
(* backup, each replaced by a synced temporary file, a rename and a flush of the *)
(* directory.  Every system call is a step, may fail, and may be the last one    *)
(* before the process dies or the machine loses its power.                       *)
(*                                                                               *)
(* A configuration is the number of the save that made it; 0 is no file.         *)
EXTENDS Naturals

CONSTANTS MaxSaves, MaxCrashes   \* bounds: saves and crashes of a behaviour

ASSUME BoundAssumption == MaxSaves \in Nat /\ MaxCrashes \in Nat

VARIABLES
  seen,     \* what a reader of the running machine finds under a name
  landing,  \* what the disk holds under it if the pending rename gets there
  disk,     \* what the disk holds under it if it does not
  temp,     \* the temporary file
  op,       \* the save under way: its version, the file being replaced, the next call
  good,     \* the content the process knows to be valid
  up,       \* is a process running?
  issued,   \* saves so far
  crashes,
  inForce   \* history: contents that were ever good

storeVars == <<seen, landing, disk, temp, op, good, up, issued, crashes, inForce>>

Files == {"state", "backup"}
Torn == MaxSaves + 1
Versions == 0..MaxSaves
Contents == 0..Torn
Idle == [version |-> 0, file |-> "state", step |-> "idle"]
NoTemp == [content |-> 0, synced |-> FALSE]

StoreTypeOK ==
  /\ seen \in [Files -> Contents] /\ landing \in [Files -> Contents] /\ disk \in [Files -> Contents]
  /\ temp \in [content : Contents, synced : BOOLEAN]
  /\ op \in [version : Versions, file : Files,
             step : {"idle", "write", "sync", "rename", "flush"}]
  /\ good \in Contents /\ up \in BOOLEAN /\ issued \in Versions /\ crashes \in 0..MaxCrashes
  /\ inForce \subseteq Contents
  /\ temp # NoTemp => op.step \in {"sync", "rename"}   \* write removes its temporary file

Empty == [f \in Files |-> 0]

StoreInit ==
  /\ seen = Empty /\ landing = Empty /\ disk = Empty
  /\ temp = NoTemp /\ op = Idle /\ good = 0 /\ up = TRUE
  /\ issued = 0 /\ crashes = 0 /\ inForce = {0}

Data(o, g) == IF o.file = "backup" THEN g ELSE o.version

Files3 == <<seen, landing, disk>>
Rest == <<good, up, issued, crashes, inForce>>

Begin ==
  /\ up /\ op = Idle /\ issued < MaxSaves
  /\ issued' = issued + 1
  /\ op' = [version |-> issued + 1, file |-> IF good = 0 THEN "state" ELSE "backup", step |-> "write"]
  /\ UNCHANGED <<seen, landing, disk, temp, good, up, crashes, inForce>>

Goes(from, to) == up /\ op.step = from /\ op' = [op EXCEPT !.step = to] /\ UNCHANGED Rest

WriteTemp ==
  /\ Goes("write", "sync")
  /\ temp' = [content |-> Data(op, good), synced |-> FALSE]
  /\ UNCHANGED Files3

\* slip: the temporary file is not synced
SyncNothing ==
  /\ Goes("sync", "rename")
  /\ UNCHANGED <<Files3, temp>>

SyncTemp ==
  /\ Goes("sync", "rename")
  /\ temp' = [temp EXCEPT !.synced = TRUE]
  /\ UNCHANGED Files3

RenameTemp ==
  /\ Goes("rename", "flush")
  /\ seen' = [seen EXCEPT ![op.file] = temp.content]
  /\ landing' = [landing EXCEPT ![op.file] = IF temp.synced THEN temp.content ELSE Torn]
  /\ temp' = NoTemp
  /\ UNCHANGED disk

FlushBackup ==
  /\ up /\ op.step = "flush" /\ op.file = "backup"
  /\ disk' = landing
  /\ op' = [op EXCEPT !.file = "state", !.step = "write"]
  /\ UNCHANGED <<seen, landing, temp, Rest>>

SaysSaved ==
  /\ op' = Idle /\ good' = op.version /\ inForce' = inForce \cup {op.version}
  /\ UNCHANGED <<seen, landing, temp, up, issued, crashes>>

\* slip: the directory is not flushed before Save returns
SaveWithoutFlush == up /\ op.step = "flush" /\ op.file = "state" /\ SaysSaved /\ UNCHANGED disk

\* the directory is flushed and Save returns without an error
FlushState == up /\ op.step = "flush" /\ op.file = "state" /\ disk' = landing /\ SaysSaved

\* any call fails: Save removes the temporary file and returns the error
Fail ==
  /\ up /\ op.step # "idle"
  /\ op' = Idle /\ temp' = NoTemp
  /\ UNCHANGED <<Files3, Rest>>

Dies == crashes < MaxCrashes /\ crashes' = crashes + 1 /\ up' = FALSE /\ op' = Idle /\ temp' = NoTemp

CrashProcess == up /\ Dies /\ UNCHANGED <<Files3, good, issued, inForce>>

\* each directory entry got to the disk or did not
LosePower ==
  /\ Dies
  /\ \E left \in [Files -> Contents] :
       /\ \A f \in Files : left[f] \in {disk[f], landing[f]}
       /\ seen' = left /\ landing' = left /\ disk' = left
  /\ UNCHANGED <<good, issued, inForce>>

\* Open: a file that does not parse stops the start
Open ==
  /\ ~up /\ seen["state"] # Torn
  /\ up' = TRUE /\ good' = seen["state"] /\ inForce' = inForce \cup {seen["state"]}
  /\ UNCHANGED <<Files3, temp, op, issued, crashes>>

StoreNext ==
  \/ Begin \/ WriteTemp \/ SyncTemp \/ RenameTemp \/ FlushBackup \/ FlushState \/ Fail
  \/ CrashProcess \/ LosePower \/ Open

StoreSpec == StoreInit /\ [][StoreNext]_storeVars

-------------------------------------------------------------------------------
(* Properties *)

\* Whatever call a crash or a power failure follows, both files are whole
\* configurations afterwards: the host starts again ("Corruption stops startup").
Readable == \A f \in Files : Torn \notin {seen[f], landing[f], disk[f]}

\* Saving means: a restart finds the version saved last, or one tried since.
Abstract == INSTANCE DurableShow WITH may <- {disk["state"], landing["state"]}
StoreIsDurable == Abstract!Spec

\* When Save reports success, the version it replaced is on the disk as the backup
\* ("the previous valid snapshot becomes state.json.bak").
PreviousIsKept == [][up /\ up' /\ good' # good /\ good # 0 => disk'["backup"] = good]_storeVars

\* A backup is never a version that was refused or cut off before it was in force.
BackupWasInForce == {landing["backup"], disk["backup"]} \subseteq inForce

Saving == op.step # "idle"
Writing == op.step \in {"write", "sync", "rename"}   \* op.file is still the old one

\* The inductive invariant behind these: the temporary file and a renamed one hold
\* what write was given, only a synced one is renamed, no file holds a version that
\* was never tried, and the state is replaced only once its backup is on the disk.
StoreInv ==
  /\ \A f \in Files : {seen[f], landing[f], disk[f]} \subseteq 0..issued /\ seen[f] = landing[f]
  /\ good \in 0..issued /\ good \in inForce
  /\ {landing["backup"], disk["backup"]} \subseteq inForce
  /\ op.step = "idle" => op = Idle
  /\ Saving => up /\ op.version = issued /\ issued > 0 /\ good < issued
  /\ Saving /\ (op.file = "backup" \/ Writing) => landing["state"] < issued /\ disk["state"] < issued
  /\ Saving /\ op.file = "state" /\ good # 0 => landing["backup"] = good /\ disk["backup"] = good
  /\ op.step \in {"sync", "rename"} => temp.content = Data(op, good)
  /\ op.step = "rename" => temp.synced
  /\ op.step = "flush" => landing[op.file] = Data(op, good)

\* A save that failed changed nothing: the file holds what the process goes on
\* with ("failed save changed state", store_test.go).  It does not hold: the rename
\* stays when the flush after it fails.
FailedSaveChangesNothing == up /\ op = Idle => seen["state"] = good
=============================================================================
