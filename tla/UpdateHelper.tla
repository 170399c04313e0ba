---------------------------- MODULE UpdateHelper ----------------------------
(***************************************************************************)
(* The program that replaces the installed application: update.RunHelper   *)
(* and rollback (internal/update/helper.go), with the application that     *)
(* started it, the new version it starts, and that version's two           *)
(* confirmations (RegisterStartup, ConfirmStartup).                        *)
(*                                                                         *)
(* The helper waits for the old application to exit, moves it to a backup, *)
(* moves the new version into its place, starts it, and removes the backup *)
(* only when the new version says that it runs.  Otherwise it stops the    *)
(* new version and puts the old one back.  Every rename, launch and record *)
(* may fail, the new version may stop at any moment, and so may the helper.*)
(*                                                                         *)
(* Files are abstracted to the version they hold, the plan is taken to be  *)
(* valid.  Not modelled: staging, signatures, the firewall, the install    *)
(* lock, a second copy started by hand.                                    *)
(***************************************************************************)
EXTENDS Naturals

CONSTANT Kind   \* what is installed: a "binary", or a macOS "bundle"

ASSUME HelperAssumption == Kind \in {"binary", "bundle"}

Places == {"target", "backup", "payload", "failed"}

VARIABLES
  at,         \* the version in each place: "old", "new" or "none"
  parent,     \* the application that asked for the update still runs
  pc,         \* the helper's next step; "done", or "killed"
  newApp,  \* the new version's process: "none", "started", "registered",
              \* "confirmed" or "gone"
  started,    \* startup.json.started is written
  ready,      \* startup.json.ready is written
  relaunched, \* the old version was started again
  outcome,    \* update-result.json: "none", "updated", "rolled_back", "error"
  unsaid      \* an outcome could not be written

helperVars == <<at, parent, pc, newApp, started, ready, relaunched, outcome, unsaid>>

files == <<started, ready>>

HelperTypeOK ==
  /\ at \in [Places -> {"old", "new", "none"}]
  /\ parent \in BOOLEAN /\ started \in BOOLEAN /\ ready \in BOOLEAN
  /\ relaunched \in BOOLEAN /\ unsaid \in BOOLEAN
  /\ pc \in {"await", "preserve", "replace", "restore", "relaunch", "request", "launch",
             "watch", "stop", "move", "putBack", "tellRollback", "removeBackup",
             "tellUpdated", "done", "killed"}
  /\ newApp \in {"none", "started", "registered", "confirmed", "gone"}
  /\ outcome \in {"none", "updated", "rolled_back", "error"}

HelperInit ==
  /\ at = [p \in Places |-> CASE p = "target" -> "old" [] p = "payload" -> "new"
                              [] OTHER -> "none"]
  /\ parent = TRUE /\ pc = "await"
  /\ newApp = "none" /\ started = FALSE /\ ready = FALSE
  /\ relaunched = FALSE /\ outcome = "none" /\ unsaid = FALSE

Alive == newApp \in {"started", "registered", "confirmed"}

-----------------------------------------------------------------------------
(* The other processes.                                                    *)

ParentExits ==
  /\ parent
  /\ parent' = FALSE
  /\ UNCHANGED <<at, pc, newApp, files, relaunched, outcome, unsaid>>

\* Before its native side starts, the new version leaves its process number.
Register ==
  /\ newApp = "started"
  /\ newApp' = "registered" /\ started' = TRUE
  /\ UNCHANGED <<at, parent, pc, ready, relaunched, outcome, unsaid>>

\* With storage and listeners open it confirms.
Confirm ==
  /\ newApp = "registered"
  /\ newApp' = "confirmed" /\ ready' = TRUE
  /\ UNCHANGED <<at, parent, pc, started, relaunched, outcome, unsaid>>

CandidateEnds ==
  /\ Alive
  /\ newApp' = "gone"
  /\ UNCHANGED <<at, parent, pc, files, relaunched, outcome, unsaid>>

\* The helper is killed; nobody continues its work.
HelperKilled ==
  /\ pc \notin {"done", "killed"}
  /\ pc' = "killed"
  /\ UNCHANGED <<at, parent, newApp, files, relaunched, outcome, unsaid>>

-----------------------------------------------------------------------------
(* Steps of the helper.                                                    *)

Moved(from, to) == [at EXCEPT ![to] = at[from], ![from] = "none"]

Goto(step) == pc' = step

\* finishOutcome: the record may not be written.
Tells(result) ==
  \/ outcome' = result /\ UNCHANGED unsaid
  \/ unsaid' = TRUE /\ UNCHANGED outcome

Quiet == UNCHANGED <<parent, newApp, files, relaunched>>

\* The helper gives up: the outcome says what is to be done by hand.
GiveUp ==
  /\ Goto("done")
  /\ Tells("error")

ParentGone ==
  /\ pc = "await" /\ ~parent
  /\ Goto("preserve")
  /\ UNCHANGED <<at, outcome, unsaid>> /\ Quiet

\* The parent did not exit in time, or the installation is not the one the
\* update was prepared for: nothing is replaced.
Refuse ==
  /\ pc = "await" \/ pc = "preserve"
  /\ GiveUp
  /\ UNCHANGED at /\ Quiet

Preserve ==
  /\ pc = "preserve"
  /\ at' = Moved("target", "backup")
  /\ Goto("replace")
  /\ UNCHANGED <<outcome, unsaid>> /\ Quiet

\* The old version cannot be moved: it is started again as it is.
PreserveFails ==
  /\ pc = "preserve"
  /\ Tells("error")
  /\ relaunched' \in BOOLEAN
  /\ Goto("done")
  /\ UNCHANGED <<at, parent, newApp, files>>

Replace ==
  /\ pc = "replace"
  /\ at' = Moved("payload", "target")
  /\ Goto("request")
  /\ UNCHANGED <<outcome, unsaid>> /\ Quiet

ReplaceFails ==
  /\ pc = "replace"
  /\ Goto("restore")
  /\ UNCHANGED <<at, outcome, unsaid>> /\ Quiet

Restore ==
  /\ pc = "restore"
  /\ at' = Moved("backup", "target")
  /\ Tells("rolled_back")
  /\ Goto("relaunch")
  /\ Quiet

RestoreFails ==
  /\ pc = "restore"
  /\ GiveUp
  /\ UNCHANGED at /\ Quiet

\* The last step of both ways back.
Relaunch ==
  /\ pc = "relaunch"
  /\ relaunched' = TRUE
  /\ Goto("done")
  /\ UNCHANGED <<at, parent, newApp, files, outcome, unsaid>>

\* After a rollback the failure is recorded; after a failed replacement it is
\* only the helper's exit status.
RelaunchFails ==
  /\ pc = "relaunch"
  /\ \/ at["failed"] = "new" /\ Tells("error")
     \/ at["failed"] = "none" /\ UNCHANGED <<outcome, unsaid>>
  /\ Goto("done")
  /\ UNCHANGED at /\ Quiet

WriteRequest ==
  /\ pc = "request"
  /\ Goto("launch") \/ Goto("stop")
  /\ UNCHANGED <<at, outcome, unsaid>> /\ Quiet

Launch ==
  /\ pc = "launch"
  /\ newApp' = "started"
  /\ Goto("watch")
  /\ UNCHANGED <<at, parent, files, relaunched, outcome, unsaid>>

LaunchFails ==
  /\ pc = "launch"
  /\ Goto("stop")
  /\ UNCHANGED <<at, outcome, unsaid>> /\ Quiet

\* waitStartup: the receipt of a process that still runs.
SeesReady ==
  /\ pc = "watch"
  /\ ready /\ Alive
  /\ Goto("removeBackup")
  /\ UNCHANGED <<at, outcome, unsaid>> /\ Quiet

\* slip in SeesFailure: without the deadline.
SeesExit ==
  /\ pc = "watch" /\ ~Alive
  /\ Goto("stop")
  /\ UNCHANGED <<at, outcome, unsaid>> /\ Quiet

\* The process is gone, or 90 s have passed.
SeesFailure ==
  /\ pc = "watch"
  /\ Goto("stop")
  /\ UNCHANGED <<at, outcome, unsaid>> /\ Quiet

RemoveBackup ==
  /\ pc = "removeBackup"
  /\ at' = [at EXCEPT !["backup"] = "none"] \/ at' = at
  /\ Goto("tellUpdated")
  /\ UNCHANGED <<outcome, unsaid>> /\ Quiet

TellUpdated ==
  /\ pc = "tellUpdated"
  /\ Tells("updated")
  /\ Goto("done")
  /\ UNCHANGED at /\ Quiet

-----------------------------------------------------------------------------
(* rollback.                                                               *)

\* Who the new version's process is, is known from its registration, or, for
\* a binary, from having started it.
Known == started \/ Kind = "binary"

\* slip in StopCandidate: a process nobody knows is passed over.
StopIfKnown ==
  /\ pc = "stop"
  /\ newApp' = IF Alive /\ Known THEN "gone" ELSE newApp
  /\ Goto("move")
  /\ UNCHANGED <<at, parent, files, relaunched, outcome, unsaid>>

\* The new version is stopped and seen to be gone.
StopCandidate ==
  /\ pc = "stop"
  /\ Alive => Known
  /\ newApp' = IF Alive THEN "gone" ELSE newApp
  /\ Goto("move")
  /\ UNCHANGED <<at, parent, files, relaunched, outcome, unsaid>>

\* It cannot be stopped, or nobody can say which process it is.
StopFails ==
  /\ pc = "stop" /\ Alive
  /\ GiveUp
  /\ UNCHANGED at /\ Quiet

MoveFailed ==
  /\ pc = "move"
  /\ at' = Moved("target", "failed")
  /\ Goto("putBack")
  /\ UNCHANGED <<outcome, unsaid>> /\ Quiet

MoveFails ==
  /\ pc = "move"
  /\ GiveUp
  /\ UNCHANGED at /\ Quiet

PutBack ==
  /\ pc = "putBack"
  /\ at' = Moved("backup", "target")
  /\ Goto("tellRollback")
  /\ UNCHANGED <<outcome, unsaid>> /\ Quiet

\* The new version is moved back into its place, if that can be done.
PutBackFails ==
  /\ pc = "putBack"
  /\ at' = Moved("failed", "target") \/ at' = at
  /\ GiveUp
  /\ Quiet

\* An outcome that cannot be written ends the helper here.
TellRollback ==
  /\ pc = "tellRollback"
  /\ Tells("rolled_back")
  /\ Goto(IF unsaid' THEN "done" ELSE "relaunch")
  /\ UNCHANGED at /\ Quiet

-----------------------------------------------------------------------------
OtherStep == ParentExits \/ Register \/ Confirm \/ CandidateEnds \/ HelperKilled

HelperStep ==
  \/ ParentGone \/ Refuse \/ Preserve \/ PreserveFails
  \/ Replace \/ ReplaceFails \/ Restore \/ RestoreFails \/ Relaunch \/ RelaunchFails
  \/ WriteRequest \/ Launch \/ LaunchFails \/ SeesReady \/ SeesFailure
  \/ RemoveBackup \/ TellUpdated
  \/ StopCandidate \/ StopFails \/ MoveFailed \/ MoveFails \/ PutBack \/ PutBackFails
  \/ TellRollback

HelperNext == OtherStep \/ HelperStep

HelperSpec == HelperInit /\ [][HelperNext]_helperVars

\* The helper goes on: each of its waits has a deadline.  Nothing makes the
\* parent exit or the new version start, register or confirm.
HelperFairSpec == HelperSpec /\ WF_helperVars(HelperStep)

-----------------------------------------------------------------------------
(* Properties.                                                             *)

\* The previous installation can be recovered until the new version confirmed
\* its startup (decisions.md), whatever fails and whenever the helper stops.
Recoverable == at["target"] = "old" \/ at["backup"] = "old" \/ ready

\* Why: where the old version is at each step.
RecoverableInv ==
  /\ HelperTypeOK
  /\ pc \in {"await", "preserve"} =>
       at["target"] = "old" /\ at["payload"] = "new" /\ at["failed"] = "none"
  /\ pc \in {"replace", "restore"} =>
       at["backup"] = "old" /\ at["payload"] = "new" /\ at["failed"] = "none"
  /\ pc \in {"request", "launch", "watch", "stop", "move"} =>
       at["backup"] = "old" /\ at["target"] = "new" /\ at["failed"] = "none"
  /\ pc = "putBack" => at["backup"] = "old" /\ at["failed"] = "new"
  /\ pc \in {"relaunch", "tellRollback"} => at["target"] = "old"
  /\ pc \in {"removeBackup", "tellUpdated"} => at["target"] = "new" /\ ready
  /\ pc \in {"await", "preserve", "replace", "restore", "request", "launch",
             "move", "putBack", "tellRollback", "relaunch"} => ~Alive
  /\ relaunched => ~Alive /\ pc \in {"done", "killed"}
  /\ parent => pc \in {"await", "done", "killed"} /\ ~Alive /\ ~relaunched
  /\ newApp = "confirmed" => ready
  /\ outcome = "updated" => at["target"] = "new" /\ ready /\ pc \in {"done", "killed"}
  /\ outcome = "rolled_back" =>
       at["target"] = "old" /\ pc \in {"relaunch", "done", "killed"}
  /\ Recoverable

\* At no time do two of the old application, the new version and the old
\* version started again run: they would share one saved show and one screen.
OneCopyRuns ==
  /\ parent => ~Alive /\ ~relaunched
  /\ Alive => ~relaunched

\* The installed files are never exchanged under a new version that runs.
NeverUnderARunningApp == [][Alive => at'["target"] = at["target"]]_helperVars

\* What Admin says of the update is what is installed.
OutcomeIsTrue ==
  /\ outcome = "updated" => at["target"] = "new" /\ ready
  /\ outcome = "rolled_back" => at["target"] = "old"

\* Together: whatever fails and whoever dies, a whole installation is there, it is not
\* exchanged under its own process, two copies never run, and what is said is so.
HelperIsSafe == [](Recoverable /\ OneCopyRuns /\ OutcomeIsTrue) /\ NeverUnderARunningApp

\* A helper that came to its end left an application that was started, or an
\* error for the user, unless the record itself or (after a failed
\* replacement) the old version's start failed as well.
EndsWell ==
  pc = "done" =>
    relaunched \/ ready \/ outcome = "error" \/ unsaid
      \/ (outcome = "rolled_back" /\ at["failed"] = "none")
=============================================================================
