--------------------------- MODULE UpdateManager ---------------------------
(***************************************************************************)
(* The updater of a running host (src/internal/update/manager.go) and the  *)
(* part of main.go that takes a prepared update over.                      *)
(*                                                                         *)
(* The reservation of the playback coordinator (app.ReserveUpdate) passes  *)
(* from hand to hand: the check at startup, the installation, the channel  *)
(* to the main loop, the restart.  A change of the remote access mode      *)
(* takes the same reservation (RemoteAccess).  Each goroutine is cut at    *)
(* its critical sections; what it releases in a defer is a step of its     *)
(* own, for the mutex is free by then.                                     *)
(***************************************************************************)
EXTENDS Integers

CONSTANTS
  AutoInstall,   \* updates are installed at startup (no --no-auto-update)
  MaxChecks,     \* bound: checks asked for after the first
  MaxPresses     \* bound: times playback is started or stopped

ASSUME UpdaterAssumption ==
  AutoInstall \in BOOLEAN /\ MaxChecks \in Nat /\ MaxPresses \in Nat

VARIABLES
  phase,      \* status.Phase
  candidate,  \* a newer release is known
  tried,      \* the last attempt to install that release failed (LastUpdate)
  closed,     \* Close was called
  cancelled,  \* Manager.ctx
  checker,    \* the check under way, and whether it holds the reservation
  releases,   \* a check that ended has yet to give its reservation back
  installer,  \* how far install is
  prepared,   \* the prepared update
  updateReady,  \* its channel holds it
  other,      \* the reservation taken to change the remote access mode
  loop,       \* where main is
  pending,    \* pendingUpdate: what main hands over at the end
  quit,       \* somebody asked to quit
  shut,       \* service.Close ran
  reserved, playing,   \* of the playback coordinator
  checks, presses

manager == <<phase, candidate, tried, closed, cancelled, checker, releases, installer>>
main == <<loop, pending, updateReady, quit, shut>>
managerVars == <<manager, main, prepared, other, reserved, playing, checks, presses>>

ManagerTypeOK ==
  /\ phase \in {"idle", "checking", "available", "downloading", "restarting", "error"}
  /\ candidate \in BOOLEAN /\ tried \in BOOLEAN /\ closed \in BOOLEAN
  /\ cancelled \in BOOLEAN /\ releases \in BOOLEAN /\ updateReady \in BOOLEAN
  /\ quit \in BOOLEAN /\ shut \in BOOLEAN /\ reserved \in BOOLEAN /\ playing \in BOOLEAN
  /\ checker \in {"none", "plain", "startup"}
  /\ installer \in {"none", "working", "staged", "handing", "failed"}
  /\ prepared \in {"none", "staged", "aborted", "launched"}
  /\ other \in {"none", "held", "sent"}
  /\ loop \in {"starting", "running", "leaving", "closing", "drained", "gone"}
  /\ pending \in {"none", "update", "restart"}

ManagerInit ==
  /\ phase = "idle" /\ candidate = FALSE /\ tried \in BOOLEAN
  /\ closed = FALSE /\ cancelled = FALSE
  /\ checker = "none" /\ releases = FALSE /\ installer = "none"
  /\ prepared = "none" /\ updateReady = FALSE /\ other = "none"
  /\ loop = "starting" /\ pending = "none" /\ quit = FALSE /\ shut = FALSE
  /\ reserved = FALSE /\ playing = FALSE
  /\ checks = 0 /\ presses = 0

Busy == phase \in {"checking", "downloading", "restarting"}
Stopping == closed \/ cancelled
Serving == loop \in {"running", "leaving"}     \* requests are still answered
CanReserve == ~reserved /\ ~playing /\ ~shut

-----------------------------------------------------------------------------
(* Playback, and a change of the remote access mode.                       *)

Press ==
  /\ presses < MaxPresses
  /\ loop # "gone" /\ ~shut /\ ~reserved
  /\ playing' = ~playing
  /\ presses' = presses + 1
  /\ UNCHANGED <<manager, main, prepared, other, reserved, checks>>

ReserveRestart ==
  /\ Serving /\ CanReserve /\ other = "none"
  /\ reserved' = TRUE /\ other' = "held"
  /\ UNCHANGED <<manager, main, prepared, playing, checks, presses>>

AbandonRestart ==
  /\ loop # "gone" /\ other = "held"
  /\ reserved' = FALSE /\ other' = "none"
  /\ UNCHANGED <<manager, main, prepared, playing, checks, presses>>

SendRestart ==
  /\ loop # "gone" /\ other = "held"
  /\ other' = "sent"
  /\ UNCHANGED <<manager, main, prepared, reserved, playing, checks, presses>>

-----------------------------------------------------------------------------
(* The manager.                                                            *)

\* Manager.Start: playback is reserved before the first check begins.
Start ==
  /\ loop = "starting" /\ loop' = "running"
  /\ IF quit
     THEN /\ cancelled' = TRUE
          /\ UNCHANGED <<phase, checker, reserved>>
     ELSE /\ phase' = "checking"
          /\ IF AutoInstall /\ CanReserve
             THEN checker' = "startup" /\ reserved' = TRUE
             ELSE checker' = "plain" /\ UNCHANGED reserved
          /\ UNCHANGED cancelled
  /\ UNCHANGED <<candidate, tried, closed, releases, installer, pending, updateReady, quit,
                 shut, prepared, other, playing, checks, presses>>

\* Its ticker goroutine hears that the application quits.
HearQuit ==
  /\ loop \notin {"starting", "gone"} /\ quit /\ ~cancelled
  /\ cancelled' = TRUE
  /\ UNCHANGED <<phase, candidate, tried, closed, checker, releases, installer, main,
                 prepared, other, reserved, playing, checks, presses>>

Check ==
  /\ Serving /\ checks < MaxChecks
  /\ ~Stopping /\ ~Busy
  /\ phase' = "checking" /\ checker' = "plain"
  /\ checks' = checks + 1
  /\ UNCHANGED <<candidate, tried, closed, cancelled, releases, installer, main,
                 prepared, other, reserved, playing, presses>>

\* slip in GivesBack: the check keeps what it handed over.
GivesBackAnyway(handed) == releases' = (releases \/ checker = "startup")

\* The deferred release of a check that handed its reservation to no one.
GivesBack(handed) == releases' = (releases \/ (checker = "startup" /\ ~handed))

\* check: the answer of the release list, taken under the mutex.
CheckEnds(found, failed) ==
  /\ loop # "gone" /\ checker # "none"
  /\ LET installs == ~Stopping /\ found /\ ~failed /\ ~tried /\ checker = "startup"
     IN  /\ GivesBack(installs)
         /\ installer' = IF installs THEN "working" ELSE installer
         /\ candidate' = IF Stopping THEN candidate ELSE found /\ ~failed
         /\ phase' = IF Stopping THEN phase
                     ELSE IF failed THEN "error"
                     ELSE IF ~found THEN "idle"
                     ELSE IF installs THEN "downloading" ELSE "available"
  /\ checker' = "none"
  /\ UNCHANGED <<tried, closed, cancelled, main, prepared, other, reserved, playing,
                 checks, presses>>

CheckReleases ==
  /\ loop # "gone" /\ releases
  /\ releases' = FALSE /\ reserved' = FALSE
  /\ UNCHANGED <<phase, candidate, tried, closed, cancelled, checker, installer, main,
                 prepared, other, playing, checks, presses>>

Install ==
  /\ Serving /\ ~Stopping /\ ~Busy /\ candidate
  /\ CanReserve /\ reserved' = TRUE
  /\ phase' = "downloading" /\ installer' = "working"
  /\ UNCHANGED <<candidate, tried, closed, cancelled, checker, releases, main, prepared,
                 other, playing, checks, presses>>

\* The download or the staging fails; installError.
StageFails ==
  /\ loop # "gone" /\ installer = "working"
  /\ installer' = "failed"
  /\ phase' = IF Stopping THEN phase ELSE "error"
  /\ UNCHANGED <<candidate, tried, closed, cancelled, checker, releases, main, prepared,
                 other, reserved, playing, checks, presses>>

Stages ==
  /\ loop # "gone" /\ installer = "working"
  /\ installer' = "staged" /\ prepared' = "staged"
  /\ UNCHANGED <<phase, candidate, tried, closed, cancelled, checker, releases, main,
                 other, reserved, playing, checks, presses>>

\* The last look under the mutex.  The context is the attempt's own: besides
\* Close and Quit its ten minutes end it.
Transfers(expired) ==
  /\ loop # "gone" /\ installer = "staged"
  /\ IF Stopping \/ expired
     THEN /\ prepared' = "aborted" /\ installer' = "failed"
          /\ UNCHANGED phase
     ELSE /\ phase' = "restarting" /\ installer' = "handing"
          /\ UNCHANGED prepared
  /\ UNCHANGED <<candidate, tried, closed, cancelled, checker, releases, main, other,
                 reserved, playing, checks, presses>>

\* options.Ready: the reservation now belongs to main.
Hands ==
  /\ loop # "gone" /\ installer = "handing"
  /\ installer' = "none" /\ updateReady' = TRUE
  /\ UNCHANGED <<phase, candidate, tried, closed, cancelled, checker, releases, loop,
                 pending, quit, shut, prepared, other, reserved, playing, checks, presses>>

InstallReleases ==
  /\ loop # "gone" /\ installer = "failed"
  /\ installer' = "none" /\ reserved' = FALSE
  /\ UNCHANGED <<phase, candidate, tried, closed, cancelled, checker, releases, main,
                 prepared, other, playing, checks, presses>>

-----------------------------------------------------------------------------
(* The main loop.                                                          *)

Quit ==
  /\ loop # "gone" /\ ~quit
  /\ quit' = TRUE
  /\ UNCHANGED <<manager, loop, pending, updateReady, shut, prepared, other, reserved, playing,
                 checks, presses>>

\* The select may prefer a prepared update to a Quit that came first.
TakeUpdate ==
  /\ loop = "running" /\ updateReady
  /\ updateReady' = FALSE /\ loop' = "leaving"
  /\ IF quit THEN prepared' = "aborted" /\ UNCHANGED <<pending, shut>>
             ELSE pending' = "update" /\ shut' = TRUE /\ UNCHANGED prepared
  /\ UNCHANGED <<manager, quit, other, reserved, playing, checks, presses>>

TakeRestart ==
  /\ loop = "running" /\ other = "sent"
  /\ pending' = "restart" /\ loop' = "leaving" /\ shut' = TRUE
  /\ UNCHANGED <<manager, updateReady, quit, prepared, other, reserved, playing, checks, presses>>

TakeQuit ==
  /\ loop = "running" /\ quit
  /\ loop' = "leaving" /\ shut' = TRUE
  /\ UNCHANGED <<manager, pending, updateReady, quit, prepared, other, reserved, playing,
                 checks, presses>>

\* The Admin listener fails.
ServeFails ==
  /\ loop = "running" /\ loop' = "leaving"
  /\ UNCHANGED <<manager, shut, pending, updateReady, quit, prepared, other, reserved, playing,
                 checks, presses>>

\* The deferred updater.Close: first the flag and the context ...
Close ==
  /\ loop = "leaving" /\ loop' = "closing"
  /\ closed' = TRUE /\ cancelled' = TRUE
  /\ UNCHANGED <<phase, candidate, tried, checker, releases, installer, pending, updateReady,
                 quit, shut, prepared, other, reserved, playing, checks, presses>>

AllEnded == checker = "none" /\ ~releases /\ installer = "none"
\* Two seconds are not enough for a download or a staging that is slow to hear
\* of it; they are for the few instructions after it.
TooSlow == checker # "none" \/ installer = "working"

\* ... then it waits for its goroutines, but not for ever; an update nobody
\* claimed is taken from the channel and given up.
Drain ==
  /\ loop = "closing" /\ (AllEnded \/ TooSlow)
  /\ loop' = "drained" /\ updateReady' = FALSE
  /\ prepared' = IF updateReady THEN "aborted" ELSE prepared
  /\ UNCHANGED <<manager, pending, quit, shut, other, reserved, playing, checks, presses>>

\* finishUpdateHandoff, when storage and the native side are closed.
Finish(succeeds) ==
  /\ loop = "drained" /\ loop' = "gone" /\ shut' = TRUE
  /\ prepared' = IF pending # "update" THEN prepared
                 ELSE IF succeeds THEN "launched" ELSE "aborted"
  /\ UNCHANGED <<manager, pending, updateReady, quit, other, reserved, playing, checks, presses>>

Manager ==
  \/ \E found, failed \in BOOLEAN : CheckEnds(found, failed)
  \/ CheckReleases \/ HearQuit
  \/ StageFails \/ Stages \/ (\E expired \in BOOLEAN : Transfers(expired))
  \/ Hands \/ InstallReleases
Main ==
  \/ Start \/ TakeUpdate \/ TakeRestart \/ TakeQuit \/ Close \/ Drain
  \/ \E succeeds \in BOOLEAN : Finish(succeeds)
Users == Press \/ ReserveRestart \/ Check \/ Install \/ Quit \/ ServeFails
Restart == AbandonRestart \/ SendRestart

ManagerNext == Manager \/ Main \/ Users \/ Restart
ManagerSpec == ManagerInit /\ [][ManagerNext]_managerVars

\* Goroutines run and have their time limits, and main takes what it is sent;
\* nobody has to press, to quit or to ask for a check.
ManagerFairness ==
  WF_managerVars(Manager) /\ WF_managerVars(Main) /\ WF_managerVars(Restart)
-----------------------------------------------------------------------------
(* Properties.                                                             *)

\* Who has to give the reservation back.
Owners ==
  {o \in {"check", "ended check", "installation", "main", "remote access"} :
     \/ o = "check" /\ checker = "startup"
     \/ o = "ended check" /\ releases
     \/ o = "installation" /\ installer # "none"
     \/ o = "main" /\ updateReady
     \/ o = "remote access" /\ other # "none"}

\* While the application runs playback is reserved exactly when one goroutine,
\* and only one, has to give it back: it is neither forgotten nor released
\* under an installation that still counts on it.
SingleOwner ==
  loop \in {"starting", "running"} =>
    (reserved <=> Owners # {}) /\ \A o, p \in Owners : o = p

\* The same without the set, for the proof.
Owned == checker = "startup" \/ releases \/ installer # "none" \/ updateReady \/ other # "none"
Alone ==
  /\ checker = "startup" => ~releases /\ installer = "none" /\ ~updateReady /\ other = "none"
  /\ releases => installer = "none" /\ ~updateReady /\ other = "none"
  /\ installer # "none" => ~updateReady /\ other = "none"
  /\ updateReady => other = "none"

\* The inductive invariant behind SingleOwner and NothingPlays: a task under way
\* is the one the phase names, an owner is alone and its reservation is in
\* force, also while main leaves.
OwnerInv ==
  /\ ManagerTypeOK
  /\ checker # "none" => phase = "checking"
  /\ installer \in {"working", "staged"} => phase = "downloading"
  /\ loop = "starting" => phase = "idle" /\ ~Owned
  /\ Alone
  /\ Owned => reserved
  /\ reserved /\ loop \in {"starting", "running"} => Owned
  /\ reserved => ~playing
  /\ loop \in {"starting", "running"} => pending = "none"
  /\ pending # "none" => shut /\ ~playing
  /\ prepared = "launched" => pending = "update"

\* From the moment files are staged until the new version is launched nothing
\* plays, and only one thing is handed over to the process that comes next.
NothingPlays ==
  installer # "none" \/ updateReady \/ pending # "none" \/ prepared = "launched" =>
    ~playing

\* Both: the reservation has one owner, and it keeps the host silent while it matters.
ReservationIsOwned == SingleOwner /\ NothingPlays

\* When the process is over the update it prepared was launched or given up,
\* whatever of Quit, the deadline and the end of staging came first; what a
\* staging too slow to be waited for leaves is removed at the next start.
UpdateIsSettled ==
  loop = "gone" =>
    /\ ~updateReady
    /\ prepared = "staged" => installer = "staged"
    /\ prepared = "launched" => pending = "update"

\* Playback is not reserved for ever: every reservation is given back or the
\* application ends.
HostIsFreed == reserved ~> (~reserved \/ loop = "gone")

\* manager_test.go:242 of a preparation that failed: "failed staging is not
\* retryable" is the error.  While the application runs, a phase that refuses
\* every further attempt means that an attempt is under way.
FailureIsRetryable ==
  loop = "running" /\ ~quit /\ ~Stopping /\ Busy =>
    checker # "none" \/ installer # "none" \/ updateReady
=============================================================================
