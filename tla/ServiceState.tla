---------------------------- MODULE ServiceState ----------------------------
(***************************************************************************)
(* The mutex-protected state of internal/app.Service and the helpers the   *)
(* source names xxxLocked.  Each helper is a function from the state at    *)
(* entry to the state at exit: the caller already holds Service.mu, so     *)
(* nothing can happen in between, and Coordinator.tla composes them into   *)
(* one action per critical section.                                        *)
(*                                                                         *)
(* Cues, paths and devices are opaque: a cue stands for its identity and   *)
(* for the path its source resolves to.  Positions, durations, volumes,    *)
(* labels, colours and error texts are left out: no control depends on     *)
(* them beyond the choices the actions make explicitly.  A new source for  *)
(* a cue keeps the kind of file extension the old one had.                 *)
(*                                                                         *)
(* A definition commented "slip" is a plausible mistake in the operator    *)
(* that follows it.  No specification uses it: it shows that the property  *)
(* meant to catch the mistake does.                                        *)
(***************************************************************************)
EXTENDS Naturals, FiniteSets

CONSTANTS
  Cues,        \* cue identities the host may ever hand out
  NoCue,       \* the empty cue identity ""
  ImagePaths   \* cues whose path has a still-image extension (imageFile)

ASSUME CueAssumption == NoCue \notin Cues /\ ImagePaths \subseteq Cues

CueRef == Cues \cup {NoCue}

Kinds == {"audio", "video", "image"}

\* playback states shown to every controller (State.State)
Phases == {"stopped", "loading", "playing", "paused", "stopping", "error"}

\* A job in a latest-only mailbox or in its worker's hands.  tag is the load
\* generation or the visual/background sequence it was created for; at is the
\* history index of the request that created it.
Job == [tag : Nat, cue : CueRef, stageSerial : Nat, at : Nat]
NoJob == [tag |-> 0, cue |-> NoCue, stageSerial |-> 0, at |-> 0]

\* presentationSource, as far as the foreground uses it
Source == [id : Nat, cue : CueRef, kind : Kinds \cup {"none"}, paused : BOOLEAN,
           seekPending : BOOLEAN, transportRevision : Nat, seekRevision : Nat]
NoSource == [id |-> 0, cue |-> NoCue, kind |-> "none", paused |-> FALSE,
             seekPending |-> FALSE, transportRevision |-> 0, seekRevision |-> 0]

\* the desired scene handed to the native renderer
Scene == [revision : Nat, generation : Nat, foregroundID : Nat, paused : BOOLEAN,
          transportRevision : Nat, seekRevision : Nat, image : CueRef,
          background : CueRef, stage : BOOLEAN, hard : BOOLEAN]

Service ==
  [state : Phases, generation : Nat, stopEpoch : Nat, transportRevision : Nat,
   activeCue : CueRef, paused : BOOLEAN, seekPending : BOOLEAN,
   imageCue : CueRef, backgroundCue : CueRef, backgroundOverride : CueRef,
   stageEnabled : BOOLEAN, outputFault : BOOLEAN, updatePending : BOOLEAN,
   foreground : Source, image : CueRef, background : CueRef,
   pendingImage : CueRef, visualSequence : Nat, backgroundSequence : Nat,
   stageDesired : BOOLEAN, stageSerial : Nat, stageEnablePending : BOOLEAN,
   sceneRevision : Nat, scene : Scene,
   loads : Job, visualLoads : Job, backgroundLoads : Job,
   removing : SUBSET Cues, configBusy : BOOLEAN, closed : BOOLEAN,
   \* history: number of inputs so far, when the stage was last switched off,
   \* when the request that last switched it on was accepted
   now : Nat, offAt : Nat, armedAt : Nat,
   \* history: whether the last critical section ran changedLocked, and
   \* whether a mailbox send ever found its slot taken (it would block mu)
   notified : BOOLEAN, wedged : BOOLEAN]

\* the saved show, as far as playback depends on it
Config ==
  [cues : SUBSET Cues, kind : [Cues -> Kinds \cup {"unknown"}], bad : SUBSET Cues,
   buttons : SUBSET Cues, defaultBackground : CueRef, used : SUBSET Cues]

-----------------------------------------------------------------------------
(* Bookkeeping shared by every critical section. *)

\* Taking mu: nothing announced yet.
Enter(s) == [s EXCEPT !.notified = FALSE]

\* Taking mu on behalf of a new external input.
Input(s) == [s EXCEPT !.notified = FALSE, !.now = @ + 1]

\* changedLocked: Revision++ and one wake-up per subscriber.
Changed(s) == [s EXCEPT !.notified = TRUE]

\* slip: the mailbox is not drained before the next job is sent
InvalidateWithoutDrain(s) ==
  [s EXCEPT !.generation = @ + 1, !.transportRevision = @ + 1]

\* The cancelled context, the drained mailbox and the two counters.  A
\* cancelled job is recognised by its generation alone, because the source
\* cancels exactly where it advances the generation.
Invalidate(s) ==
  [s EXCEPT !.loads = NoJob, !.generation = @ + 1, !.transportRevision = @ + 1]

ClearActive(s) ==
  [s EXCEPT !.activeCue = NoCue, !.paused = FALSE, !.seekPending = FALSE]

\* slip: the image being prepared stays pending after its job is cancelled
ClearImageKeepingPending(s) ==
  [s EXCEPT !.visualSequence = @ + 1, !.visualLoads = NoJob, !.image = NoCue,
            !.imageCue = NoCue]

ClearImage(s) ==
  [s EXCEPT !.visualSequence = @ + 1, !.visualLoads = NoJob, !.image = NoCue,
            !.pendingImage = NoCue, !.imageCue = NoCue]

\* the complete scene the service wants, under the next revision
DesiredScene(s, hard) ==
  [revision |-> s.sceneRevision + 1, generation |-> s.generation,
   foregroundID |-> s.foreground.id, paused |-> s.foreground.paused,
   transportRevision |-> IF s.foreground.id = 0 THEN s.transportRevision
                         ELSE s.foreground.transportRevision,
   seekRevision |-> s.foreground.seekRevision,
   image |-> s.image, background |-> s.background,
   stage |-> s.stageDesired, hard |-> hard]

\* The production backend refuses a scene only after its own Close, which
\* runs after Service.Close.
ApplyScene(s, hard) ==
  [s EXCEPT !.sceneRevision = @ + 1,
            !.stageEnablePending = s.stageDesired /\ ~s.stageEnabled,
            !.scene = DesiredScene(s, hard)]

\* stageDesired = false together with stageSerial++, as Escape, emergency
\* stop, failure, output selection and Close all do.
Disarm(s) ==
  [s EXCEPT !.stageDesired = FALSE, !.stageSerial = @ + 1, !.offAt = s.now]

\* slip: a finished preparation shows the stage whatever happened meanwhile
ArmAlways(s, job) == [s EXCEPT !.stageDesired = TRUE, !.armedAt = job.at]

\* A finished preparation shows the stage unless it was switched since.
Arm(s, job) ==
  IF job.stageSerial = s.stageSerial
  THEN [s EXCEPT !.stageDesired = TRUE, !.armedAt = job.at] ELSE s

-----------------------------------------------------------------------------
(* Stopping. *)

StopForeground(s, clearImage, hard) ==
  LET halted == [ClearActive(Invalidate(s)) EXCEPT
                   !.stopEpoch = @ + 1, !.foreground = NoSource]
      cleared == IF clearImage THEN ClearImage(halted) ELSE halted
  IN  Changed(ApplyScene([cleared EXCEPT !.state = "stopping"], hard))

Fail(s) ==
  LET halted == [ClearActive(Invalidate(s)) EXCEPT
                   !.stopEpoch = @ + 1, !.foreground = NoSource]
      dark == [Disarm(ClearImage(halted)) EXCEPT
                 !.stageEnablePending = FALSE, !.stageEnabled = FALSE,
                 !.state = "error"]
  IN  Changed(ApplyScene(dark, TRUE))

\* slip: the scene without the image is never applied
StopImageUnapplied(s) ==
  LET cleared == ClearImage(s) IN
  IF s.foreground.kind = "video" THEN StopForeground(cleared, FALSE, FALSE)
  ELSE Changed([cleared EXCEPT !.stopEpoch = @ + 1])

\* Toggling an image off stops an underlying video too, never the music.
StopImage(s) ==
  LET cleared == ClearImage(s) IN
  IF s.foreground.kind = "video" THEN StopForeground(cleared, FALSE, FALSE)
  ELSE Changed(ApplyScene([cleared EXCEPT !.stopEpoch = @ + 1], FALSE))

-----------------------------------------------------------------------------
(* Transport. *)

CanPause(s) ==
  s.activeCue # NoCue /\ s.state \in {"loading", "playing", "paused"}

\* Only the source of the selected generation takes the new intent: while a
\* replacement is inspected its predecessor is still the native foreground.
SetPaused(s, paused) ==
  LET asked == [s EXCEPT !.paused = paused, !.transportRevision = @ + 1] IN
  IF s.paused = paused THEN s
  ELSE IF \/ s.foreground.id = s.generation
          \/ s.state # "loading" /\ s.foreground.cue = s.activeCue
  THEN Changed(ApplyScene(
         [asked EXCEPT !.foreground.paused = paused,
                       !.foreground.transportRevision = asked.transportRevision],
         FALSE))
  ELSE Changed(asked)

CanSeek(s) ==
  /\ s.foreground.id # 0
  /\ s.foreground.cue = s.activeCue
  /\ s.state \in {"playing", "paused"}

SetPosition(s) ==
  Changed(ApplyScene(
    [s EXCEPT !.transportRevision = @ + 1, !.seekPending = TRUE,
              !.foreground.transportRevision = s.transportRevision + 1,
              !.foreground.seekRevision = @ + 1,
              !.foreground.seekPending = TRUE], FALSE))

-----------------------------------------------------------------------------
(* Selecting sources. *)

\* A latest-only mailbox holds one job: sending to a full one blocks while
\* mu is held.
SendLoad(s, cue) ==
  [s EXCEPT !.loads = [tag |-> s.generation, cue |-> cue,
                       stageSerial |-> s.stageSerial, at |-> s.now],
            !.wedged = @ \/ s.loads # NoJob]

SelectForeground(s, cue) ==
  LET replaced == Invalidate(ClearImage(s)) IN
  Changed(SendLoad([replaced EXCEPT !.state = "loading", !.activeCue = cue,
                                    !.paused = FALSE, !.seekPending = FALSE], cue))

SelectImage(s, cue) ==
  LET cleared == ClearImage(s) IN
  [cleared EXCEPT
     !.pendingImage = cue,
     !.visualLoads = [tag |-> cleared.visualSequence, cue |-> cue,
                      stageSerial |-> s.stageSerial, at |-> s.now],
     !.wedged = @ \/ cleared.visualLoads # NoJob]

\* id is NoCue to clear.  The last branch is an identity that left the show.
SelectBackground(s, cues, id) ==
  LET drained == [s EXCEPT !.backgroundSequence = @ + 1, !.backgroundLoads = NoJob,
                           !.backgroundCue = id]
  IN  IF id = NoCue
      THEN LET black == [drained EXCEPT !.background = NoCue] IN
           IF s.sceneRevision # 0 THEN ApplyScene(black, FALSE) ELSE black
      ELSE IF id \in cues
      THEN [drained EXCEPT
              !.backgroundLoads = [tag |-> drained.backgroundSequence, cue |-> id,
                                   stageSerial |-> s.stageSerial, at |-> s.now],
              !.wedged = @ \/ drained.backgroundLoads # NoJob]
      ELSE [drained EXCEPT !.background = NoCue, !.backgroundCue = NoCue]

ClearBackgroundOverride(s, config) ==
  SelectBackground([s EXCEPT !.backgroundOverride = NoCue], config.cues,
                   config.defaultBackground)

-----------------------------------------------------------------------------
(* Committing a finished preparation. *)

\* slip: the interrupted source keeps the transport revision it had before
CommitAsImageUnacknowledged(s, job) ==
  LET phase == IF s.foreground.id = 0 THEN "stopped"
               ELSE IF s.foreground.paused THEN "paused" ELSE "playing"
      restored ==
        [s EXCEPT !.activeCue = s.foreground.cue, !.state = phase,
                  !.paused = s.foreground.paused,
                  !.seekPending = s.foreground.seekPending,
                  !.image = job.cue, !.imageCue = job.cue]
  IN  Changed(ApplyScene(Arm(restored, job), FALSE))

\* A cue of unknown kind that turns out to be an image hands the selection
\* back to the foreground that never stopped playing.
CommitAsImage(s, job) ==
  LET phase == IF s.foreground.id = 0 THEN "stopped"
               ELSE IF s.foreground.paused THEN "paused" ELSE "playing"
      restored ==
        [s EXCEPT !.activeCue = s.foreground.cue, !.state = phase,
                  !.paused = s.foreground.paused,
                  !.seekPending = s.foreground.seekPending,
                  !.foreground.transportRevision = s.transportRevision,
                  !.image = job.cue, !.imageCue = job.cue]
  IN  Changed(ApplyScene(Arm(restored, job), FALSE))

CommitForeground(s, job, kind) ==
  LET started ==
        [s EXCEPT !.foreground =
           [id |-> job.tag, cue |-> job.cue, kind |-> kind, paused |-> s.paused,
            seekPending |-> FALSE, transportRevision |-> s.transportRevision,
            seekRevision |-> 0]]
  IN  Changed(ApplyScene(IF kind = "video" THEN Arm(started, job) ELSE started, FALSE))

\* slip: the image is shown and nobody is told
CommitVisualSilently(s, job) ==
  ApplyScene(
    Arm([s EXCEPT !.image = job.cue, !.imageCue = job.cue, !.pendingImage = NoCue], job),
    FALSE)

CommitVisual(s, job) ==
  Changed(ApplyScene(
    Arm([s EXCEPT !.image = job.cue, !.imageCue = job.cue, !.pendingImage = NoCue], job),
    FALSE))

-----------------------------------------------------------------------------
(* Events from the native renderer. *)

Event == [kind : {"devices", "escape", "stage", "background-error", "device-lost",
                  "error", "playing", "paused", "progress", "ended", "stopped"},
          generation : Nat, transportRevision : Nat, sceneRevision : Nat,
          stageEnabled : BOOLEAN]

\* the identity a foreground event must carry
Expected(s) ==
  IF s.state \in {"playing", "paused"} /\ s.foreground.id # 0
  THEN s.foreground.id ELSE s.generation

\* generation and transport revision name the source the service now follows
Fresh(s, e) ==
  /\ e.generation = Expected(s)
  /\ e.kind \in {"playing", "paused", "progress", "ended", "error"} =>
       e.transportRevision = s.transportRevision

\* a failure of the committed scene rather than of its source
GlobalError(s, e) ==
  /\ e.kind = "error"
  /\ e.sceneRevision # 0 /\ e.sceneRevision = s.sceneRevision
  /\ e.generation = s.generation /\ s.foreground.id # s.generation

Lost(s, e) ==
  e.kind = "device-lost" /\ e.sceneRevision # 0 /\ e.sceneRevision = s.sceneRevision

NoteStage(s, e) ==
  IF e.sceneRevision \in {0, s.sceneRevision}
  THEN [s EXCEPT !.stageEnabled = e.stageEnabled,
                 !.stageEnablePending = @ /\ ~e.stageEnabled]
  ELSE s

\* the switch at the end of nativeEvent, for an event that passed Fresh
Follow(s, e) ==
  CASE e.kind \in {"playing", "paused"} ->
         IF s.state \in {"loading", "playing", "paused"} /\ (e.kind = "paused") = s.paused
         THEN Changed([s EXCEPT !.state = e.kind, !.seekPending = FALSE,
                                !.foreground.seekPending = FALSE])
         ELSE s
    [] e.kind = "progress" ->
         IF s.state \in {"playing", "paused"} THEN Changed(s) ELSE s
    [] e.kind = "ended" ->
         IF s.state \in {"loading", "playing", "paused"}
         THEN Changed(ApplyScene([ClearActive(s) EXCEPT !.foreground = NoSource,
                                                        !.state = "stopped"], FALSE))
         ELSE s
    [] e.kind = "stopped" ->
         IF s.state \in {"stopping", "stopped"}
         THEN Changed([s EXCEPT !.state = "stopped"]) ELSE s
    [] e.kind = "error" -> Fail(s)
    [] e.kind = "device-lost" -> Fail([s EXCEPT !.outputFault = TRUE])
    [] OTHER -> s

Escape(s) ==
  Changed([StopForeground(Disarm(s), TRUE, TRUE) EXCEPT !.stageEnabled = FALSE])

NativeEvent(s, e) ==
  CASE s.closed -> s
    [] ~s.closed /\ e.kind = "devices" -> Changed(s)
    [] ~s.closed /\ e.kind = "escape" -> Escape(s)
    [] ~s.closed /\ e.kind \in {"stage", "background-error"} ->
         IF e.sceneRevision = s.sceneRevision
         THEN Changed([s EXCEPT !.stageEnabled = e.stageEnabled,
                                !.stageEnablePending = FALSE])
         ELSE s
    [] ~s.closed /\ Lost(s, e) -> Fail([s EXCEPT !.outputFault = TRUE])
    [] ~s.closed /\ GlobalError(s, e) -> Fail(s)
    [] OTHER -> IF Fresh(s, e) THEN Follow(NoteStage(s, e), e) ELSE s
=============================================================================
