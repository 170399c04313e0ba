---------------------------- MODULE Coordinator ----------------------------
(***************************************************************************)
(* internal/app.Service as a concurrent object.  Controllers, the Admin    *)
(* API, the updater, three preparation workers and the native event loop   *)
(* take Service.mu in turn; an action is one critical section.  Operations *)
(* that release mu in the middle (output selection, stage switching, show  *)
(* edits, playlist loading) are several actions, and what they remember in *)
(* between is in edit (guarded by editMu) and stageCalls.                  *)
(*                                                                         *)
(* A controller's request is built from a snapshot it saw earlier, so an   *)
(* action may be asked for under any older stop epoch, generation or       *)
(* transport revision: that is delay, reordering and late delivery.        *)
(***************************************************************************)
EXTENDS ServiceState

CONSTANTS
  InitialShow,     \* cues of the saved show at start-up
  InitialKind,     \* [Cues -> kind the saved validation cache remembers]
  InitialButtons,  \* saved background buttons
  InitialDefault,  \* saved default background
  MaxInputs        \* bound: external inputs in one behaviour

ASSUME ShowAssumption ==
  /\ InitialShow \subseteq Cues
  /\ InitialKind \in [Cues -> Kinds \cup {"unknown"}]
  /\ InitialButtons \subseteq InitialShow
  /\ InitialDefault \in InitialShow \cup {NoCue}
  /\ MaxInputs \in Nat

VARIABLES
  svc,            \* Service, ServiceState.tla
  config,         \* s.config
  loader,         \* the job loadLoop is preparing
  imageWorker,    \* the job visualLoop is preparing for an image
  backgroundWorker, \* the same for a background
  edit,           \* the operation that holds editMu, between its critical sections
  stageCalls      \* Stage(true) calls enumerating devices without the lock

vars == <<svc, config, loader, imageWorker, backgroundWorker, edit, stageCalls>>
workers == <<loader, imageWorker, backgroundWorker>>

\* op, the step reached, and the values computed before the save
Edit == [op : {"none", "playlist", "outputs", "stage", "load"},
         saving : BOOLEAN, cues : SUBSET Cues, buttons : SUBSET Cues,
         default : CueRef, reselect : BOOLEAN, rescale : BOOLEAN]
NoEdit == [op |-> "none", saving |-> FALSE, cues |-> {}, buttons |-> {},
           default |-> NoCue, reselect |-> FALSE, rescale |-> FALSE]

TypeOK ==
  /\ svc \in Service
  /\ config \in Config
  /\ loader \in Job /\ imageWorker \in Job /\ backgroundWorker \in Job
  /\ edit \in Edit
  /\ stageCalls \subseteq [serial : Nat, at : Nat]

InitialService ==
  [state |-> "stopped", generation |-> 1, stopEpoch |-> 1, transportRevision |-> 0,
   activeCue |-> NoCue, paused |-> FALSE, seekPending |-> FALSE,
   imageCue |-> NoCue, backgroundCue |-> NoCue, backgroundOverride |-> NoCue,
   stageEnabled |-> FALSE, outputFault |-> FALSE, updatePending |-> FALSE,
   foreground |-> NoSource, image |-> NoCue, background |-> NoCue,
   pendingImage |-> NoCue, visualSequence |-> 0, backgroundSequence |-> 0,
   stageDesired |-> FALSE, stageSerial |-> 0, stageEnablePending |-> FALSE,
   sceneRevision |-> 0,
   scene |-> [revision |-> 0, generation |-> 0, foregroundID |-> 0, paused |-> FALSE,
              transportRevision |-> 0, seekRevision |-> 0, image |-> NoCue,
              background |-> NoCue, stage |-> FALSE, hard |-> FALSE],
   loads |-> NoJob, visualLoads |-> NoJob, backgroundLoads |-> NoJob,
   removing |-> {}, configBusy |-> FALSE, closed |-> FALSE,
   now |-> 0, offAt |-> 0, armedAt |-> 0, notified |-> FALSE, wedged |-> FALSE]

\* New: cached results never prove readiness, and the saved background is
\* prepared at once.
Init ==
  /\ config = [cues |-> InitialShow, kind |-> InitialKind, bad |-> {},
               buttons |-> InitialButtons, defaultBackground |-> InitialDefault,
               used |-> InitialShow]
  /\ svc = SelectBackground(InitialService, InitialShow, InitialDefault)
  /\ loader = NoJob /\ imageWorker = NoJob /\ backgroundWorker = NoJob
  /\ edit = NoEdit
  /\ stageCalls = {}

-----------------------------------------------------------------------------
(* Controller commands. *)

InputLeft == svc.now < MaxInputs

\* what every PLAY checks before anything else, for a request sent under epoch
Admitted(epoch) ==
  /\ InputLeft
  /\ ~svc.closed
  /\ ~svc.updatePending
  /\ epoch = svc.stopEpoch

\* slip: cues being removed are not locked while the edit is saved
UnblockedWhileRemoving(cue) == ~svc.configBusy /\ ~svc.outputFault

\* ... and before it touches a cue
Unblocked(cue) ==
  ~svc.configBusy /\ cue \notin svc.removing /\ ~svc.outputFault

\* snapshots a controller may have built its request from
Epochs == 1 .. svc.stopEpoch

CommandOnly == UNCHANGED <<config, workers, edit, stageCalls>>

SetMasterVolume ==
  \E epoch \in Epochs :
    /\ Admitted(epoch)
    /\ svc' = Changed(ApplyScene(Input(svc), FALSE))
    /\ CommandOnly

\* the transport identity every explicit transport action repeats
Current(cue, generation, revision) ==
  /\ cue # NoCue /\ cue = svc.activeCue
  /\ generation = svc.generation
  /\ revision = svc.transportRevision

PauseOrResume ==
  \E epoch \in Epochs, cue \in Cues, paused \in BOOLEAN,
     generation \in 1 .. svc.generation, revision \in 0 .. svc.transportRevision :
    /\ Admitted(epoch) /\ Unblocked(cue)
    /\ Current(cue, generation, revision)
    /\ CanPause(svc) /\ svc.paused # paused
    /\ svc' = SetPaused(Input(svc), paused)
    /\ CommandOnly

Seek ==
  \E epoch \in Epochs, cue \in Cues,
     generation \in 1 .. svc.generation, revision \in 0 .. svc.transportRevision :
    /\ Admitted(epoch) /\ Unblocked(cue)
    /\ Current(cue, generation, revision)
    /\ CanSeek(svc)
    /\ svc' = SetPosition(Input(svc))
    /\ CommandOnly

\* a PLAY request for a cue of the show
Pressed(epoch, cue) ==
  Admitted(epoch) /\ Unblocked(cue) /\ cue \in config.cues

\* repeating a shown or preparing image removes it
TogglesImage(cue) ==
  /\ cue \notin config.buttons
  /\ \/ cue = svc.pendingImage
     \/ /\ cue = svc.imageCue
        /\ svc.stageDesired

\* repeating the active foreground cue pauses or resumes it
TogglesForeground(cue) ==
  cue \notin config.buttons /\ ~TogglesImage(cue) /\ cue = svc.activeCue

\* repeating a selected background button clears the override
TogglesBackground(cue) ==
  cue \in config.buttons /\ cue = svc.backgroundOverride

Selects(cue) ==
  /\ ~TogglesImage(cue) /\ ~TogglesForeground(cue) /\ ~TogglesBackground(cue)
  /\ cue \notin config.bad

\* Play dispatches on the cached kind, or on the extension if there is none
KnownImage(cue) ==
  \/ config.kind[cue] = "image"
  \/ /\ config.kind[cue] = "unknown"
     /\ cue \in ImagePaths

PressImageAgain ==
  \E epoch \in Epochs, cue \in Cues :
    /\ Pressed(epoch, cue) /\ TogglesImage(cue)
    /\ svc' = StopImage(Input(svc))
    /\ CommandOnly

PressForegroundAgain ==
  \E epoch \in Epochs, cue \in Cues :
    /\ Pressed(epoch, cue) /\ TogglesForeground(cue) /\ CanPause(svc)
    /\ svc' = SetPaused(Input(svc), ~svc.paused)
    /\ CommandOnly

PressBackgroundAgain ==
  \E epoch \in Epochs, cue \in Cues :
    /\ Pressed(epoch, cue) /\ TogglesBackground(cue)
    /\ svc' = Changed(ClearBackgroundOverride(Input(svc), config))
    /\ CommandOnly

PressBackground ==
  \E epoch \in Epochs, cue \in Cues :
    /\ Pressed(epoch, cue) /\ Selects(cue) /\ cue \in config.buttons
    /\ svc' = Changed(SelectBackground([Input(svc) EXCEPT !.backgroundOverride = cue],
                                       config.cues, cue))
    /\ CommandOnly

PressImage ==
  \E epoch \in Epochs, cue \in Cues :
    /\ Pressed(epoch, cue) /\ Selects(cue) /\ cue \notin config.buttons /\ KnownImage(cue)
    /\ svc' = Changed(SelectImage(Input(svc), cue))
    /\ CommandOnly

PressForeground ==
  \E epoch \in Epochs, cue \in Cues :
    /\ Pressed(epoch, cue) /\ Selects(cue) /\ cue \notin config.buttons /\ ~KnownImage(cue)
    /\ svc' = SelectForeground(Input(svc), cue)
    /\ CommandOnly

\* Once the application is closing the renderer may already refuse the scene.
Halted(s) == {s} \cup IF s.closed THEN {[s EXCEPT !.state = "error"]} ELSE {}

\* STOP has no precondition at all: no epoch, no lock but mu, not even open
Stop ==
  /\ InputLeft
  /\ svc' \in Halted(StopForeground(Input(svc), TRUE, FALSE))
  /\ CommandOnly

EmergencyStop ==
  /\ InputLeft
  /\ svc' \in Halted(StopForeground([Disarm(Input(svc)) EXCEPT !.stageEnabled = FALSE],
                                   TRUE, TRUE))
  /\ CommandOnly

\* Quit: the workers' context is cancelled with the closed flag
Close ==
  /\ InputLeft /\ ~svc.closed
  /\ svc' = [StopForeground(Disarm(Input(svc)), TRUE, TRUE) EXCEPT !.closed = TRUE]
  /\ CommandOnly

-----------------------------------------------------------------------------
(* Preparation workers.  What inspecting a file finds is whatever the file *)
(* system and the decoder answer by then; an output it needs may be gone.  *)

\* "gone": the path cannot be resolved; "broken": the decoder refuses it
Findings == Kinds \cup {"gone", "broken"}

\* the derived cache follows every inspection that was still wanted
Remember(cue, found) ==
  IF cue \notin config.cues THEN config
  ELSE IF found = "gone" THEN [config EXCEPT !.bad = @ \cup {cue}]
  ELSE IF found = "broken"
  THEN [config EXCEPT !.bad = @ \cup {cue}, !.kind[cue] = "unknown"]
  ELSE [config EXCEPT !.bad = @ \ {cue}, !.kind[cue] = found]

TakeLoad ==
  /\ loader = NoJob /\ svc.loads # NoJob
  /\ loader' = svc.loads
  /\ svc' = [svc EXCEPT !.loads = NoJob]
  /\ UNCHANGED <<config, imageWorker, backgroundWorker, edit, stageCalls>>

\* a job nobody has superseded, stopped or cancelled
LoadIsCurrent(job) ==
  job.tag = svc.generation /\ svc.state = "loading" /\ ~svc.closed

FinishLoad ==
  \E found \in Findings, outputs \in BOOLEAN :
    /\ loader # NoJob /\ LoadIsCurrent(loader)
    /\ config' = Remember(loader.cue, found)
    /\ svc' = LET s == Enter(svc) IN
              CASE found \notin Kinds \/ ~outputs -> Fail(s)
                [] found = "image" /\ outputs -> CommitAsImage(s, loader)
                [] found \in {"audio", "video"} /\ outputs ->
                     CommitForeground(s, loader, found)
    /\ loader' = NoJob
    /\ UNCHANGED <<imageWorker, backgroundWorker, edit, stageCalls>>

DropLoad ==
  /\ loader # NoJob /\ ~LoadIsCurrent(loader)
  /\ loader' = NoJob
  /\ UNCHANGED <<svc, config, imageWorker, backgroundWorker, edit, stageCalls>>

TakeImage ==
  /\ imageWorker = NoJob /\ svc.visualLoads # NoJob
  /\ imageWorker' = svc.visualLoads
  /\ svc' = [svc EXCEPT !.visualLoads = NoJob]
  /\ UNCHANGED <<config, loader, backgroundWorker, edit, stageCalls>>

\* slip: the sequence the image was prepared for is not compared again
ImageIsAlwaysCurrent(job) == ~svc.closed

ImageIsCurrent(job) == job.tag = svc.visualSequence /\ ~svc.closed

\* a path that does not even resolve leaves the derived cache alone here
RememberVisual(cue, found) == IF found = "gone" THEN config ELSE Remember(cue, found)

\* only a still image is accepted; a failure leaves what was selected before
FinishImage ==
  \E found \in Findings, outputs \in BOOLEAN :
    /\ imageWorker # NoJob /\ ImageIsCurrent(imageWorker)
    /\ config' = RememberVisual(imageWorker.cue, found)
    /\ svc' = IF found = "image" /\ outputs THEN CommitVisual(Enter(svc), imageWorker)
              ELSE Changed(ApplyScene([Enter(svc) EXCEPT !.pendingImage = NoCue], FALSE))
    /\ imageWorker' = NoJob
    /\ UNCHANGED <<loader, backgroundWorker, edit, stageCalls>>

DropImage ==
  /\ imageWorker # NoJob /\ ~ImageIsCurrent(imageWorker)
  /\ imageWorker' = NoJob
  /\ UNCHANGED <<svc, config, loader, backgroundWorker, edit, stageCalls>>

TakeBackground ==
  /\ backgroundWorker = NoJob /\ svc.backgroundLoads # NoJob
  /\ backgroundWorker' = svc.backgroundLoads
  /\ svc' = [svc EXCEPT !.backgroundLoads = NoJob]
  /\ UNCHANGED <<config, loader, imageWorker, edit, stageCalls>>

BackgroundIsCurrent(job) == job.tag = svc.backgroundSequence /\ ~svc.closed

FinishBackground ==
  \E found \in Findings, outputs \in BOOLEAN :
    /\ backgroundWorker # NoJob /\ BackgroundIsCurrent(backgroundWorker)
    /\ config' = RememberVisual(backgroundWorker.cue, found)
    /\ svc' = Changed(ApplyScene(
                [Enter(svc) EXCEPT !.background =
                   IF found = "image" \/ (found = "video" /\ outputs)
                   THEN backgroundWorker.cue ELSE NoCue],
                FALSE))
    /\ backgroundWorker' = NoJob
    /\ UNCHANGED <<loader, imageWorker, edit, stageCalls>>

DropBackground ==
  /\ backgroundWorker # NoJob /\ ~BackgroundIsCurrent(backgroundWorker)
  /\ backgroundWorker' = NoJob
  /\ UNCHANGED <<svc, config, loader, imageWorker, edit, stageCalls>>

-----------------------------------------------------------------------------
(* Native events.  The renderer reports on scenes it was given: on the      *)
(* current one, or late on an earlier one.  0 stands for a foreground or a  *)
(* transport revision that is no longer current.  What a source reports     *)
(* under its newest transport revision agrees with the pause intent that    *)
(* revision carried.                                                        *)

Reports(kinds, ids, revisions) ==
  {e \in [kind : kinds, generation : ids, transportRevision : revisions,
          sceneRevision : {svc.sceneRevision, svc.sceneRevision - 1} \ {0},
          stageEnabled : BOOLEAN] :
     \* a scene that keeps the stage hidden is applied by hiding it
     e.sceneRevision = svc.sceneRevision /\ e.stageEnabled => svc.scene.stage}

SourceReports ==
  Reports({IF svc.foreground.paused THEN "paused" ELSE "playing", "progress", "ended"},
          {0, svc.foreground.id}, {0, svc.foreground.transportRevision})

SceneReports ==
  Reports({"stage", "background-error"}
            \cup IF svc.scene.foregroundID = 0 THEN {"stopped"} ELSE {},
          {0, svc.scene.generation}, {svc.scene.transportRevision})

Failures ==
  Reports({"error"}, {0, svc.foreground.id}, {0, svc.foreground.transportRevision})
    \cup Reports({"error", "device-lost"}, {0, svc.scene.generation},
                 {svc.scene.transportRevision})

NativeReport ==
  /\ svc.sceneRevision # 0
  /\ svc' \in {NativeEvent(Enter(svc), e) : e \in SourceReports \cup SceneReports}
  /\ CommandOnly

NativeFailure ==
  /\ InputLeft /\ svc.sceneRevision # 0
  /\ svc' \in {NativeEvent(Input(svc), e) : e \in Failures}
  /\ CommandOnly

\* Escape pressed on the host: emitted outside any scene
NativeEscape ==
  /\ InputLeft /\ ~svc.closed
  /\ svc' = NativeEvent(Input(svc),
              [kind |-> "escape", generation |-> svc.scene.generation,
               transportRevision |-> 0, sceneRevision |-> 0, stageEnabled |-> FALSE])
  /\ CommandOnly

-----------------------------------------------------------------------------
(* The update reservation. *)

ReserveUpdate ==
  /\ InputLeft
  /\ edit = NoEdit
  /\ ~svc.closed /\ ~svc.updatePending
  /\ svc.state = "stopped" /\ ~svc.stageEnabled /\ ~svc.stageDesired
  /\ ~svc.stageEnablePending /\ svc.pendingImage = NoCue
  /\ svc' = Changed([Invalidate(Input(svc)) EXCEPT !.stopEpoch = @ + 1,
                                                   !.updatePending = TRUE])
  /\ CommandOnly

\* the returned cancellation, called once
ReleaseUpdate ==
  /\ svc.updatePending
  /\ svc' = Changed([Enter(svc) EXCEPT !.updatePending = FALSE])
  /\ CommandOnly

-----------------------------------------------------------------------------
(* Stage on/off.  On enumerates the devices without the lock, so the call  *)
(* carries the serial it took to its second critical section.  Every new   *)
(* output selection advances the serial with it, so the comparison of the  *)
(* selected outputs adds nothing to that of the serial.                    *)

StageOff ==
  /\ InputLeft /\ ~svc.closed
  /\ svc' = Changed(ApplyScene([Disarm(Input(svc)) EXCEPT !.stageEnablePending = FALSE],
                               FALSE))
  /\ CommandOnly

StageOnBegin ==
  /\ InputLeft /\ ~svc.closed
  /\ svc' = [Input(svc) EXCEPT !.stageSerial = @ + 1]
  /\ stageCalls' = stageCalls \cup {[serial |-> svc.stageSerial + 1, at |-> svc.now + 1]}
  /\ UNCHANGED <<config, workers, edit>>

\* slip: the reservation is only checked before the devices are enumerated
StageOnEndUnreserved ==
  \E call \in stageCalls :
    /\ stageCalls' = stageCalls \ {call}
    /\ ~svc.closed
    /\ call.serial = svc.stageSerial /\ ~svc.configBusy /\ ~svc.outputFault
    /\ svc' = Changed([ApplyScene([Enter(svc) EXCEPT !.stageDesired = TRUE,
                                                     !.armedAt = call.at], FALSE)
                       EXCEPT !.stageEnablePending = TRUE])
    /\ UNCHANGED <<config, workers, edit>>

StageOnEnd ==
  \E call \in stageCalls :
    /\ stageCalls' = stageCalls \ {call}
    /\ ~svc.closed /\ ~svc.updatePending
    /\ call.serial = svc.stageSerial /\ ~svc.configBusy /\ ~svc.outputFault
    /\ svc' = Changed([ApplyScene([Enter(svc) EXCEPT !.stageDesired = TRUE,
                                                     !.armedAt = call.at], FALSE)
                       EXCEPT !.stageEnablePending = TRUE])
    /\ UNCHANGED <<config, workers, edit>>

\* no display, or something else changed the stage meanwhile
StageOnRefused ==
  \E call \in stageCalls :
    /\ stageCalls' = stageCalls \ {call}
    /\ UNCHANGED <<svc, config, workers, edit>>

-----------------------------------------------------------------------------
(* Saved-show operations.  editMu serialises them; mu is free during the   *)
(* file-system checks and the save.  The revision an Admin page sends is   *)
(* compared with one that only these operations advance, so a conflict is  *)
(* refused before anything changes.                                        *)

Begin(op) ==
  /\ InputLeft /\ edit = NoEdit
  /\ ~svc.closed /\ ~svc.updatePending
  /\ edit' = [NoEdit EXCEPT !.op = op]
  /\ svc' = Input(svc)
  /\ UNCHANGED <<config, workers, stageCalls>>

\* Any check between two critical sections may refuse the whole operation:
\* an old revision, a path, a label, a kind that makes no background button.
Refuse ==
  /\ edit.op # "none" /\ ~edit.saving
  /\ edit' = NoEdit
  /\ UNCHANGED <<svc, config, workers, stageCalls>>

SaveFailed ==
  /\ edit.saving
  /\ svc' = [Enter(svc) EXCEPT !.removing = IF edit.op = "playlist" THEN {} ELSE @,
                               !.configBusy = @ /\ edit.op \notin {"outputs", "load"}]
  /\ edit' = NoEdit
  /\ UNCHANGED <<config, workers, stageCalls>>

\* EditPlaylist, AppendHostFiles and EditCueVolume share one transaction:
\* keep some cues, give some of them a new source, add new ones.
BeginPlaylist == Begin("playlist")

Removed(cues, replaced) == (config.cues \ cues) \cup replaced

PreparePlaylist ==
  \E kept \in SUBSET config.cues, added \in SUBSET (Cues \ config.used) :
    \E replaced \in SUBSET kept, buttons \in SUBSET (kept \cup added), rescale \in BOOLEAN :
      /\ edit.op = "playlist" /\ ~edit.saving
      /\ {svc.activeCue, svc.imageCue, svc.pendingImage} \cap Removed(kept, replaced) = {}
      /\ edit' = [edit EXCEPT
           !.saving = TRUE, !.cues = kept \cup added, !.buttons = buttons,
           !.default = IF config.defaultBackground \in Removed(kept, replaced) THEN NoCue
                       ELSE config.defaultBackground,
           !.rescale = rescale]
      /\ svc' = [Enter(svc) EXCEPT !.removing = Removed(kept, replaced)]
      /\ UNCHANGED <<config, workers, stageCalls>>

\* a cue the edit keeps with its source keeps its newest validation
EditedConfig ==
  LET fresh == edit.cues \cap (svc.removing \cup (Cues \ config.cues)) IN
  [config EXCEPT
     !.cues = edit.cues, !.buttons = edit.buttons, !.defaultBackground = edit.default,
     !.used = @ \cup edit.cues, !.bad = @ \ fresh,
     !.kind = [cue \in Cues |-> IF cue \in fresh THEN "unknown" ELSE @[cue]]]

\* The session override survives only as an unchanged background button, and
\* the effective background only while its cue keeps its source.
LosesBackground ==
  \/ config.defaultBackground # edit.default
  \/ svc.backgroundOverride \notin (edit.buttons \ svc.removing) \cup {NoCue}
  \/ svc.backgroundCue \in svc.removing

CommitPlaylist ==
  /\ edit.op = "playlist" /\ edit.saving
  /\ config' = EditedConfig
  /\ svc' = LET idle == [Enter(svc) EXCEPT !.removing = {}]
                settled == IF LosesBackground
                           THEN ClearBackgroundOverride(idle, EditedConfig) ELSE idle
                rescaled == IF edit.rescale /\ ~svc.closed /\ settled.sceneRevision # 0
                            THEN ApplyScene(settled, FALSE) ELSE settled
            IN  Changed(rescaled)
  /\ edit' = NoEdit
  /\ UNCHANGED <<workers, stageCalls>>

\* ConfigureOutputs: devices were checked before editMu
ConfigureOutputs ==
  /\ InputLeft /\ edit = NoEdit
  /\ ~svc.closed /\ ~svc.updatePending
  /\ svc.state \in {"stopped", "error"}
  /\ edit' = [NoEdit EXCEPT !.op = "outputs", !.saving = TRUE]
  /\ svc' = [Input(svc) EXCEPT !.configBusy = TRUE]
  /\ UNCHANGED <<config, workers, stageCalls>>

CommitOutputs ==
  /\ edit.op = "outputs" /\ edit.saving
  /\ LET idle == [Disarm(Enter(svc)) EXCEPT
                    !.configBusy = FALSE, !.outputFault = FALSE, !.stageEnabled = FALSE]
     IN  \E halted \in Halted(StopForeground(idle, TRUE, TRUE)) :
           svc' = SelectBackground(halted, config.cues, svc.backgroundCue)
  /\ edit' = NoEdit
  /\ UNCHANGED <<config, workers, stageCalls>>

\* ConfigureStage: a new default background, fades, background sound
BeginStage == Begin("stage")

PrepareStage ==
  \E default \in config.cues \cup {NoCue}, reselect \in BOOLEAN :
    /\ edit.op = "stage" /\ ~edit.saving
    /\ edit' = [edit EXCEPT !.saving = TRUE, !.default = default, !.reselect = reselect]
    /\ UNCHANGED <<svc, config, workers, stageCalls>>

CommitStage ==
  /\ edit.op = "stage" /\ edit.saving
  /\ config' = [config EXCEPT !.defaultBackground = edit.default]
  /\ svc' = LET s == Enter(svc)
                chosen == IF config.defaultBackground # edit.default
                          THEN ClearBackgroundOverride(s, config')
                          ELSE IF edit.reselect
                          THEN SelectBackground(s, config.cues, svc.backgroundCue) ELSE s
            IN  IF svc.closed THEN s ELSE Changed(ApplyScene(chosen, FALSE))
  /\ edit' = NoEdit
  /\ UNCHANGED <<workers, stageCalls>>

\* LoadPlaylist replaces every cue by one with a new identity
CanLoadPlaylist ==
  /\ ~svc.closed /\ ~svc.updatePending
  /\ svc.state \in {"stopped", "error"} /\ svc.foreground.id = 0
  /\ ~svc.stageEnabled /\ ~svc.stageDesired /\ ~svc.stageEnablePending
  /\ svc.pendingImage = NoCue

BeginLoad == CanLoadPlaylist /\ Begin("load")

PrepareLoad ==
  \E cues \in SUBSET (Cues \ config.used) :
    \E buttons \in SUBSET cues, default \in cues \cup {NoCue} :
      /\ edit.op = "load" /\ ~edit.saving
      /\ CanLoadPlaylist
      /\ edit' = [edit EXCEPT !.saving = TRUE, !.cues = cues, !.buttons = buttons,
                              !.default = default]
      /\ svc' = [Enter(svc) EXCEPT !.configBusy = TRUE]
      /\ UNCHANGED <<config, workers, stageCalls>>

CommitLoad ==
  /\ edit.op = "load" /\ edit.saving
  /\ config' = [cues |-> edit.cues, kind |-> [cue \in Cues |-> "unknown"], bad |-> {},
                buttons |-> edit.buttons, defaultBackground |-> edit.default,
                used |-> config.used \cup edit.cues]
  /\ svc' = LET emptied ==
                  [ClearImage(ClearActive(Invalidate(Enter(svc)))) EXCEPT
                     !.configBusy = FALSE, !.stopEpoch = @ + 1, !.foreground = NoSource,
                     !.background = NoCue, !.backgroundOverride = NoCue,
                     !.state = "stopped", !.stageSerial = @ + 1]
            IN  IF svc.closed THEN emptied
                ELSE Changed(SelectBackground(emptied, edit.cues, edit.default))
  /\ edit' = NoEdit
  /\ UNCHANGED <<workers, stageCalls>>

-----------------------------------------------------------------------------
Commands ==
  \/ SetMasterVolume \/ PauseOrResume \/ Seek
  \/ PressImageAgain \/ PressForegroundAgain \/ PressBackgroundAgain
  \/ PressBackground \/ PressImage \/ PressForeground
  \/ Stop \/ EmergencyStop \/ Close

Preparation ==
  \/ TakeLoad \/ FinishLoad \/ DropLoad
  \/ TakeImage \/ FinishImage \/ DropImage
  \/ TakeBackground \/ FinishBackground \/ DropBackground

Native == NativeReport \/ NativeFailure \/ NativeEscape

Update == ReserveUpdate \/ ReleaseUpdate

Stage == StageOff \/ StageOnBegin \/ StageOnEnd \/ StageOnRefused

Show ==
  \/ Refuse \/ SaveFailed
  \/ BeginPlaylist \/ PreparePlaylist \/ CommitPlaylist
  \/ ConfigureOutputs \/ CommitOutputs
  \/ BeginStage \/ PrepareStage \/ CommitStage
  \/ BeginLoad \/ PrepareLoad \/ CommitLoad

Next == Commands \/ Preparation \/ Native \/ Update \/ Stage \/ Show

Spec == Init /\ [][Next]_vars

-----------------------------------------------------------------------------
(* Properties. *)

\* jobs that were created for what is selected now; stated apart from the
\* guards of the actions, which have to recognise them
LiveLoads ==
  {job \in {svc.loads, loader} \ {NoJob} :
     job.tag = svc.generation /\ svc.state = "loading" /\ ~svc.closed}
LiveImages ==
  {job \in {svc.visualLoads, imageWorker} \ {NoJob} :
     job.tag = svc.visualSequence /\ ~svc.closed}
LiveBackgrounds ==
  {job \in {svc.backgroundLoads, backgroundWorker} \ {NoJob} :
     job.tag = svc.backgroundSequence /\ ~svc.closed}

\* nothing plays, is shown or is being prepared as an active cue
Quiet ==
  /\ svc.foreground.id = 0 /\ svc.image = NoCue /\ svc.pendingImage = NoCue
  /\ LiveLoads = {} /\ LiveImages = {}
  /\ svc.state \in {"stopped", "stopping", "error"}

\* Every phase agrees with the source and the work behind it.  "loading" is
\* entered before a worker runs and left by it, by native events and by STOP,
\* in any order: whenever the service claims to load there is a job left to
\* load it or a source already handed over, and the other way round.
WorkMatchesState ==
  /\ svc.state \in {"stopped", "stopping", "error"} => svc.foreground.id = 0
  /\ svc.state \in {"playing", "paused"} =>
       svc.foreground.id # 0 /\ svc.activeCue = svc.foreground.cue
  /\ svc.state = "loading" /\ svc.foreground.id # svc.generation /\ ~svc.closed =>
       LiveLoads # {}
  /\ \A job \in LiveLoads : job.cue = svc.activeCue /\ svc.foreground.id # svc.generation
  /\ svc.pendingImage # NoCue <=> LiveImages # {}
  /\ \A job \in LiveImages : job.cue = svc.pendingImage
  /\ \A job \in LiveBackgrounds : job.cue = svc.backgroundCue

\* A latest-only mailbox is always empty when a job is sent to it, so no
\* critical section can block on a channel while it holds the lock STOP needs.
NeverWedged == ~svc.wedged

\* While the service shows playing or paused, the intent controllers see is
\* the intent given to the native source, under the revision whose
\* acknowledgement the service waits for: also after an image handed the
\* selection back to music that was never interrupted.
AcksAwaited ==
  svc.state \in {"playing", "paused"} =>
    /\ svc.foreground.paused = svc.paused
    /\ svc.foreground.seekPending = svc.seekPending
    /\ svc.foreground.transportRevision = svc.transportRevision

\* When no preparation is pending the renderer was last asked for exactly what
\* the service believes to be on stage.
SceneInSync ==
  /\ svc.sceneRevision # 0 /\ ~svc.closed
  /\ LiveLoads = {} /\ LiveImages = {} /\ LiveBackgrounds = {}
  => /\ svc.scene.revision = svc.sceneRevision
     /\ svc.scene.foregroundID = svc.foreground.id
     /\ svc.scene.image = svc.image /\ svc.scene.background = svc.background
     /\ svc.scene.stage = svc.stageDesired
     /\ svc.foreground.id # 0 =>
          /\ svc.scene.paused = svc.foreground.paused
          /\ svc.scene.transportRevision = svc.foreground.transportRevision

\* Every selection names a cue of the saved show, across edits and loads that
\* run while files are inspected and saved.
SelectionsExist ==
  ~svc.closed =>
  /\ {svc.imageCue, svc.pendingImage, svc.backgroundCue, svc.backgroundOverride,
      config.defaultBackground} \subseteq config.cues \cup {NoCue}
  /\ svc.state = "loading" => svc.activeCue \in config.cues
  /\ \A job \in LiveLoads \cup LiveImages \cup LiveBackgrounds : job.cue \in config.cues

\* An update reservation holds the whole host idle until it is released, in
\* spite of requests, preparations and stage calls that were already under way.
ReservedIdle ==
  svc.updatePending =>
    /\ svc.foreground.id = 0 /\ svc.activeCue = NoCue /\ svc.pendingImage = NoCue
    /\ ~svc.stageDesired /\ ~svc.stageEnabled
    /\ LiveLoads = {} /\ LiveImages = {}
    /\ edit = NoEdit

\* The strengthening of ReservedIdle that every step preserves.  What it adds:
\* no source has the identity 0, a resting phase has no source and no active
\* cue, an image job under way is the current one only while an image is
\* pending, and the scene the renderer holds shows the stage only if it is
\* wanted, so that no report can raise it again.
Resting(s) == s.state \in {"stopped", "stopping", "error"}

ImagesCounted(s, worker) ==
  /\ worker.tag <= s.visualSequence
  /\ worker # NoJob /\ worker.tag = s.visualSequence => s.pendingImage # NoCue
  /\ s.visualLoads # NoJob =>
       /\ s.visualLoads.tag = s.visualSequence /\ worker.tag < s.visualSequence
       /\ s.pendingImage # NoCue

Settled(s, worker, operation) ==
  /\ s \in Service
  /\ s.generation # 0
  /\ s.foreground.id = 0 => s.foreground.cue = NoCue
  /\ Resting(s) => s.foreground.id = 0 /\ s.activeCue = NoCue
  /\ s.updatePending =>
       /\ Resting(s) /\ s.pendingImage = NoCue /\ ~s.stageDesired /\ ~s.stageEnabled
       /\ operation = NoEdit
  /\ ImagesCounted(s, worker)

ReservationInv ==
  /\ TypeOK
  /\ Settled(svc, imageWorker, edit)
  /\ svc.scene.stage = svc.stageDesired

\* The strengthening of the other invariants, one part per concern.  Foreground:
\* a mailbox holds the newest load and its worker an older one, "loading" has a
\* load or its source, a source that plays is the selected one, and what
\* controllers see is what it was asked under the newest transport revision.
LoadsAgree(s, worker) ==
  /\ worker.tag <= s.generation /\ s.foreground.id <= s.generation
  /\ s.loads # NoJob =>
       /\ s.loads.tag = s.generation /\ worker.tag < s.generation
       /\ s.state = "loading" /\ s.loads.cue = s.activeCue
       /\ s.foreground.id # s.generation
  /\ s.state = "loading" =>
       /\ worker.tag = s.generation =>
            worker.cue = s.activeCue /\ s.foreground.id # s.generation
       /\ s.foreground.id = s.generation => s.activeCue = s.foreground.cue
       /\ s.foreground.id # s.generation => s.loads # NoJob \/ worker.tag = s.generation
       /\ s.transportRevision # 0
  /\ s.state \in {"playing", "paused"} =>
       /\ s.foreground.id # 0 /\ s.activeCue = s.foreground.cue
       /\ s.foreground.paused = s.paused /\ s.foreground.seekPending = s.seekPending
       /\ s.foreground.transportRevision = s.transportRevision
  /\ s.closed => Resting(s)

\* Images: the pending one is exactly the one a current job is preparing.
ImagesAgree(s, worker) ==
  /\ s.visualLoads # NoJob => s.visualLoads.cue = s.pendingImage
  /\ worker # NoJob /\ worker.tag = s.visualSequence => worker.cue = s.pendingImage
  /\ s.pendingImage # NoCue =>
       /\ s.visualLoads # NoJob \/ (worker # NoJob /\ worker.tag = s.visualSequence)
       /\ ~s.closed

\* Backgrounds: a current job prepares the effective background.
BackgroundPending(s, worker) ==
  s.backgroundLoads # NoJob \/ (worker # NoJob /\ worker.tag = s.backgroundSequence)

BackgroundsAgree(s, worker) ==
  /\ worker.tag <= s.backgroundSequence
  /\ s.backgroundLoads # NoJob =>
       /\ s.backgroundLoads.tag = s.backgroundSequence
       /\ worker.tag < s.backgroundSequence
       /\ s.backgroundLoads.cue = s.backgroundCue
  /\ worker # NoJob /\ worker.tag = s.backgroundSequence => worker.cue = s.backgroundCue
  /\ BackgroundPending(s, worker) => s.backgroundCue # NoCue

\* Stage: whoever may still show it was asked to after it was last switched off,
\* or under a serial that was given up since.
Honours(s, request) ==
  /\ request.stageSerial <= s.stageSerial
  /\ request.stageSerial = s.stageSerial => request.at > s.offAt

OffHonoured(s, load, image, calls) ==
  /\ s.offAt <= s.now
  /\ s.stageDesired => s.armedAt > s.offAt
  /\ \A job \in {s.loads, load, s.visualLoads, image} \ {NoJob} : Honours(s, job)
  /\ \A call \in calls :
       Honours(s, [stageSerial |-> call.serial, at |-> call.at])

\* Show: what is selected exists, and an edit being saved removes nothing that
\* is active, shown or being prepared.
SelectionsAgree(s, show, operation) ==
  /\ show.defaultBackground \in show.cues \cup {NoCue}
  /\ ~s.closed =>
       /\ {s.imageCue, s.pendingImage, s.backgroundCue, s.backgroundOverride}
            \subseteq show.cues \cup {NoCue}
       /\ s.state = "loading" => s.activeCue \in show.cues
  /\ operation.saving /\ operation.op = "playlist" =>
       /\ show.cues \ operation.cues \subseteq s.removing
       /\ operation.buttons \subseteq operation.cues
       /\ operation.default \in operation.cues \cup {NoCue}
       /\ s.imageCue \notin s.removing /\ s.pendingImage \notin s.removing
       /\ s.state = "loading" => s.activeCue \notin s.removing
  /\ operation.saving /\ operation.op = "stage" =>
       operation.default \in show.cues \cup {NoCue}
  /\ operation.saving /\ operation.op = "load" =>
       operation.default \in operation.cues \cup {NoCue}

\* Scene: the renderer was asked for what is believed to be on stage
Shown(s) ==
  /\ s.scene.revision = s.sceneRevision
  /\ s.scene.foregroundID = s.foreground.id
  /\ s.scene.image = s.image /\ s.scene.background = s.background
  /\ s.foreground.id # 0 =>
       /\ s.scene.paused = s.foreground.paused
       /\ s.scene.transportRevision = s.foreground.transportRevision

\* ... or a preparation is pending that will end in a new scene.
SceneAgrees(s, background) ==
  s.sceneRevision # 0 /\ ~s.closed =>
    \/ s.state = "loading" /\ s.foreground.id # s.generation
    \/ s.pendingImage # NoCue
    \/ BackgroundPending(s, background)
    \/ Shown(s)

WorkAgrees(s, load, image, background, calls) ==
  /\ ~s.wedged
  /\ LoadsAgree(s, load)
  /\ ImagesAgree(s, image)
  /\ BackgroundsAgree(s, background)
  /\ OffHonoured(s, load, image, calls)
  /\ SceneAgrees(s, background)

PlaybackInv ==
  /\ ReservationInv
  /\ WorkAgrees(svc, loader, imageWorker, backgroundWorker, stageCalls)
  /\ SelectionsAgree(svc, config, edit)

\* The stage is wanted only because of a request accepted after it was last
\* switched off (Stage off, Escape, emergency stop, output loss, new outputs).
OffIsRespected == svc.stageDesired => svc.armedAt > svc.offAt

\* the cue that plays is a cue of the show: "Stop the active/loading cue before
\* removing or replacing its source" (edit.go:138)
ActiveCueExists ==
  svc.state \in {"playing", "paused"} => svc.activeCue \in config.cues

\* Whatever ends in stopping or error under a new epoch has stopped everything.
StopIsFinal ==
  [][svc'.stopEpoch # svc.stopEpoch /\ svc'.state \in {"stopping", "error"} => Quiet']_vars

\* From there only a new external input brings anything back: no late
\* preparation, native event, edit or stage call does.
StaysQuiet == [][Quiet /\ svc'.now = svc.now => Quiet']_vars

\* STOP, Close, failures and Escape are final, and stay so.
StopHolds == StopIsFinal /\ StaysQuiet

\* what controllers see of playback, and of the stage (State, as Snapshot copies it)
PlaybackView ==
  <<svc.state, svc.activeCue, svc.paused, svc.seekPending, svc.imageCue,
    svc.backgroundCue, svc.backgroundOverride, svc.outputFault, svc.stopEpoch,
    svc.generation, svc.transportRevision, svc.updatePending, config>>

View == <<PlaybackView, svc.stageEnabled>>

\* nativeEvent notes the stage flag of a report before it looks whether the report
\* is of any use, and returns without a word when it is not (service.go:673-732).
FlagOnly ==
  NativeReport /\ svc.state \in {"loading", "error"} /\ UNCHANGED PlaybackView

\* Every change controllers can see advances the state revision and wakes them,
\* but for a change of the stage flag alone that a report brings while a cue is
\* loading or after a failure.
ChangesAreNotified ==
  [][View' # View /\ ~svc.closed => svc'.notified \/ FlagOnly]_vars

\* Without that exception it does not hold.
EveryChangeIsNotified == [][View' # View /\ ~svc.closed => svc'.notified]_vars
=============================================================================
