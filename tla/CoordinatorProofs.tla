------------------------- MODULE CoordinatorProofs -------------------------
(***************************************************************************)
(* Type correctness of Coordinator.tla and the promise of the update       *)
(* reservation, for every show, every number of inputs and every file.     *)
(*                                                                         *)
(* First the records of ServiceState.tla: they stay well formed, and every *)
(* helper keeps the two parts of the inductive invariant ReservationInv:   *)
(* Settled(s, w, op), with w the job the image worker holds and op the     *)
(* show operation under way, and InStep(s), that the scene the renderer    *)
(* was given agrees with the stage that is wanted.  Then one step per      *)
(* action shows that the action preserves the invariant.                   *)
(***************************************************************************)
EXTENDS Coordinator, TLAPS

\* The empty mailbox slot is a job.
LEMMA NoJobType == NoJob \in Job
  BY CueAssumption DEF NoJob, Job, CueRef

\* "No foreground" is a source.
LEMMA NoSourceType == NoSource \in Source
  BY CueAssumption DEF NoSource, Source, CueRef

\* Overwriting a counter of the service with a number keeps it well formed.
LEMMA NatFields ==
  ASSUME NEW s \in Service, NEW v \in Nat
  PROVE  /\ [s EXCEPT !.generation = v] \in Service
         /\ [s EXCEPT !.stopEpoch = v] \in Service
         /\ [s EXCEPT !.transportRevision = v] \in Service
         /\ [s EXCEPT !.visualSequence = v] \in Service
         /\ [s EXCEPT !.backgroundSequence = v] \in Service
         /\ [s EXCEPT !.stageSerial = v] \in Service
         /\ [s EXCEPT !.sceneRevision = v] \in Service
         /\ [s EXCEPT !.now = v] \in Service
         /\ [s EXCEPT !.offAt = v] \in Service
         /\ [s EXCEPT !.armedAt = v] \in Service
  BY SMTT(30) DEF Service

\* Overwriting a selection with a cue or with none keeps it well formed.
LEMMA CueFields ==
  ASSUME NEW s \in Service, NEW v \in CueRef
  PROVE  /\ [s EXCEPT !.activeCue = v] \in Service
         /\ [s EXCEPT !.imageCue = v] \in Service
         /\ [s EXCEPT !.backgroundCue = v] \in Service
         /\ [s EXCEPT !.backgroundOverride = v] \in Service
         /\ [s EXCEPT !.image = v] \in Service
         /\ [s EXCEPT !.background = v] \in Service
         /\ [s EXCEPT !.pendingImage = v] \in Service
  BY DEF Service

\* Overwriting a flag keeps it well formed.
LEMMA BoolFields ==
  ASSUME NEW s \in Service, NEW v \in BOOLEAN
  PROVE  /\ [s EXCEPT !.paused = v] \in Service
         /\ [s EXCEPT !.seekPending = v] \in Service
         /\ [s EXCEPT !.stageEnabled = v] \in Service
         /\ [s EXCEPT !.outputFault = v] \in Service
         /\ [s EXCEPT !.updatePending = v] \in Service
         /\ [s EXCEPT !.stageDesired = v] \in Service
         /\ [s EXCEPT !.stageEnablePending = v] \in Service
         /\ [s EXCEPT !.configBusy = v] \in Service
         /\ [s EXCEPT !.closed = v] \in Service
         /\ [s EXCEPT !.notified = v] \in Service
         /\ [s EXCEPT !.wedged = v] \in Service
  <1>1. [s EXCEPT !.paused = v] \in Service BY DEF Service
  <1>2. [s EXCEPT !.seekPending = v] \in Service BY DEF Service
  <1>3. [s EXCEPT !.stageEnabled = v] \in Service BY DEF Service
  <1>4. [s EXCEPT !.outputFault = v] \in Service BY DEF Service
  <1>5. [s EXCEPT !.updatePending = v] \in Service BY DEF Service
  <1>6. [s EXCEPT !.stageDesired = v] \in Service BY DEF Service
  <1>7. [s EXCEPT !.stageEnablePending = v] \in Service BY DEF Service
  <1>8. [s EXCEPT !.configBusy = v] \in Service BY DEF Service
  <1>9. [s EXCEPT !.closed = v] \in Service BY DEF Service
  <1>10. [s EXCEPT !.notified = v] \in Service BY DEF Service
  <1>11. [s EXCEPT !.wedged = v] \in Service BY DEF Service
  <1> QED BY <1>1, <1>2, <1>3, <1>4, <1>5, <1>6, <1>7, <1>8, <1>9, <1>10, <1>11

\* Overwriting a mailbox with a job keeps it well formed.
LEMMA JobFields ==
  ASSUME NEW s \in Service, NEW v \in Job
  PROVE  /\ [s EXCEPT !.loads = v] \in Service
         /\ [s EXCEPT !.visualLoads = v] \in Service
         /\ [s EXCEPT !.backgroundLoads = v] \in Service
  BY DEF Service

\* Overwriting the phase, the source, the scene or the locked cues.
LEMMA OtherFields ==
  ASSUME NEW s \in Service
  PROVE  /\ \A v \in Phases : [s EXCEPT !.state = v] \in Service
         /\ \A v \in Source : [s EXCEPT !.foreground = v] \in Service
         /\ \A v \in Scene : [s EXCEPT !.scene = v] \in Service
         /\ \A v \in SUBSET Cues : [s EXCEPT !.removing = v] \in Service
  BY DEF Service

\* The pause intent, the seek mark and the revisions of a source may change.
LEMMA SourceFields ==
  ASSUME NEW x \in Source
  PROVE  /\ \A v \in BOOLEAN : [x EXCEPT !.paused = v] \in Source
         /\ \A v \in BOOLEAN : [x EXCEPT !.seekPending = v] \in Source
         /\ \A v \in Nat : [x EXCEPT !.transportRevision = v] \in Source
         /\ \A v \in Nat : [x EXCEPT !.seekRevision = v] \in Source
  BY DEF Source

\* Invalidate (invalidateLocked) maps services to services.
LEMMA InvalidateType == ASSUME NEW s \in Service PROVE Invalidate(s) \in Service
  <1>1. s.generation + 1 \in Nat /\ s.transportRevision + 1 \in Nat BY DEF Service
  <1> QED BY <1>1, NoJobType, NatFields, JobFields, ZenonT(30) DEF Invalidate

\* ClearActive maps services to services.
LEMMA ClearActiveType == ASSUME NEW s \in Service PROVE ClearActive(s) \in Service
  <1>1. NoCue \in CueRef BY DEF CueRef
  <1> QED BY <1>1, CueFields, BoolFields, ZenonT(30) DEF ClearActive

\* ClearImage maps services to services.
LEMMA ClearImageType == ASSUME NEW s \in Service PROVE ClearImage(s) \in Service
  <1>1. s.visualSequence + 1 \in Nat /\ NoCue \in CueRef BY DEF Service, CueRef
  <1> QED BY <1>1, NoJobType, NatFields, JobFields, CueFields, ZenonT(30) DEF ClearImage

\* Disarm maps services to services.
LEMMA DisarmType == ASSUME NEW s \in Service PROVE Disarm(s) \in Service
  <1>1. s.stageSerial + 1 \in Nat /\ s.now \in Nat BY DEF Service
  <1> QED BY <1>1, NatFields, BoolFields, ZenonT(30) DEF Disarm

\* The scene handed to the renderer is well formed.
LEMMA DesiredSceneType ==
  ASSUME NEW s \in Service, NEW hard \in BOOLEAN PROVE DesiredScene(s, hard) \in Scene
  BY DEF DesiredScene, Scene, Service, Source

\* ApplyScene maps services to services.
LEMMA ApplySceneType ==
  ASSUME NEW s \in Service, NEW hard \in BOOLEAN PROVE ApplyScene(s, hard) \in Service
  <1>1. s.sceneRevision + 1 \in Nat BY DEF Service
  <1>2. (s.stageDesired /\ ~s.stageEnabled) \in BOOLEAN OBVIOUS
  <1> QED BY <1>1, <1>2, DesiredSceneType, NatFields, BoolFields, OtherFields, ZenonT(30)
          DEF ApplyScene

\* Entering a critical section and announcing a change do.
LEMMA MarkType ==
  ASSUME NEW s \in Service
  PROVE  Enter(s) \in Service /\ Input(s) \in Service /\ Changed(s) \in Service
  <1>1. s.now + 1 \in Nat BY DEF Service
  <1> QED BY <1>1, NatFields, BoolFields, ZenonT(30) DEF Enter, Input, Changed

\* A job built from the current counters.
LEMMA FreshJobType ==
  ASSUME NEW s \in Service, NEW tag \in Nat, NEW cue \in CueRef
  PROVE  [tag |-> tag, cue |-> cue, stageSerial |-> s.stageSerial, at |-> s.now] \in Job
  BY DEF Service, Job

\* Sending a foreground job does.
LEMMA SendLoadType ==
  ASSUME NEW s \in Service, NEW cue \in CueRef PROVE SendLoad(s, cue) \in Service
  <1>1. s.generation \in Nat BY DEF Service
  <1>2. (s.wedged \/ s.loads # NoJob) \in BOOLEAN OBVIOUS
  <1> QED BY <1>1, <1>2, FreshJobType, BoolFields, JobFields, ZenonT(30) DEF SendLoad

\* Sending an image job does.
LEMMA SelectImageType ==
  ASSUME NEW s \in Service, NEW cue \in CueRef PROVE SelectImage(s, cue) \in Service
  <1> DEFINE cleared == ClearImage(s)
             job == [tag |-> cleared.visualSequence, cue |-> cue,
                     stageSerial |-> s.stageSerial, at |-> s.now]
  <1>1. cleared \in Service BY ClearImageType
  <1>2. cleared.visualSequence \in Nat BY <1>1 DEF Service
  <1>3. job \in Job BY <1>2, FreshJobType
  <1>4. (cleared.wedged \/ cleared.visualLoads # NoJob) \in BOOLEAN OBVIOUS
  <1>5. SelectImage(s, cue) =
        [cleared EXCEPT !.pendingImage = cue, !.visualLoads = job,
                        !.wedged = @ \/ cleared.visualLoads # NoJob]
    BY DEF SelectImage
  <1> HIDE DEF job, cleared
  <1> QED BY <1>1, <1>3, <1>4, <1>5, CueFields, BoolFields, JobFields, ZenonT(30)

-----------------------------------------------------------------------------
(* The update reservation. *)

\* the renderer was last asked for the stage the service wants
InStep(s) == s.scene.stage = s.stageDesired

\* the type of the Stage calls under way
StageCalls == SUBSET [serial : Nat, at : Nat]

\* what the invariant depends on, apart from the generation
Kept(s, t) ==
  /\ t.state = s.state /\ t.foreground.id = s.foreground.id
  /\ t.foreground.cue = s.foreground.cue /\ t.activeCue = s.activeCue
  /\ t.pendingImage = s.pendingImage /\ t.visualSequence = s.visualSequence
  /\ t.visualLoads = s.visualLoads /\ t.stageDesired = s.stageDesired
  /\ t.stageEnabled = s.stageEnabled /\ t.updatePending = s.updatePending

\* Settled depends on nothing but what Kept names and a generation other than 0.
LEMMA KeptSettles ==
  ASSUME NEW s, NEW w, NEW op, NEW t \in Service,
         Settled(s, w, op), Kept(s, t), t.generation # 0
  PROVE  Settled(t, w, op)
  BY DEF Settled, Kept, Resting, ImagesCounted

\* ... and so does the agreement of the scene with the wanted stage.
LEMMA KeptSteady ==
  ASSUME NEW s, NEW w, NEW op, NEW t \in Service,
         Settled(s, w, op), Kept(s, t), t.generation = s.generation
  PROVE  Settled(t, w, op) /\ (t.scene = s.scene /\ InStep(s) => InStep(t))
  <1>1. s.generation # 0 BY DEF Settled
  <1>2. Settled(t, w, op) BY <1>1, KeptSettles
  <1> QED BY <1>2 DEF InStep, Kept

\* Entering a critical section or announcing a change keeps all of it.
LEMMA MarksKeep ==
  ASSUME NEW s \in Service
  PROVE  /\ Kept(s, Enter(s)) /\ Enter(s).generation = s.generation
         /\ Kept(s, Input(s)) /\ Input(s).generation = s.generation
         /\ Kept(s, Changed(s)) /\ Changed(s).generation = s.generation
         /\ Enter(s).scene = s.scene /\ Input(s).scene = s.scene
         /\ Changed(s).scene = s.scene
  BY DEF Kept, Enter, Input, Changed, Service

\* Entering a critical section or announcing a change preserves Settled.
LEMMA MarksSettle ==
  ASSUME NEW s, NEW w, NEW op, Settled(s, w, op)
  PROVE  /\ Settled(Enter(s), w, op) /\ Settled(Input(s), w, op) /\ Settled(Changed(s), w, op)
         /\ InStep(s) => InStep(Enter(s)) /\ InStep(Input(s)) /\ InStep(Changed(s))
  <1>1. s \in Service /\ s.generation # 0 BY DEF Settled
  <1>2. Enter(s) \in Service /\ Input(s) \in Service /\ Changed(s) \in Service
    BY <1>1, MarkType
  <1>3. Settled(Enter(s), w, op) /\ Settled(Input(s), w, op) /\ Settled(Changed(s), w, op)
    BY <1>1, <1>2, MarksKeep, KeptSettles
  <1> QED BY <1>1, <1>3, MarksKeep DEF InStep, Kept

\* Cancelling the load that is current (invalidateLocked) preserves Settled.
LEMMA InvalidateSettles ==
  ASSUME NEW s, NEW w, NEW op, Settled(s, w, op)
  PROVE  /\ Settled(Invalidate(s), w, op)
         /\ InStep(s) => InStep(Invalidate(s))
         /\ Invalidate(s).updatePending = s.updatePending
  <1>1. s \in Service BY DEF Settled
  <1>2. Invalidate(s) \in Service BY <1>1, InvalidateType
  <1>3. Kept(s, Invalidate(s)) /\ Invalidate(s).scene = s.scene
    BY <1>1 DEF Kept, Invalidate, Service
  <1>4. Invalidate(s).generation = s.generation + 1 /\ s.generation \in Nat
    BY <1>1 DEF Invalidate, Service
  <1> QED BY <1>2, <1>3, <1>4, KeptSettles DEF InStep, Kept

\* A scene applied to a settled service agrees with the stage it wants.
LEMMA ApplySceneSettles ==
  ASSUME NEW s, NEW w, NEW op, Settled(s, w, op), NEW hard \in BOOLEAN
  PROVE  Settled(ApplyScene(s, hard), w, op) /\ InStep(ApplyScene(s, hard))
  <1>1. s \in Service BY DEF Settled
  <1>2. ApplyScene(s, hard) \in Service BY <1>1, ApplySceneType
  <1>3. Kept(s, ApplyScene(s, hard)) /\ ApplyScene(s, hard).generation = s.generation
    BY <1>1 DEF Kept, ApplyScene, Service
  <1>4. ApplyScene(s, hard).scene.stage = s.stageDesired
    BY <1>1 DEF ApplyScene, DesiredScene, Service
  <1> QED BY <1>2, <1>3, <1>4, KeptSettles DEF InStep, Kept, Settled

\* Clearing the active cue preserves Settled.
LEMMA ClearActiveSettles ==
  ASSUME NEW s, NEW w, NEW op, Settled(s, w, op)
  PROVE  Settled(ClearActive(s), w, op)
  <1>1. s \in Service BY DEF Settled
  <1>2. ClearActive(s) \in Service BY <1>1, ClearActiveType
  <1> DEFINE t == ClearActive(s)
  <1>3. /\ t.state = s.state /\ t.foreground = s.foreground /\ t.activeCue = NoCue
        /\ t.pendingImage = s.pendingImage /\ t.visualSequence = s.visualSequence
        /\ t.visualLoads = s.visualLoads /\ t.stageDesired = s.stageDesired
        /\ t.stageEnabled = s.stageEnabled /\ t.updatePending = s.updatePending
        /\ t.generation = s.generation
    BY <1>1 DEF ClearActive, Service
  <1> HIDE DEF t
  <1>4. Settled(t, w, op) BY <1>2, <1>3 DEF Settled, Resting, ImagesCounted, t
  <1> QED BY <1>4 DEF t

\* Clearing the image retires the job its worker holds: it is older from now on.
LEMMA ClearImageSettles ==
  ASSUME NEW s, NEW w \in Job, NEW op, Settled(s, w, op)
  PROVE  Settled(ClearImage(s), w, op)
  <1>1. s \in Service BY DEF Settled
  <1>2. ClearImage(s) \in Service BY <1>1, ClearImageType
  <1> DEFINE t == ClearImage(s)
  <1>3. /\ t.state = s.state /\ t.foreground = s.foreground /\ t.activeCue = s.activeCue
        /\ t.pendingImage = NoCue /\ t.visualSequence = s.visualSequence + 1
        /\ t.visualLoads = NoJob /\ t.stageDesired = s.stageDesired
        /\ t.stageEnabled = s.stageEnabled /\ t.updatePending = s.updatePending
        /\ t.generation = s.generation
    BY <1>1 DEF ClearImage, Service
  <1>4. s.visualSequence \in Nat /\ w.tag \in Nat BY <1>1 DEF Service, Job
  <1> HIDE DEF t
  <1>5. Settled(t, w, op) BY <1>2, <1>3, <1>4 DEF Settled, Resting, ImagesCounted, t
  <1> QED BY <1>5 DEF t

\* Withdrawing the stage preserves Settled.
LEMMA DisarmSettles ==
  ASSUME NEW s, NEW w, NEW op, Settled(s, w, op)
  PROVE  Settled(Disarm(s), w, op)
  <1>1. s \in Service BY DEF Settled
  <1>2. Disarm(s) \in Service BY <1>1, DisarmType
  <1> DEFINE t == Disarm(s)
  <1>3. /\ t.state = s.state /\ t.foreground = s.foreground /\ t.activeCue = s.activeCue
        /\ t.pendingImage = s.pendingImage /\ t.visualSequence = s.visualSequence
        /\ t.visualLoads = s.visualLoads /\ t.stageDesired = FALSE
        /\ t.stageEnabled = s.stageEnabled /\ t.updatePending = s.updatePending
        /\ t.generation = s.generation
    BY <1>1 DEF Disarm, Service
  <1> HIDE DEF t
  <1>4. Settled(t, w, op) BY <1>2, <1>3 DEF Settled, Resting, ImagesCounted, t
  <1> QED BY <1>4 DEF t

\* The first half of every stop: invalidated, nothing active, no source.
LEMMA HaltSettles ==
  ASSUME NEW s, NEW w, NEW op, Settled(s, w, op)
  PROVE  Settled([ClearActive(Invalidate(s)) EXCEPT
                    !.stopEpoch = @ + 1, !.foreground = NoSource], w, op)
  <1> DEFINE c == ClearActive(Invalidate(s))
             t == [c EXCEPT !.stopEpoch = @ + 1, !.foreground = NoSource]
  <1>1. Settled(c, w, op) BY InvalidateSettles, ClearActiveSettles
  <1>2. c \in Service BY <1>1 DEF Settled
  <1> HIDE DEF c
  <1>3. c.stopEpoch + 1 \in Nat BY <1>2 DEF Service
  <1>4. t \in Service BY <1>2, <1>3, NoSourceType, NatFields, OtherFields, ZenonT(30)
  <1>5. /\ t.state = c.state /\ t.foreground = NoSource /\ t.activeCue = c.activeCue
        /\ t.pendingImage = c.pendingImage /\ t.visualSequence = c.visualSequence
        /\ t.visualLoads = c.visualLoads /\ t.stageDesired = c.stageDesired
        /\ t.stageEnabled = c.stageEnabled /\ t.updatePending = c.updatePending
        /\ t.generation = c.generation
    BY <1>2 DEF Service
  <1>6. NoSource.id = 0 /\ NoSource.cue = NoCue BY DEF NoSource
  <1> HIDE DEF t
  <1>7. Settled(t, w, op) BY <1>1, <1>4, <1>5, <1>6 DEF Settled, Resting, ImagesCounted
  <1> QED BY <1>7 DEF t, c

\* A phase may be given up for a resting one once nothing is active any more.
LEMMA RestSettles ==
  ASSUME NEW s, NEW w, NEW op, Settled(s, w, op), NEW phase \in {"stopped", "stopping", "error"},
         s.foreground.id = 0, s.activeCue = NoCue
  PROVE  Settled([s EXCEPT !.state = phase], w, op)
  <1> DEFINE t == [s EXCEPT !.state = phase]
  <1>1. s \in Service /\ phase \in Phases BY DEF Settled, Phases
  <1>2. t \in Service BY <1>1, OtherFields
  <1>3. /\ t.state = phase /\ t.foreground = s.foreground /\ t.activeCue = s.activeCue
        /\ t.pendingImage = s.pendingImage /\ t.visualSequence = s.visualSequence
        /\ t.visualLoads = s.visualLoads /\ t.stageDesired = s.stageDesired
        /\ t.stageEnabled = s.stageEnabled /\ t.updatePending = s.updatePending
        /\ t.generation = s.generation
    BY <1>1 DEF Service
  <1> HIDE DEF t
  <1>4. Settled(t, w, op) BY <1>2, <1>3 DEF Settled, Resting, ImagesCounted
  <1> QED BY <1>4 DEF t

\* What a halted state keeps of being halted.
LEMMA HaltedFacts ==
  ASSUME NEW s \in Service
  PROVE  LET halted == [ClearActive(Invalidate(s)) EXCEPT
                          !.stopEpoch = @ + 1, !.foreground = NoSource]
         IN  /\ halted.foreground.id = 0 /\ halted.activeCue = NoCue
             /\ ClearImage(halted).foreground.id = 0
             /\ ClearImage(halted).activeCue = NoCue
             /\ Disarm(ClearImage(halted)).foreground.id = 0
             /\ Disarm(ClearImage(halted)).activeCue = NoCue
  <1> DEFINE c == ClearActive(Invalidate(s))
             halted == [c EXCEPT !.stopEpoch = @ + 1, !.foreground = NoSource]
  <1>1. Invalidate(s) \in Service BY InvalidateType
  <1>0. \A x \in Service : ClearActive(x).activeCue = NoCue BY DEF ClearActive, Service
  <1>2. c \in Service /\ c.activeCue = NoCue BY <1>0, <1>1, ClearActiveType
  <1> HIDE DEF c
  <1>3. c.stopEpoch + 1 \in Nat BY <1>2 DEF Service
  <1>4. halted \in Service
    BY <1>2, <1>3, NoSourceType, NatFields, OtherFields, ZenonT(30)
  <1>5. halted.foreground.id = 0 /\ halted.activeCue = NoCue
    BY <1>2 DEF Service, NoSource
  <1> HIDE DEF halted
  <1>6. ClearImage(halted) \in Service BY <1>4, ClearImageType
  <1>7. ClearImage(halted).foreground.id = 0 /\ ClearImage(halted).activeCue = NoCue
    BY <1>4, <1>5 DEF ClearImage, Service
  <1>8. /\ Disarm(ClearImage(halted)).foreground.id = 0
        /\ Disarm(ClearImage(halted)).activeCue = NoCue
    BY <1>6, <1>7 DEF Disarm, Service
  <1> QED BY <1>5, <1>7, <1>8 DEF halted, c

\* STOP and everything built on it (stopForegroundLocked).
LEMMA StopForegroundSettles ==
  ASSUME NEW s, NEW w \in Job, NEW op, Settled(s, w, op),
         NEW clearImage \in BOOLEAN, NEW hard \in BOOLEAN
  PROVE  /\ Settled(StopForeground(s, clearImage, hard), w, op)
         /\ InStep(StopForeground(s, clearImage, hard))
  <1> DEFINE halted == [ClearActive(Invalidate(s)) EXCEPT
                          !.stopEpoch = @ + 1, !.foreground = NoSource]
             cleared == IF clearImage THEN ClearImage(halted) ELSE halted
             quiet == [cleared EXCEPT !.state = "stopping"]
  <1>1. s \in Service BY DEF Settled
  <1>2. Settled(halted, w, op) BY HaltSettles
  <1>3. cleared.foreground.id = 0 /\ cleared.activeCue = NoCue BY <1>1, HaltedFacts
  <1>4. Settled(ClearImage(halted), w, op) BY <1>2, ClearImageSettles
  <1>5. Settled(cleared, w, op) BY <1>2, <1>4
  <1>6. Settled(quiet, w, op) BY <1>3, <1>5, RestSettles
  <1>7. /\ Settled(Changed(ApplyScene(quiet, hard)), w, op)
        /\ InStep(Changed(ApplyScene(quiet, hard)))
    BY <1>6, ApplySceneSettles, MarksSettle
  <1> QED BY <1>7 DEF StopForeground

\* A failure (failLocked) preserves Settled.
LEMMA FailSettles ==
  ASSUME NEW s, NEW w \in Job, NEW op, Settled(s, w, op)
  PROVE  Settled(Fail(s), w, op) /\ InStep(Fail(s))
  <1> DEFINE halted == [ClearActive(Invalidate(s)) EXCEPT
                          !.stopEpoch = @ + 1, !.foreground = NoSource]
             d == Disarm(ClearImage(halted))
             dim == [d EXCEPT !.stageEnablePending = FALSE, !.stageEnabled = FALSE]
             dark == [d EXCEPT !.stageEnablePending = FALSE, !.stageEnabled = FALSE,
                               !.state = "error"]
  <1>1. s \in Service BY DEF Settled
  <1>2. Settled(d, w, op) BY HaltSettles, ClearImageSettles, DisarmSettles
  <1>3. d.foreground.id = 0 /\ d.activeCue = NoCue BY <1>1, HaltedFacts
  <1>4. d \in Service BY <1>2 DEF Settled
  <1> HIDE DEF d
  <1>5. dim \in Service BY <1>4, BoolFields, ZenonT(30)
  <1>6. /\ dim.state = d.state /\ dim.foreground = d.foreground
        /\ dim.activeCue = d.activeCue
        /\ dim.pendingImage = d.pendingImage /\ dim.visualSequence = d.visualSequence
        /\ dim.visualLoads = d.visualLoads /\ dim.stageDesired = d.stageDesired
        /\ dim.stageEnabled = FALSE /\ dim.updatePending = d.updatePending
        /\ dim.generation = d.generation
    BY <1>4 DEF Service
  <1>7. dark = [dim EXCEPT !.state = "error"] BY Zenon
  <1> HIDE DEF dim
  <1>8. Settled(dim, w, op) BY <1>2, <1>5, <1>6 DEF Settled, Resting, ImagesCounted
  <1>9. Settled([dim EXCEPT !.state = "error"], w, op) BY <1>3, <1>6, <1>8, RestSettles
  <1>10. Settled(dark, w, op) BY <1>7, <1>9
  <1> HIDE DEF dark
  <1>11. /\ Settled(Changed(ApplyScene(dark, TRUE)), w, op)
         /\ InStep(Changed(ApplyScene(dark, TRUE)))
    BY <1>10, ApplySceneSettles, MarksSettle
  <1> QED BY <1>11 DEF Fail, dark, d

\* Removing an image (stopImageLocked), with the video below it or alone.
LEMMA StopImageSettles ==
  ASSUME NEW s, NEW w \in Job, NEW op, Settled(s, w, op)
  PROVE  Settled(StopImage(s), w, op) /\ InStep(StopImage(s))
  <1> DEFINE c == ClearImage(s)
             t == [c EXCEPT !.stopEpoch = @ + 1]
  <1>1. Settled(c, w, op) BY ClearImageSettles
  <1>2. c \in Service BY <1>1 DEF Settled
  <1> HIDE DEF c
  <1>3. c.stopEpoch + 1 \in Nat BY <1>2 DEF Service
  <1>4. t \in Service BY <1>2, <1>3, NatFields
  <1>5. Kept(c, t) /\ t.generation = c.generation BY <1>2 DEF Kept, Service
  <1>6. Settled(t, w, op) BY <1>1, <1>4, <1>5, KeptSteady
  <1> HIDE DEF t
  <1>7. /\ Settled(Changed(ApplyScene(t, FALSE)), w, op)
        /\ InStep(Changed(ApplyScene(t, FALSE)))
    BY <1>6, ApplySceneSettles, MarksSettle
  <1>8. Settled(StopForeground(c, FALSE, FALSE), w, op) /\ InStep(StopForeground(c, FALSE, FALSE))
    BY <1>1, StopForegroundSettles
  <1> QED BY <1>7, <1>8 DEF StopImage, c, t

\* A pause or resume (setPausedLocked), handed over or only remembered.
LEMMA SetPausedSettles ==
  ASSUME NEW s, NEW w, NEW op, Settled(s, w, op), InStep(s), NEW paused \in BOOLEAN
  PROVE  Settled(SetPaused(s, paused), w, op) /\ InStep(SetPaused(s, paused))
  <1> DEFINE asked == [s EXCEPT !.paused = paused, !.transportRevision = @ + 1]
             t == [asked EXCEPT !.foreground.paused = paused,
                                !.foreground.transportRevision = asked.transportRevision]
             source == [s.foreground EXCEPT !.paused = paused,
                                            !.transportRevision = asked.transportRevision]
  <1>1. s \in Service BY DEF Settled
  <1>2. s.transportRevision + 1 \in Nat BY <1>1 DEF Service
  <1>3. asked \in Service BY <1>1, <1>2, NatFields, BoolFields, ZenonT(30)
  <1>4. /\ Kept(s, asked) /\ asked.generation = s.generation
        /\ asked.scene = s.scene /\ asked.foreground = s.foreground
    BY <1>1 DEF Kept, Service
  <1> HIDE DEF asked
  <1>5. Settled(asked, w, op) /\ InStep(asked)
    BY <1>1, <1>3, <1>4, KeptSteady
  <1>6. s.foreground \in Source /\ asked.transportRevision \in Nat
    BY <1>1, <1>3 DEF Service
  <1>7. source \in Source BY <1>6, SourceFields, Zenon
  <1>8. source.id = s.foreground.id /\ source.cue = s.foreground.cue
    BY <1>6 DEF Source
  <1>9. t = [asked EXCEPT !.foreground = source] BY <1>3, <1>4 DEF Service
  <1> HIDE DEF source
  <1>10. t \in Service BY <1>3, <1>7, <1>9, OtherFields
  <1>11. Kept(asked, t) /\ t.generation = asked.generation
    BY <1>3, <1>4, <1>8, <1>9 DEF Kept, Service
  <1>12. Settled(t, w, op) BY <1>5, <1>10, <1>11, KeptSteady
  <1> HIDE DEF t
  <1>13. /\ Settled(Changed(ApplyScene(t, FALSE)), w, op)
         /\ InStep(Changed(ApplyScene(t, FALSE)))
    BY <1>12, ApplySceneSettles, MarksSettle
  <1>14. Settled(Changed(asked), w, op) /\ InStep(Changed(asked)) BY <1>5, MarksSettle
  <1> QED BY <1>13, <1>14 DEF SetPaused, asked, t

\* A seek (setPositionLocked).
LEMMA SetPositionSettles ==
  ASSUME NEW s, NEW w, NEW op, Settled(s, w, op)
  PROVE  Settled(SetPosition(s), w, op) /\ InStep(SetPosition(s))
  <1> DEFINE sought == [s EXCEPT !.transportRevision = @ + 1, !.seekPending = TRUE]
             source == [s.foreground EXCEPT !.transportRevision = s.transportRevision + 1,
                                            !.seekRevision = @ + 1, !.seekPending = TRUE]
             asked == [s EXCEPT !.transportRevision = @ + 1, !.seekPending = TRUE,
                                !.foreground.transportRevision = s.transportRevision + 1,
                                !.foreground.seekRevision = @ + 1,
                                !.foreground.seekPending = TRUE]
  <1>1. s \in Service BY DEF Settled
  <1>2. /\ s.transportRevision + 1 \in Nat /\ s.foreground \in Source
        /\ s.foreground.seekRevision + 1 \in Nat
    BY <1>1 DEF Service, Source
  <1>3. sought \in Service BY <1>1, <1>2, NatFields, BoolFields, ZenonT(30)
  <1>4. source \in Source BY <1>2, SourceFields, Zenon
  <1>5. source.id = s.foreground.id /\ source.cue = s.foreground.cue BY <1>2 DEF Source
  <1>6. asked = [sought EXCEPT !.foreground = source] BY <1>1 DEF Service
  <1>7. Kept(s, [sought EXCEPT !.foreground = s.foreground])
    BY <1>1 DEF Kept, Service
  <1>8. sought.generation = s.generation BY <1>1 DEF Service
  <1> HIDE DEF sought, source
  <1>9. asked \in Service BY <1>3, <1>4, <1>6, OtherFields
  <1>10. Kept(s, asked) /\ asked.generation = s.generation
    BY <1>3, <1>5, <1>6, <1>7, <1>8 DEF Kept, Service
  <1>11. Settled(asked, w, op) BY <1>9, <1>10, KeptSteady
  <1> HIDE DEF asked
  <1>12. /\ Settled(Changed(ApplyScene(asked, FALSE)), w, op)
         /\ InStep(Changed(ApplyScene(asked, FALSE)))
    BY <1>11, ApplySceneSettles, MarksSettle
  <1> QED BY <1>12 DEF SetPosition, asked

\* A new foreground selection; never asked for while reserved.
LEMMA SelectForegroundSettles ==
  ASSUME NEW s, NEW w \in Job, NEW op, Settled(s, w, op), InStep(s), ~s.updatePending,
         NEW cue \in CueRef
  PROVE  Settled(SelectForeground(s, cue), w, op) /\ InStep(SelectForeground(s, cue))
  <1> DEFINE r == Invalidate(ClearImage(s))
             chosen == [r EXCEPT !.state = "loading", !.activeCue = cue,
                                 !.paused = FALSE, !.seekPending = FALSE]
             t == SendLoad(chosen, cue)
  <1>1. s \in Service BY DEF Settled
  <1>2. Settled(r, w, op) BY ClearImageSettles, InvalidateSettles
  <1>3. /\ ClearImage(s).scene = s.scene /\ ClearImage(s).stageDesired = s.stageDesired
        /\ ClearImage(s).updatePending = s.updatePending
    BY <1>1 DEF ClearImage, Service
  <1>4. InStep(r) /\ ~r.updatePending
    BY <1>3, ClearImageSettles, InvalidateSettles DEF InStep
  <1>5. r \in Service /\ "loading" \in Phases BY <1>2 DEF Settled, Phases
  <1> HIDE DEF r
  <1>6. chosen \in Service
    BY <1>5, CueFields, BoolFields, OtherFields, ZenonT(30)
  <1>7. /\ chosen.state = "loading" /\ chosen.foreground = r.foreground
        /\ chosen.pendingImage = r.pendingImage
        /\ chosen.visualSequence = r.visualSequence
        /\ chosen.visualLoads = r.visualLoads /\ chosen.stageDesired = r.stageDesired
        /\ chosen.stageEnabled = r.stageEnabled
        /\ chosen.updatePending = r.updatePending
        /\ chosen.generation = r.generation /\ chosen.scene = r.scene
    BY <1>5 DEF Service
  <1> HIDE DEF chosen
  <1>8. Settled(chosen, w, op) /\ InStep(chosen)
    BY <1>2, <1>4, <1>6, <1>7 DEF Settled, Resting, ImagesCounted, InStep
  <1>9. t \in Service BY <1>6, SendLoadType
  <1>10. Kept(chosen, t) /\ t.generation = chosen.generation /\ t.scene = chosen.scene
    BY <1>6 DEF Kept, SendLoad, Service
  <1>11. Settled(t, w, op) /\ InStep(t)
    BY <1>8, <1>9, <1>10, KeptSteady
  <1> HIDE DEF t
  <1>12. Settled(Changed(t), w, op) /\ InStep(Changed(t)) BY <1>11, MarksSettle
  <1> QED BY <1>12 DEF SelectForeground, t, chosen, r

\* A new image job; its worker's job, if any, is older from now on.
LEMMA SelectImageSettles ==
  ASSUME NEW s, NEW w \in Job, NEW op, Settled(s, w, op), InStep(s), ~s.updatePending,
         NEW cue \in Cues
  PROVE  Settled(SelectImage(s, cue), w, op) /\ InStep(SelectImage(s, cue))
  <1> DEFINE c == ClearImage(s)
             job == [tag |-> c.visualSequence, cue |-> cue,
                     stageSerial |-> s.stageSerial, at |-> s.now]
             t == SelectImage(s, cue)
  <1>1. s \in Service /\ cue \in CueRef /\ cue # NoCue
    BY CueAssumption DEF Settled, CueRef
  <1>2. Settled(c, w, op) BY ClearImageSettles
  <1>3. /\ c.scene = s.scene /\ c.stageDesired = s.stageDesired
        /\ c.updatePending = s.updatePending
        /\ c.visualSequence = s.visualSequence + 1
    BY <1>1 DEF ClearImage, Service
  <1>4. c \in Service BY <1>2 DEF Settled
  <1>5. t = [c EXCEPT !.pendingImage = cue, !.visualLoads = job,
                      !.wedged = @ \/ c.visualLoads # NoJob]
    BY DEF SelectImage
  <1>6. job.tag = c.visualSequence OBVIOUS
  <1> HIDE DEF job, c
  <1>7. /\ t.state = c.state /\ t.foreground = c.foreground /\ t.activeCue = c.activeCue
        /\ t.pendingImage = cue /\ t.visualSequence = c.visualSequence
        /\ t.visualLoads = job /\ t.stageDesired = c.stageDesired
        /\ t.stageEnabled = c.stageEnabled /\ t.updatePending = c.updatePending
        /\ t.generation = c.generation /\ t.scene = c.scene
    BY <1>4, <1>5 DEF Service
  <1>8. t \in Service BY <1>1, SelectImageType
  <1>9. w.tag < c.visualSequence
    BY <1>1, <1>3 DEF Settled, ImagesCounted, Service, Job
  <1> HIDE DEF t
  <1>10. Settled(t, w, op)
    BY <1>1, <1>2, <1>3, <1>6, <1>7, <1>8, <1>9 DEF Settled, Resting, ImagesCounted
  <1> QED BY <1>3, <1>7, <1>10 DEF InStep, t

\* A new background, none, or one that left the show.
LEMMA SelectBackgroundSettles ==
  ASSUME NEW s, NEW w, NEW op, Settled(s, w, op), InStep(s), NEW cues, NEW id \in CueRef
  PROVE  /\ Settled(SelectBackground(s, cues, id), w, op)
         /\ InStep(SelectBackground(s, cues, id))
  <1> DEFINE d == [s EXCEPT !.backgroundSequence = @ + 1,
                            !.backgroundLoads = NoJob, !.backgroundCue = id]
             black == [d EXCEPT !.background = NoCue]
             job == [tag |-> d.backgroundSequence, cue |-> id,
                     stageSerial |-> s.stageSerial, at |-> s.now]
             loaded == [d EXCEPT !.backgroundLoads = job,
                                 !.wedged = @ \/ d.backgroundLoads # NoJob]
             gone == [d EXCEPT !.background = NoCue, !.backgroundCue = NoCue]
  <1>1. s \in Service BY DEF Settled
  <1>2. s.backgroundSequence + 1 \in Nat /\ NoCue \in CueRef BY <1>1 DEF Service, CueRef
  <1>3. d \in Service
    BY <1>1, <1>2, NoJobType, NatFields, CueFields, JobFields, ZenonT(30)
  <1>4. Kept(s, d) /\ d.generation = s.generation /\ d.scene = s.scene
    BY <1>1 DEF Kept, Service
  <1>5. d.backgroundSequence \in Nat BY <1>3 DEF Service
  <1>6. job \in Job BY <1>1, <1>5, FreshJobType
  <1>7. (d.wedged \/ d.backgroundLoads # NoJob) \in BOOLEAN OBVIOUS
  <1> HIDE DEF d, job
  <1>8. black \in Service /\ gone \in Service
    BY <1>2, <1>3, CueFields, ZenonT(30)
  <1>9. loaded \in Service BY <1>3, <1>6, <1>7, JobFields, BoolFields, ZenonT(30)
  <1>10. /\ Kept(d, black) /\ black.generation = d.generation /\ black.scene = d.scene
         /\ Kept(d, loaded) /\ loaded.generation = d.generation /\ loaded.scene = d.scene
         /\ Kept(d, gone) /\ gone.generation = d.generation /\ gone.scene = d.scene
    BY <1>3 DEF Kept, Service
  <1> HIDE DEF black, loaded, gone
  <1>11. Settled(d, w, op) /\ InStep(d) BY <1>3, <1>4, KeptSteady
  <1>12. /\ Settled(black, w, op) /\ InStep(black) /\ Settled(loaded, w, op) /\ InStep(loaded)
         /\ Settled(gone, w, op) /\ InStep(gone)
    BY <1>8, <1>9, <1>10, <1>11, KeptSteady
  <1>13. Settled(ApplyScene(black, FALSE), w, op) /\ InStep(ApplyScene(black, FALSE))
    BY <1>12, ApplySceneSettles
  <1> QED BY <1>12, <1>13 DEF SelectBackground, d, job, black, loaded, gone

\* Falling back to the default background.
LEMMA ClearOverrideSettles ==
  ASSUME NEW s, NEW w, NEW op, Settled(s, w, op), InStep(s), NEW c \in Config
  PROVE  Settled(ClearBackgroundOverride(s, c), w, op) /\ InStep(ClearBackgroundOverride(s, c))
  <1> DEFINE t == [s EXCEPT !.backgroundOverride = NoCue]
  <1>1. s \in Service BY DEF Settled
  <1>2. NoCue \in CueRef /\ c.defaultBackground \in CueRef BY DEF Config, CueRef
  <1>3. t \in Service BY <1>1, <1>2, CueFields
  <1>4. Kept(s, t) /\ t.generation = s.generation /\ t.scene = s.scene
    BY <1>1 DEF Kept, Service
  <1> HIDE DEF t
  <1>5. Settled(t, w, op) /\ InStep(t)
    BY <1>3, <1>4, KeptSteady
  <1>6. SelectBackground(t, c.cues, c.defaultBackground) = ClearBackgroundOverride(s, c)
    BY DEF ClearBackgroundOverride, t
  <1> QED BY <1>2, <1>5, <1>6, SelectBackgroundSettles

\* Wanting the stage is compatible with no reservation only.
LEMMA ShownSettles ==
  ASSUME NEW s, NEW w, NEW op, Settled(s, w, op), ~s.updatePending, NEW at \in Nat
  PROVE  Settled([s EXCEPT !.stageDesired = TRUE, !.armedAt = at], w, op)
  <1> DEFINE t == [s EXCEPT !.stageDesired = TRUE, !.armedAt = at]
  <1>1. s \in Service BY DEF Settled
  <1>2. t \in Service BY <1>1, NatFields, BoolFields, ZenonT(30)
  <1>3. /\ t.state = s.state /\ t.foreground = s.foreground /\ t.activeCue = s.activeCue
        /\ t.pendingImage = s.pendingImage /\ t.visualSequence = s.visualSequence
        /\ t.visualLoads = s.visualLoads /\ t.updatePending = s.updatePending
        /\ t.generation = s.generation
    BY <1>1 DEF Service
  <1> HIDE DEF t
  <1>4. Settled(t, w, op) BY <1>2, <1>3 DEF Settled, Resting, ImagesCounted
  <1> QED BY <1>4 DEF t

\* A finished preparation shows the stage if nothing switched it since.
LEMMA ArmSettles ==
  ASSUME NEW s, NEW w, NEW op, Settled(s, w, op), ~s.updatePending, NEW job \in Job
  PROVE  Settled(Arm(s, job), w, op)
  <1>1. job.at \in Nat BY DEF Job
  <1> DEFINE t == [s EXCEPT !.stageDesired = TRUE, !.armedAt = job.at]
  <1>2. Settled(t, w, op) BY <1>1, ShownSettles, Zenon
  <1> HIDE DEF t
  <1>3. Settled(IF job.stageSerial = s.stageSerial THEN t ELSE s, w, op) BY <1>2
  <1> QED BY <1>3 DEF Arm, t

\* A load that turned out to be an image hands back to the source before it.
LEMMA CommitAsImageSettles ==
  ASSUME NEW s, NEW w, NEW op, Settled(s, w, op), ~s.updatePending, NEW job \in Job
  PROVE  Settled(CommitAsImage(s, job), w, op) /\ InStep(CommitAsImage(s, job))
  <1> DEFINE phase == IF s.foreground.id = 0 THEN "stopped"
                      ELSE IF s.foreground.paused THEN "paused" ELSE "playing"
             source == [s.foreground EXCEPT !.transportRevision = s.transportRevision]
             shown == [s EXCEPT !.activeCue = s.foreground.cue, !.state = phase,
                                !.paused = s.foreground.paused,
                                !.seekPending = s.foreground.seekPending,
                                !.image = job.cue, !.imageCue = job.cue]
             restored == [s EXCEPT
                            !.activeCue = s.foreground.cue, !.state = phase,
                            !.paused = s.foreground.paused,
                            !.seekPending = s.foreground.seekPending,
                            !.foreground.transportRevision = s.transportRevision,
                            !.image = job.cue, !.imageCue = job.cue]
  <1>1. s \in Service BY DEF Settled
  <1>2. /\ s.foreground \in Source /\ s.transportRevision \in Nat
        /\ s.foreground.cue \in CueRef /\ s.foreground.paused \in BOOLEAN
        /\ s.foreground.seekPending \in BOOLEAN /\ job.cue \in CueRef
    BY <1>1 DEF Service, Source, Job
  <1>3. phase \in Phases BY DEF Phases
  <1>4. phase \in {"stopped", "stopping", "error"} =>
          s.foreground.id = 0 /\ s.foreground.cue = NoCue
    BY DEF Settled
  <1>5. source \in Source /\ source.id = s.foreground.id /\ source.cue = s.foreground.cue
    BY <1>2, SourceFields DEF Source
  <1> HIDE DEF phase
  <1>6. shown \in Service
    BY <1>1, <1>2, <1>3, CueFields, BoolFields, OtherFields, ZenonT(60)
  <1>7. restored = [shown EXCEPT !.foreground = source] BY <1>1 DEF Service
  <1>8. /\ shown.state = phase /\ shown.activeCue = s.foreground.cue
        /\ shown.pendingImage = s.pendingImage
        /\ shown.visualSequence = s.visualSequence
        /\ shown.visualLoads = s.visualLoads /\ shown.updatePending = s.updatePending
        /\ shown.generation = s.generation
    BY <1>1 DEF Service
  <1> HIDE DEF shown, source
  <1>9. restored \in Service BY <1>5, <1>6, <1>7, OtherFields
  <1>10. /\ restored.state = phase /\ restored.activeCue = s.foreground.cue
         /\ restored.foreground = source
         /\ restored.pendingImage = s.pendingImage
         /\ restored.visualSequence = s.visualSequence
         /\ restored.visualLoads = s.visualLoads
         /\ restored.updatePending = s.updatePending
         /\ restored.generation = s.generation
    BY <1>6, <1>7, <1>8 DEF Service
  <1> HIDE DEF restored
  <1>11. Settled(restored, w, op)
    BY <1>4, <1>5, <1>9, <1>10 DEF Settled, Resting, ImagesCounted
  <1>12. Settled(Arm(restored, job), w, op) BY <1>10, <1>11, ArmSettles
  <1>13. /\ Settled(Changed(ApplyScene(Arm(restored, job), FALSE)), w, op)
         /\ InStep(Changed(ApplyScene(Arm(restored, job), FALSE)))
    BY <1>12, ApplySceneSettles, MarksSettle
  <1> QED BY <1>13 DEF CommitAsImage, restored, phase

\* A finished load becomes the source; jobs never have the identity 0.
LEMMA CommitForegroundSettles ==
  ASSUME NEW s, NEW w, NEW op, Settled(s, w, op), s.state = "loading", NEW job \in Job,
         job.tag # 0, NEW kind \in Kinds
  PROVE  /\ Settled(CommitForeground(s, job, kind), w, op)
         /\ InStep(CommitForeground(s, job, kind))
  <1> DEFINE source == [id |-> job.tag, cue |-> job.cue, kind |-> kind,
                        paused |-> s.paused, seekPending |-> FALSE,
                        transportRevision |-> s.transportRevision,
                        seekRevision |-> 0]
             started == [s EXCEPT !.foreground = source]
  <1>1. s \in Service /\ ~s.updatePending BY DEF Settled, Resting
  <1>2. source \in Source /\ source.id # 0 BY <1>1 DEF Source, Service, Job
  <1> HIDE DEF source
  <1>3. started \in Service BY <1>1, <1>2, OtherFields
  <1>4. /\ started.state = s.state /\ started.foreground = source
        /\ started.pendingImage = s.pendingImage
        /\ started.visualSequence = s.visualSequence
        /\ started.visualLoads = s.visualLoads
        /\ started.updatePending = s.updatePending
        /\ started.generation = s.generation
    BY <1>1 DEF Service
  <1> HIDE DEF started
  <1>5. Settled(started, w, op)
    BY <1>1, <1>2, <1>3, <1>4 DEF Settled, Resting, ImagesCounted
  <1>6. Settled(Arm(started, job), w, op) BY <1>1, <1>4, <1>5, ArmSettles
  <1>7. \A x : Settled(x, w, op) => /\ Settled(Changed(ApplyScene(x, FALSE)), w, op)
                                /\ InStep(Changed(ApplyScene(x, FALSE)))
    BY ApplySceneSettles, MarksSettle
  <1> QED BY <1>5, <1>6, <1>7 DEF CommitForeground, started, source

\* A finished image job leaves nothing pending and nothing queued.
LEMMA PendingSettles ==
  ASSUME NEW s, NEW w, NEW op, Settled(s, w, op), w # NoJob, w.tag = s.visualSequence,
         NEW t \in Service,
         t.state = s.state, t.foreground = s.foreground, t.activeCue = s.activeCue,
         t.pendingImage = NoCue, t.visualSequence = s.visualSequence,
         t.visualLoads = s.visualLoads, t.updatePending = s.updatePending,
         t.generation = s.generation
  PROVE  Settled(t, NoJob, op) /\ ~t.updatePending
  <1>1. t.visualSequence \in Nat /\ NoJob.tag = 0 BY DEF Service, NoJob
  <1>2. s.pendingImage # NoCue /\ ~s.updatePending BY DEF Settled, ImagesCounted
  <1>3. s.visualLoads = NoJob
    <2>1. s.visualSequence \in Nat BY <1>1
    <2> QED BY <2>1 DEF Settled, ImagesCounted
  <1> QED BY <1>1, <1>2, <1>3 DEF Settled, Resting, ImagesCounted

\* A finished image is shown, and its worker is free.
LEMMA CommitVisualSettles ==
  ASSUME NEW s, NEW w \in Job, NEW op, Settled(s, w, op), w # NoJob, w.tag = s.visualSequence
  PROVE  Settled(CommitVisual(s, w), NoJob, op) /\ InStep(CommitVisual(s, w))
  <1> DEFINE t == [s EXCEPT !.image = w.cue, !.imageCue = w.cue, !.pendingImage = NoCue]
  <1>1. s \in Service BY DEF Settled
  <1>2. NoCue \in CueRef /\ w.cue \in CueRef BY DEF CueRef, Job
  <1>3. t \in Service BY <1>1, <1>2, CueFields, ZenonT(30)
  <1>4. /\ t.state = s.state /\ t.foreground = s.foreground /\ t.activeCue = s.activeCue
        /\ t.pendingImage = NoCue /\ t.visualSequence = s.visualSequence
        /\ t.visualLoads = s.visualLoads /\ t.updatePending = s.updatePending
        /\ t.generation = s.generation
    BY <1>1 DEF Service
  <1> HIDE DEF t
  <1>5. Settled(t, NoJob, op) /\ ~t.updatePending BY <1>3, <1>4, PendingSettles
  <1>6. Settled(Arm(t, w), NoJob, op) BY <1>5, ArmSettles
  <1>7. /\ Settled(Changed(ApplyScene(Arm(t, w), FALSE)), NoJob, op)
        /\ InStep(Changed(ApplyScene(Arm(t, w), FALSE)))
    BY <1>6, ApplySceneSettles, MarksSettle
  <1> QED BY <1>7 DEF CommitVisual, t

\* Noting that the stage is off preserves Settled.
LEMMA StageLoweredSettles ==
  ASSUME NEW s, NEW w, NEW op, Settled(s, w, op)
  PROVE  /\ Settled([s EXCEPT !.stageEnabled = FALSE], w, op)
         /\ InStep(s) => InStep([s EXCEPT !.stageEnabled = FALSE])
  <1> DEFINE t == [s EXCEPT !.stageEnabled = FALSE]
  <1>1. s \in Service BY DEF Settled
  <1>2. t \in Service BY <1>1, BoolFields
  <1>3. /\ t.state = s.state /\ t.foreground = s.foreground /\ t.activeCue = s.activeCue
        /\ t.pendingImage = s.pendingImage /\ t.visualSequence = s.visualSequence
        /\ t.visualLoads = s.visualLoads /\ t.updatePending = s.updatePending
        /\ t.stageEnabled = FALSE /\ t.stageDesired = s.stageDesired
        /\ t.generation = s.generation /\ t.scene = s.scene
    BY <1>1 DEF Service
  <1> HIDE DEF t
  <1>4. Settled(t, w, op) BY <1>2, <1>3 DEF Settled, Resting, ImagesCounted
  <1> QED BY <1>3, <1>4 DEF InStep, t

\* What the renderer may say about the stage: shown only if the scene it holds
\* under that revision shows it.
Honest(s, e) ==
  /\ e.sceneRevision # 0
  /\ e.sceneRevision = s.sceneRevision /\ e.stageEnabled => s.scene.stage

\* Noting what the renderer says of the stage, if it may say so.
LEMMA StageReportSettles ==
  ASSUME NEW s, NEW w, NEW op, Settled(s, w, op), InStep(s), NEW e \in Event, Honest(s, e),
         e.sceneRevision = s.sceneRevision, NEW pending \in BOOLEAN
  PROVE  /\ Settled([s EXCEPT !.stageEnabled = e.stageEnabled,
                             !.stageEnablePending = pending], w, op)
         /\ InStep([s EXCEPT !.stageEnabled = e.stageEnabled,
                            !.stageEnablePending = pending])
  <1> DEFINE t == [s EXCEPT !.stageEnabled = e.stageEnabled,
                            !.stageEnablePending = pending]
  <1>1. s \in Service /\ e.stageEnabled \in BOOLEAN BY DEF Settled, Event
  <1>2. t \in Service BY <1>1, BoolFields, ZenonT(30)
  <1>3. /\ t.state = s.state /\ t.foreground = s.foreground /\ t.activeCue = s.activeCue
        /\ t.pendingImage = s.pendingImage /\ t.visualSequence = s.visualSequence
        /\ t.visualLoads = s.visualLoads /\ t.updatePending = s.updatePending
        /\ t.stageEnabled = e.stageEnabled /\ t.stageDesired = s.stageDesired
        /\ t.generation = s.generation /\ t.scene = s.scene
    BY <1>1 DEF Service
  <1>4. t.stageEnabled => t.stageDesired BY <1>3 DEF Honest, InStep
  <1> HIDE DEF t
  <1>5. Settled(t, w, op) BY <1>2, <1>3, <1>4 DEF Settled, Resting, ImagesCounted
  <1> QED BY <1>3, <1>5 DEF InStep, t

\* The stage part of a foreground event preserves Settled.
LEMMA NoteStageSettles ==
  ASSUME NEW s, NEW w, NEW op, Settled(s, w, op), InStep(s), NEW e \in Event, Honest(s, e)
  PROVE  Settled(NoteStage(s, e), w, op) /\ InStep(NoteStage(s, e))
  <1> DEFINE pending == s.stageEnablePending /\ ~e.stageEnabled
  <1>1. pending \in BOOLEAN OBVIOUS
  <1>2. CASE e.sceneRevision = s.sceneRevision
    <2>1. NoteStage(s, e) = [s EXCEPT !.stageEnabled = e.stageEnabled,
                                      !.stageEnablePending = pending]
      BY <1>2, Zenon DEF NoteStage
    <2> HIDE DEF pending
    <2>2. /\ Settled([s EXCEPT !.stageEnabled = e.stageEnabled,
                               !.stageEnablePending = pending], w, op)
          /\ InStep([s EXCEPT !.stageEnabled = e.stageEnabled,
                              !.stageEnablePending = pending])
      BY <1>1, <1>2, StageReportSettles, Zenon
    <2> QED BY <2>1, <2>2, Zenon
  <1>3. CASE e.sceneRevision # s.sceneRevision
    BY <1>3 DEF NoteStage, Honest
  <1> QED BY <1>2, <1>3

\* A lost output preserves Settled.
LEMMA FaultSettles ==
  ASSUME NEW s, NEW w \in Job, NEW op, Settled(s, w, op)
  PROVE  /\ Settled(Fail([s EXCEPT !.outputFault = TRUE]), w, op)
         /\ InStep(Fail([s EXCEPT !.outputFault = TRUE]))
  <1> DEFINE t == [s EXCEPT !.outputFault = TRUE]
  <1>1. s \in Service BY DEF Settled
  <1>2. t \in Service BY <1>1, BoolFields
  <1>3. Kept(s, t) /\ t.generation = s.generation BY <1>1 DEF Kept, Service
  <1> HIDE DEF t
  <1>4. Settled(t, w, op) BY <1>2, <1>3, KeptSteady
  <1>5. Settled(Fail(t), w, op) /\ InStep(Fail(t)) BY <1>4, FailSettles
  <1> QED BY <1>5 DEF t

\* An acknowledgement of playing or paused preserves Settled.
LEMMA AckSettles ==
  ASSUME NEW s, NEW w, NEW op, Settled(s, w, op), InStep(s), NEW kind \in {"playing", "paused"},
         s.state \in {"loading", "playing", "paused"}
  PROVE  LET acked == [s EXCEPT !.state = kind, !.seekPending = FALSE,
                                !.foreground.seekPending = FALSE]
         IN  Settled(Changed(acked), w, op) /\ InStep(Changed(acked))
  <1> DEFINE source == [s.foreground EXCEPT !.seekPending = FALSE]
             noted == [s EXCEPT !.state = kind, !.seekPending = FALSE]
             acked == [s EXCEPT !.state = kind, !.seekPending = FALSE,
                                !.foreground.seekPending = FALSE]
  <1>1. s \in Service /\ ~s.updatePending BY DEF Settled, Resting
  <1>2. s.foreground \in Source /\ kind \in Phases BY <1>1 DEF Service, Phases
  <1>3. noted \in Service BY <1>1, <1>2, BoolFields, OtherFields, ZenonT(30)
  <1>4. source \in Source BY <1>2, SourceFields
  <1>5. source.id = s.foreground.id /\ source.cue = s.foreground.cue BY <1>2 DEF Source
  <1>6. acked = [noted EXCEPT !.foreground = source] BY <1>1 DEF Service
  <1>7. /\ noted.state = kind
        /\ noted.pendingImage = s.pendingImage
        /\ noted.visualSequence = s.visualSequence
        /\ noted.visualLoads = s.visualLoads /\ noted.updatePending = s.updatePending
        /\ noted.stageDesired = s.stageDesired
        /\ noted.generation = s.generation /\ noted.scene = s.scene
    BY <1>1 DEF Service
  <1> HIDE DEF noted, source
  <1>8. acked \in Service BY <1>3, <1>4, <1>6, OtherFields
  <1>9. /\ acked.state = kind /\ acked.foreground = source
        /\ acked.pendingImage = s.pendingImage
        /\ acked.visualSequence = s.visualSequence
        /\ acked.visualLoads = s.visualLoads /\ acked.updatePending = s.updatePending
        /\ acked.stageDesired = s.stageDesired
        /\ acked.generation = s.generation /\ acked.scene = s.scene
    BY <1>3, <1>6, <1>7 DEF Service
  <1> HIDE DEF acked
  <1>10. Settled(acked, w, op) /\ InStep(acked)
    BY <1>1, <1>5, <1>8, <1>9 DEF Settled, Resting, ImagesCounted, InStep
  <1>11. Settled(Changed(acked), w, op) /\ InStep(Changed(acked)) BY <1>10, MarksSettle
  <1> QED BY <1>11 DEF acked

\* The natural end of a source preserves Settled.
LEMMA EndSettles ==
  ASSUME NEW s, NEW w, NEW op, Settled(s, w, op)
  PROVE  LET ended == [ClearActive(s) EXCEPT !.foreground = NoSource, !.state = "stopped"]
         IN  /\ Settled(Changed(ApplyScene(ended, FALSE)), w, op)
             /\ InStep(Changed(ApplyScene(ended, FALSE)))
  <1> DEFINE c == ClearActive(s)
             bare == [c EXCEPT !.foreground = NoSource]
             ended == [c EXCEPT !.foreground = NoSource, !.state = "stopped"]
  <1>1. s \in Service BY DEF Settled
  <1>0. \A x \in Service : ClearActive(x).activeCue = NoCue BY DEF ClearActive, Service
  <1>2. Settled(c, w, op) /\ c \in Service /\ c.activeCue = NoCue
    BY <1>0, <1>1, ClearActiveSettles, ClearActiveType
  <1> HIDE DEF c
  <1>3. bare \in Service BY <1>2, NoSourceType, OtherFields
  <1>4. /\ bare.state = c.state /\ bare.foreground = NoSource
        /\ bare.activeCue = c.activeCue
        /\ bare.pendingImage = c.pendingImage
        /\ bare.visualSequence = c.visualSequence
        /\ bare.visualLoads = c.visualLoads /\ bare.stageDesired = c.stageDesired
        /\ bare.stageEnabled = c.stageEnabled /\ bare.updatePending = c.updatePending
        /\ bare.generation = c.generation
    BY <1>2 DEF Service
  <1>5. NoSource.id = 0 /\ NoSource.cue = NoCue BY DEF NoSource
  <1>6. ended = [bare EXCEPT !.state = "stopped"] BY Zenon
  <1> HIDE DEF bare
  <1>7. Settled(bare, w, op)
    BY <1>2, <1>3, <1>4, <1>5 DEF Settled, Resting, ImagesCounted
  <1>8. Settled(ended, w, op) BY <1>2, <1>4, <1>5, <1>6, <1>7, RestSettles
  <1> HIDE DEF ended
  <1>9. /\ Settled(Changed(ApplyScene(ended, FALSE)), w, op)
        /\ InStep(Changed(ApplyScene(ended, FALSE)))
    BY <1>8, ApplySceneSettles, MarksSettle
  <1> QED BY <1>9 DEF ended, c

\* The switch at the end of nativeEvent preserves Settled.
LEMMA FollowSettles ==
  ASSUME NEW s, NEW w \in Job, NEW op, Settled(s, w, op), InStep(s), NEW e \in Event
  PROVE  Settled(Follow(s, e), w, op) /\ InStep(Follow(s, e))
  <1>1. CASE e.kind \in {"playing", "paused"}
    <2> DEFINE acked == [s EXCEPT !.state = e.kind, !.seekPending = FALSE,
                                  !.foreground.seekPending = FALSE]
    <2>1. CASE /\ s.state \in {"loading", "playing", "paused"}
               /\ (e.kind = "paused") = s.paused
      <3>1. Settled(Changed(acked), w, op) /\ InStep(Changed(acked))
        BY <1>1, <2>1, AckSettles
      <3>2. Follow(s, e) = Changed(acked) BY <1>1, <2>1 DEF Follow
      <3> QED BY <3>1, <3>2
    <2>2. CASE ~(/\ s.state \in {"loading", "playing", "paused"}
                 /\ (e.kind = "paused") = s.paused)
      BY <1>1, <2>2 DEF Follow
    <2> QED BY <2>1, <2>2
  <1>2. CASE e.kind = "progress" BY <1>2, MarksSettle DEF Follow
  <1>3. CASE e.kind = "ended" BY <1>3, EndSettles DEF Follow
  <1>4. CASE e.kind = "stopped"
    <2> DEFINE t == [s EXCEPT !.state = "stopped"]
    <2>1. CASE s.state \in {"stopping", "stopped"}
      <3>1. s \in Service /\ s.foreground.id = 0 /\ s.activeCue = NoCue
        BY <2>1 DEF Settled, Resting
      <3>2. Settled(t, w, op) BY <3>1, RestSettles
      <3>3. t.scene = s.scene /\ t.stageDesired = s.stageDesired
        BY <3>1 DEF Service
      <3>4. InStep(t) BY <3>3 DEF InStep
      <3> HIDE DEF t
      <3>5. Settled(Changed(t), w, op) /\ InStep(Changed(t)) BY <3>2, <3>4, MarksSettle
      <3> QED BY <1>4, <2>1, <3>5 DEF Follow, t
    <2>2. CASE s.state \notin {"stopping", "stopped"} BY <1>4, <2>2 DEF Follow
    <2> QED BY <2>1, <2>2
  <1>5. CASE e.kind = "error" BY <1>5, FailSettles DEF Follow
  <1>6. CASE e.kind = "device-lost" BY <1>6, FaultSettles DEF Follow
  <1>7. CASE e.kind \notin {"playing", "paused", "progress", "ended", "stopped",
                            "error", "device-lost"}
    BY <1>7 DEF Follow
  <1> QED BY <1>1, <1>2, <1>3, <1>4, <1>5, <1>6, <1>7

\* Escape pressed on the host preserves Settled.
LEMMA EscapeSettles ==
  ASSUME NEW s, NEW w \in Job, NEW op, Settled(s, w, op)
  PROVE  Settled(Escape(s), w, op) /\ InStep(Escape(s))
  <1> DEFINE t == StopForeground(Disarm(s), TRUE, TRUE)
  <1>1. Settled(t, w, op) /\ InStep(t) BY DisarmSettles, StopForegroundSettles
  <1> HIDE DEF t
  <1> DEFINE lowered == [t EXCEPT !.stageEnabled = FALSE]
  <1>2. Settled(lowered, w, op) /\ InStep(lowered) BY <1>1, StageLoweredSettles, Zenon
  <1> HIDE DEF lowered
  <1>3. Settled(Changed(lowered), w, op) /\ InStep(Changed(lowered)) BY <1>2, MarksSettle
  <1> QED BY <1>3 DEF Escape, t, lowered

\* No honest event of the renderer disturbs a settled service.
LEMMA NativeEventSettles ==
  ASSUME NEW s, NEW w \in Job, NEW op, Settled(s, w, op), InStep(s), NEW e \in Event,
         e.kind = "escape" \/ Honest(s, e)
  PROVE  Settled(NativeEvent(s, e), w, op) /\ InStep(NativeEvent(s, e))
  <1> DEFINE t == NativeEvent(s, e)
  <1>1. CASE s.closed BY <1>1 DEF NativeEvent
  <1>2. CASE ~s.closed /\ e.kind = "devices"
    <2>1. t = Changed(s) BY <1>2 DEF NativeEvent, Lost, GlobalError
    <2> QED BY <2>1, MarksSettle
  <1>3. CASE ~s.closed /\ e.kind = "escape"
    <2>1. t = Escape(s) BY <1>3 DEF NativeEvent, Lost, GlobalError
    <2> QED BY <2>1, EscapeSettles
  <1>4. CASE ~s.closed /\ e.kind \in {"stage", "background-error"}
    <2> DEFINE shown == [s EXCEPT !.stageEnabled = e.stageEnabled,
                                  !.stageEnablePending = FALSE]
    <2>1. CASE e.sceneRevision = s.sceneRevision
      <3>1. Settled(shown, w, op) /\ InStep(shown)
        BY <1>4, <2>1, StageReportSettles, ZenonT(30)
      <3>2. t = Changed(shown) BY <1>4, <2>1 DEF NativeEvent, Lost, GlobalError
      <3> HIDE DEF shown
      <3>3. Settled(Changed(shown), w, op) /\ InStep(Changed(shown)) BY <3>1, MarksSettle
      <3> QED BY <3>2, <3>3
    <2>2. CASE e.sceneRevision # s.sceneRevision
      BY <1>4, <2>2 DEF NativeEvent, Lost, GlobalError
    <2> QED BY <2>1, <2>2
  <1>5. CASE ~s.closed /\ Lost(s, e)
    <2>1. t = Fail([s EXCEPT !.outputFault = TRUE])
      BY <1>5 DEF NativeEvent, Lost, GlobalError
    <2> QED BY <2>1, FaultSettles
  <1>6. CASE ~s.closed /\ GlobalError(s, e)
    <2>1. t = Fail(s) BY <1>6 DEF NativeEvent, Lost, GlobalError
    <2> QED BY <2>1, FailSettles
  <1>7. CASE /\ ~s.closed /\ e.kind \notin {"devices", "escape", "stage", "background-error"}
             /\ ~Lost(s, e) /\ ~GlobalError(s, e)
    <2>1. t = IF Fresh(s, e) THEN Follow(NoteStage(s, e), e) ELSE s
      BY <1>7 DEF NativeEvent
    <2>2. Settled(NoteStage(s, e), w, op) /\ InStep(NoteStage(s, e))
      BY <1>7, NoteStageSettles
    <2>3. /\ Settled(Follow(NoteStage(s, e), e), w, op)
          /\ InStep(Follow(NoteStage(s, e), e))
      BY <2>2, FollowSettles
    <2> QED BY <2>1, <2>3
  <1> QED BY <1>1, <1>2, <1>3, <1>4, <1>5, <1>6, <1>7

\* A stopped service is in a resting phase.
LEMMA StopForegroundRests ==
  ASSUME NEW s \in Service, NEW clearImage \in BOOLEAN, NEW hard \in BOOLEAN
  PROVE  /\ Resting(StopForeground(s, clearImage, hard))
         /\ StopForeground(s, clearImage, hard) \in Service
  <1> DEFINE halted == [ClearActive(Invalidate(s)) EXCEPT
                          !.stopEpoch = @ + 1, !.foreground = NoSource]
             cleared == IF clearImage THEN ClearImage(halted) ELSE halted
             quiet == [cleared EXCEPT !.state = "stopping"]
  <1>1. ClearActive(Invalidate(s)) \in Service BY InvalidateType, ClearActiveType
  <1>2. ClearActive(Invalidate(s)).stopEpoch + 1 \in Nat BY <1>1 DEF Service
  <1>3. halted \in Service
    BY <1>1, <1>2, NoSourceType, NatFields, OtherFields, ZenonT(30)
  <1>4. cleared \in Service BY <1>3, ClearImageType
  <1> HIDE DEF cleared
  <1>5. quiet \in Service BY <1>4, OtherFields DEF Phases
  <1>6. quiet.state = "stopping" BY <1>4 DEF Service
  <1> HIDE DEF quiet
  <1>7. \A x \in Service : Changed(ApplyScene(x, hard)).state = x.state
    <2>1. \A x \in Service : ApplyScene(x, hard) \in Service BY ApplySceneType
    <2>2. \A x \in Service : ApplyScene(x, hard).state = x.state
      BY DEF ApplyScene, Service
    <2>3. \A x \in Service : Changed(x).state = x.state BY DEF Changed, Service
    <2> QED BY <2>1, <2>2, <2>3
  <1>8. Changed(ApplyScene(quiet, hard)) \in Service BY <1>5, ApplySceneType, MarkType
  <1> QED BY <1>5, <1>6, <1>7, <1>8 DEF StopForeground, Resting, quiet, cleared

\* The renderer refusing the last scene changes a resting phase to "error".
LEMMA HaltedSettles ==
  ASSUME NEW s, NEW w, NEW op, Settled(s, w, op), InStep(s), Resting(s), NEW t \in Halted(s)
  PROVE  Settled(t, w, op) /\ InStep(t)
  <1> DEFINE broken == [s EXCEPT !.state = "error"]
  <1>1. s \in Service /\ s.foreground.id = 0 /\ s.activeCue = NoCue BY DEF Settled
  <1>2. Settled(broken, w, op) BY <1>1, RestSettles
  <1>3. InStep(broken) BY <1>1 DEF InStep, Service
  <1> HIDE DEF broken
  <1>4. t = s \/ t = broken BY DEF Halted, broken
  <1> QED BY <1>2, <1>3, <1>4

\* STOP as a command: stopped, then possibly refused by the renderer.
LEMMA HaltingSettles ==
  ASSUME NEW s, NEW w \in Job, NEW op, Settled(s, w, op),
         NEW clearImage \in BOOLEAN, NEW hard \in BOOLEAN,
         NEW t \in Halted(StopForeground(s, clearImage, hard))
  PROVE  Settled(t, w, op) /\ InStep(t)
  <1>1. s \in Service BY DEF Settled
  <1>2. Resting(StopForeground(s, clearImage, hard)) BY <1>1, StopForegroundRests
  <1> QED BY <1>2, StopForegroundSettles, HaltedSettles

\* Which operation holds editMu matters to a reserved service only.
LEMMA OperationSettles ==
  ASSUME NEW s, NEW w, NEW op, NEW next, Settled(s, w, op),
         op # NoEdit \/ ~s.updatePending \/ next = NoEdit
  PROVE  Settled(s, w, next)
  BY DEF Settled

-----------------------------------------------------------------------------
(* The actions. *)

\* To re-establish the invariant an action shows what it did to the service
\* and that what it wrote elsewhere is well formed.
LEMMA Reassemble ==
  ASSUME config' \in Config, loader' \in Job, imageWorker' \in Job,
         backgroundWorker' \in Job, edit' \in Edit, stageCalls' \in StageCalls,
         Settled(svc', imageWorker', edit'), InStep(svc')
  PROVE  ReservationInv'
  BY DEF ReservationInv, TypeOK, StageCalls, Settled, InStep

\* What the invariant says, in the form the steps below use.
LEMMA Disassemble ==
  ASSUME ReservationInv
  PROVE  /\ svc \in Service /\ config \in Config /\ loader \in Job
         /\ imageWorker \in Job /\ backgroundWorker \in Job /\ edit \in Edit
         /\ stageCalls \in StageCalls
         /\ Settled(svc, imageWorker, edit) /\ InStep(svc)
         /\ Settled(Enter(svc), imageWorker, edit) /\ InStep(Enter(svc))
         /\ Settled(Input(svc), imageWorker, edit) /\ InStep(Input(svc))
  <1>1. Settled(svc, imageWorker, edit) /\ InStep(svc) BY DEF ReservationInv, InStep
  <1> QED BY <1>1, MarksSettle DEF ReservationInv, TypeOK, StageCalls

\* An action that writes nothing but the service.
LEMMA CommandKeeps ==
  ASSUME ReservationInv, CommandOnly, Settled(svc', imageWorker, edit), InStep(svc')
  PROVE  ReservationInv'
  <1>1. /\ config' = config /\ loader' = loader /\ imageWorker' = imageWorker
        /\ backgroundWorker' = backgroundWorker /\ edit' = edit
        /\ stageCalls' = stageCalls
    BY DEF CommandOnly, workers
  <1> QED BY <1>1, Disassemble, Reassemble

\* Controller commands, STOP and Close.
LEMMA CommandsKeep ==
  ASSUME ReservationInv, Commands
  PROVE  ReservationInv'
  <1> DEFINE s == Input(svc)
  <1>1. /\ svc \in Service /\ imageWorker \in Job /\ config \in Config
        /\ Settled(s, imageWorker, edit) /\ InStep(s)
    BY Disassemble
  <1>2. s \in Service /\ s.updatePending = svc.updatePending
    BY <1>1, MarksKeep DEF Settled, Kept
  <1> HIDE DEF s
  <1>3. CASE SetMasterVolume
    <2>1. svc' = Changed(ApplyScene(s, FALSE)) /\ CommandOnly
      BY <1>3 DEF SetMasterVolume, s
    <2>2. Settled(svc', imageWorker, edit) /\ InStep(svc')
      BY <1>1, <2>1, ApplySceneSettles, MarksSettle
    <2> QED BY <2>1, <2>2, CommandKeeps
  <1>4. CASE PauseOrResume
    <2>1. PICK paused \in BOOLEAN : svc' = SetPaused(s, paused) /\ CommandOnly
      BY <1>4 DEF PauseOrResume, s
    <2>2. Settled(svc', imageWorker, edit) /\ InStep(svc')
      BY <1>1, <2>1, SetPausedSettles
    <2> QED BY <2>1, <2>2, CommandKeeps
  <1>5. CASE Seek
    <2>1. svc' = SetPosition(s) /\ CommandOnly BY <1>5 DEF Seek, s
    <2>2. Settled(svc', imageWorker, edit) /\ InStep(svc')
      BY <1>1, <2>1, SetPositionSettles
    <2> QED BY <2>1, <2>2, CommandKeeps
  <1>6. CASE PressImageAgain
    <2>1. svc' = StopImage(s) /\ CommandOnly BY <1>6 DEF PressImageAgain, s
    <2>2. Settled(svc', imageWorker, edit) /\ InStep(svc')
      BY <1>1, <2>1, StopImageSettles
    <2> QED BY <2>1, <2>2, CommandKeeps
  <1>7. CASE PressForegroundAgain
    <2>1. svc' = SetPaused(s, ~svc.paused) /\ CommandOnly
      BY <1>7 DEF PressForegroundAgain, s
    <2> DEFINE paused == ~svc.paused
    <2>2. paused \in BOOLEAN OBVIOUS
    <2>3. svc' = SetPaused(s, paused) BY <2>1
    <2> HIDE DEF paused
    <2>4. Settled(svc', imageWorker, edit) /\ InStep(svc')
      BY <1>1, <2>2, <2>3, SetPausedSettles
    <2> QED BY <2>1, <2>4, CommandKeeps
  <1>8. CASE PressBackgroundAgain
    <2>1. svc' = Changed(ClearBackgroundOverride(s, config)) /\ CommandOnly
      BY <1>8 DEF PressBackgroundAgain, s
    <2>2. Settled(svc', imageWorker, edit) /\ InStep(svc')
      BY <1>1, <2>1, ClearOverrideSettles, MarksSettle
    <2> QED BY <2>1, <2>2, CommandKeeps
  <1>9. CASE PressBackground
    <2>1. PICK cue \in Cues :
            /\ svc' = Changed(SelectBackground([s EXCEPT !.backgroundOverride = cue],
                                               config.cues, cue))
            /\ CommandOnly
      BY <1>9 DEF PressBackground, s
    <2> DEFINE t == [s EXCEPT !.backgroundOverride = cue]
    <2>2. cue \in CueRef BY DEF CueRef
    <2>3. t \in Service BY <1>2, <2>2, CueFields
    <2>4. Kept(s, t) /\ t.generation = s.generation /\ t.scene = s.scene
      BY <1>2 DEF Kept, Service
    <2>5. svc' = Changed(SelectBackground(t, config.cues, cue)) BY <2>1
    <2> HIDE DEF t
    <2>6. Settled(t, imageWorker, edit) /\ InStep(t) BY <1>1, <2>3, <2>4, KeptSteady
    <2>7. Settled(svc', imageWorker, edit) /\ InStep(svc')
      BY <2>2, <2>5, <2>6, SelectBackgroundSettles, MarksSettle
    <2> QED BY <2>1, <2>7, CommandKeeps
  <1>10. CASE PressImage
    <2>1. PICK cue \in Cues : /\ ~svc.updatePending
                              /\ svc' = Changed(SelectImage(s, cue))
                              /\ CommandOnly
      BY <1>10 DEF PressImage, Pressed, Admitted, s
    <2>2. Settled(svc', imageWorker, edit) /\ InStep(svc')
      BY <1>1, <1>2, <2>1, SelectImageSettles, MarksSettle
    <2> QED BY <2>1, <2>2, CommandKeeps
  <1>11. CASE PressForeground
    <2>1. PICK cue \in Cues : /\ ~svc.updatePending
                              /\ svc' = SelectForeground(s, cue)
                              /\ CommandOnly
      BY <1>11 DEF PressForeground, Pressed, Admitted, s
    <2>2. cue \in CueRef BY DEF CueRef
    <2>3. Settled(svc', imageWorker, edit) /\ InStep(svc')
      BY <1>1, <1>2, <2>1, <2>2, SelectForegroundSettles
    <2> QED BY <2>1, <2>3, CommandKeeps
  <1>12. CASE Stop
    <2>1. svc' \in Halted(StopForeground(s, TRUE, FALSE)) /\ CommandOnly
      BY <1>12 DEF Stop, s
    <2>2. Settled(svc', imageWorker, edit) /\ InStep(svc')
      BY <1>1, <2>1, HaltingSettles
    <2> QED BY <2>1, <2>2, CommandKeeps
  <1>13. CASE EmergencyStop
    <2> DEFINE t == [Disarm(s) EXCEPT !.stageEnabled = FALSE]
    <2>1. svc' \in Halted(StopForeground(t, TRUE, TRUE)) /\ CommandOnly
      BY <1>13 DEF EmergencyStop, s
    <2>2. Settled(t, imageWorker, edit) BY <1>1, DisarmSettles, StageLoweredSettles
    <2> HIDE DEF t
    <2>3. Settled(svc', imageWorker, edit) /\ InStep(svc')
      BY <1>1, <2>1, <2>2, HaltingSettles
    <2> QED BY <2>1, <2>3, CommandKeeps
  <1>14. CASE Close
    <2> DEFINE t == StopForeground(Disarm(s), TRUE, TRUE)
               u == [t EXCEPT !.closed = TRUE]
    <2>1. svc' = u /\ CommandOnly BY <1>14 DEF Close, s
    <2>2. Settled(t, imageWorker, edit) /\ InStep(t)
      BY <1>1, DisarmSettles, StopForegroundSettles
    <2> HIDE DEF t
    <2>3. t \in Service BY <2>2 DEF Settled
    <2>4. u \in Service BY <2>3, BoolFields
    <2>5. Kept(t, u) /\ u.generation = t.generation /\ u.scene = t.scene
      BY <2>3 DEF Kept, Service
    <2> HIDE DEF u
    <2>6. Settled(svc', imageWorker, edit) /\ InStep(svc')
      BY <2>1, <2>2, <2>4, <2>5, KeptSteady
    <2> QED BY <2>1, <2>6, CommandKeeps
  <1> QED BY <1>3, <1>4, <1>5, <1>6, <1>7, <1>8, <1>9, <1>10, <1>11, <1>12, <1>13,
             <1>14 DEF Commands

\* The derived validation cache stays well formed whatever is found.
LEMMA RememberType ==
  ASSUME config \in Config, NEW cue, NEW found \in Findings
  PROVE  Remember(cue, found) \in Config /\ RememberVisual(cue, found) \in Config
  <1>1. Remember(cue, found) \in Config
    <2>1. CASE cue \notin config.cues BY <2>1 DEF Remember
    <2>2. CASE cue \in config.cues /\ found = "gone"
      BY <2>2 DEF Remember, Config
    <2>3. CASE cue \in config.cues /\ found = "broken"
      BY <2>3 DEF Remember, Config
    <2>4. CASE cue \in config.cues /\ found \in Kinds
      <3>1. found # "gone" /\ found # "broken" BY <2>4 DEF Kinds
      <3> QED BY <2>4, <3>1 DEF Remember, Config
    <2> QED BY <2>1, <2>2, <2>3, <2>4 DEF Findings
  <1> QED BY <1>1 DEF RememberVisual

\* The three preparation workers.
LEMMA PreparationKeeps ==
  ASSUME ReservationInv, Preparation
  PROVE  ReservationInv'
  <1> DEFINE s == Enter(svc)
  <1>1. /\ svc \in Service /\ config \in Config /\ loader \in Job
        /\ imageWorker \in Job /\ backgroundWorker \in Job /\ edit \in Edit
        /\ stageCalls \in StageCalls
        /\ Settled(svc, imageWorker, edit) /\ InStep(svc)
        /\ Settled(s, imageWorker, edit) /\ InStep(s)
    BY Disassemble
  <1>2. /\ s \in Service /\ Kept(svc, s) /\ s.generation = svc.generation
    BY <1>1, MarksKeep DEF Settled
  <1>3. NoJob \in Job BY NoJobType
  <1> HIDE DEF s
  <1>4. CASE TakeLoad
    <2> DEFINE t == [svc EXCEPT !.loads = NoJob]
    <2>1. t \in Service /\ svc.loads \in Job BY <1>1, <1>3, JobFields DEF Service
    <2>2. Kept(svc, t) /\ t.generation = svc.generation /\ t.scene = svc.scene
      BY <1>1 DEF Kept, Service
    <2>3. svc' = t BY <1>4 DEF TakeLoad
    <2> HIDE DEF t
    <2>4. Settled(svc', imageWorker, edit) /\ InStep(svc')
      BY <1>1, <2>1, <2>2, <2>3, KeptSteady
    <2>5. /\ loader' \in Job /\ config' = config /\ imageWorker' = imageWorker
          /\ backgroundWorker' = backgroundWorker /\ edit' = edit
          /\ stageCalls' = stageCalls
      BY <1>4, <2>1 DEF TakeLoad
    <2> QED BY <1>1, <2>4, <2>5, Reassemble
  <1>5. CASE FinishLoad
    <2>1. PICK found \in Findings, outputs \in BOOLEAN :
            /\ loader # NoJob /\ LoadIsCurrent(loader)
            /\ config' = Remember(loader.cue, found)
            /\ svc' = CASE found \notin Kinds \/ ~outputs -> Fail(s)
                        [] found = "image" /\ outputs -> CommitAsImage(s, loader)
                        [] found \in {"audio", "video"} /\ outputs ->
                             CommitForeground(s, loader, found)
            /\ loader' = NoJob
            /\ UNCHANGED <<imageWorker, backgroundWorker, edit, stageCalls>>
      BY <1>5 DEF FinishLoad, s
    <2>2. s.state = "loading" /\ loader.tag # 0
      BY <1>1, <1>2, <2>1 DEF LoadIsCurrent, Kept, Settled
    <2>3. ~s.updatePending BY <1>1, <2>2 DEF Settled, Resting
    <2>4. Settled(Fail(s), imageWorker, edit) /\ InStep(Fail(s)) BY <1>1, FailSettles
    <2>5. /\ Settled(CommitAsImage(s, loader), imageWorker, edit)
          /\ InStep(CommitAsImage(s, loader))
      BY <1>1, <2>3, CommitAsImageSettles
    <2>6. \A kind \in Kinds : /\ Settled(CommitForeground(s, loader, kind), imageWorker, edit)
                              /\ InStep(CommitForeground(s, loader, kind))
      BY <1>1, <2>2, CommitForegroundSettles
    <2>7. \/ svc' = Fail(s) \/ svc' = CommitAsImage(s, loader)
          \/ \E kind \in Kinds : svc' = CommitForeground(s, loader, kind)
      BY <2>1 DEF Kinds
    <2>8. Settled(svc', imageWorker, edit) /\ InStep(svc') BY <2>4, <2>5, <2>6, <2>7
    <2>9. config' \in Config BY <1>1, <2>1, RememberType
    <2> QED BY <1>1, <1>3, <2>1, <2>8, <2>9, Reassemble
  <1>6. CASE DropLoad
    <2>1. /\ svc' = svc /\ config' = config /\ loader' = NoJob
          /\ imageWorker' = imageWorker /\ backgroundWorker' = backgroundWorker
          /\ edit' = edit /\ stageCalls' = stageCalls
      BY <1>6 DEF DropLoad
    <2> QED BY <1>1, <1>3, <2>1, Reassemble
  <1>7. CASE TakeImage
    <2> DEFINE t == [svc EXCEPT !.visualLoads = NoJob]
    <2>1. t \in Service /\ svc.visualLoads \in Job
      BY <1>1, <1>3, JobFields DEF Service
    <2>2. /\ t.state = svc.state /\ t.foreground = svc.foreground
          /\ t.activeCue = svc.activeCue /\ t.pendingImage = svc.pendingImage
          /\ t.visualSequence = svc.visualSequence /\ t.visualLoads = NoJob
          /\ t.stageDesired = svc.stageDesired /\ t.stageEnabled = svc.stageEnabled
          /\ t.updatePending = svc.updatePending /\ t.generation = svc.generation
          /\ t.scene = svc.scene
      BY <1>1 DEF Service
    <2>3. /\ svc' = t /\ svc.visualLoads # NoJob /\ imageWorker' = svc.visualLoads
          /\ config' = config /\ loader' = loader
          /\ backgroundWorker' = backgroundWorker /\ edit' = edit
          /\ stageCalls' = stageCalls
      BY <1>7 DEF TakeImage
    <2> HIDE DEF t
    <2>4. svc.visualSequence \in Nat BY <1>1 DEF Service
    <2>5. Settled(t, svc.visualLoads, edit)
      BY <1>1, <2>1, <2>2, <2>3, <2>4 DEF Settled, Resting, ImagesCounted
    <2>6. InStep(t) BY <1>1, <2>2 DEF InStep
    <2> QED BY <1>1, <2>1, <2>3, <2>5, <2>6, Reassemble
  <1>8. CASE FinishImage
    <2> DEFINE t == [s EXCEPT !.pendingImage = NoCue]
    <2>1. PICK found \in Findings, outputs \in BOOLEAN :
            /\ imageWorker # NoJob /\ ImageIsCurrent(imageWorker)
            /\ config' = RememberVisual(imageWorker.cue, found)
            /\ svc' = IF found = "image" /\ outputs THEN CommitVisual(s, imageWorker)
                      ELSE Changed(ApplyScene(t, FALSE))
            /\ imageWorker' = NoJob
            /\ UNCHANGED <<loader, backgroundWorker, edit, stageCalls>>
      BY <1>8 DEF FinishImage, s
    <2>2. imageWorker.tag = s.visualSequence
      BY <1>2, <2>1 DEF ImageIsCurrent, Kept
    <2>3. NoCue \in CueRef BY DEF CueRef
    <2>4. t \in Service BY <1>2, <2>3, CueFields
    <2>5. /\ t.state = s.state /\ t.foreground = s.foreground
          /\ t.activeCue = s.activeCue /\ t.pendingImage = NoCue
          /\ t.visualSequence = s.visualSequence /\ t.visualLoads = s.visualLoads
          /\ t.updatePending = s.updatePending /\ t.generation = s.generation
      BY <1>2 DEF Service
    <2> HIDE DEF t
    <2>6. Settled(t, NoJob, edit) BY <1>1, <2>1, <2>2, <2>4, <2>5, PendingSettles
    <2>7. /\ Settled(Changed(ApplyScene(t, FALSE)), NoJob, edit)
          /\ InStep(Changed(ApplyScene(t, FALSE)))
      BY <2>6, ApplySceneSettles, MarksSettle
    <2>8. /\ Settled(CommitVisual(s, imageWorker), NoJob, edit)
          /\ InStep(CommitVisual(s, imageWorker))
      BY <1>1, <2>1, <2>2, CommitVisualSettles
    <2>9. Settled(svc', NoJob, edit) /\ InStep(svc') BY <2>1, <2>7, <2>8
    <2>10. config' \in Config BY <1>1, <2>1, RememberType
    <2> QED BY <1>1, <1>3, <2>1, <2>9, <2>10, Reassemble
  <1>9. CASE DropImage
    <2>1. /\ svc' = svc /\ config' = config /\ loader' = loader
          /\ imageWorker' = NoJob /\ backgroundWorker' = backgroundWorker
          /\ edit' = edit /\ stageCalls' = stageCalls
      BY <1>9 DEF DropImage
    <2>2. svc.visualSequence \in Nat /\ imageWorker.tag \in Nat /\ NoJob.tag = 0
      BY <1>1 DEF Service, Job, NoJob
    <2>3. Settled(svc, NoJob, edit) BY <1>1, <2>2 DEF Settled, ImagesCounted
    <2> QED BY <1>1, <1>3, <2>1, <2>3, Reassemble
  <1>10. CASE TakeBackground
    <2> DEFINE t == [svc EXCEPT !.backgroundLoads = NoJob]
    <2>1. t \in Service /\ svc.backgroundLoads \in Job
      BY <1>1, <1>3, JobFields DEF Service
    <2>2. Kept(svc, t) /\ t.generation = svc.generation /\ t.scene = svc.scene
      BY <1>1 DEF Kept, Service
    <2>3. svc' = t BY <1>10 DEF TakeBackground
    <2> HIDE DEF t
    <2>4. Settled(svc', imageWorker, edit) /\ InStep(svc')
      BY <1>1, <2>1, <2>2, <2>3, KeptSteady
    <2>5. /\ backgroundWorker' \in Job /\ config' = config /\ loader' = loader
          /\ imageWorker' = imageWorker /\ edit' = edit /\ stageCalls' = stageCalls
      BY <1>10, <2>1 DEF TakeBackground
    <2> QED BY <1>1, <2>4, <2>5, Reassemble
  <1>11. CASE FinishBackground
    <2>1. PICK found \in Findings, outputs \in BOOLEAN :
            /\ config' = RememberVisual(backgroundWorker.cue, found)
            /\ svc' = Changed(ApplyScene(
                        [s EXCEPT !.background =
                           IF found = "image" \/ (found = "video" /\ outputs)
                           THEN backgroundWorker.cue ELSE NoCue],
                        FALSE))
            /\ backgroundWorker' = NoJob
            /\ UNCHANGED <<loader, imageWorker, edit, stageCalls>>
      BY <1>11 DEF FinishBackground, s
    <2> DEFINE cue == IF found = "image" \/ (found = "video" /\ outputs)
                      THEN backgroundWorker.cue ELSE NoCue
               t == [s EXCEPT !.background = cue]
    <2>2. cue \in CueRef BY <1>1 DEF CueRef, Job
    <2>3. svc' = Changed(ApplyScene(t, FALSE)) BY <2>1
    <2> HIDE DEF cue
    <2>4. t \in Service BY <1>2, <2>2, CueFields
    <2>5. Kept(s, t) /\ t.generation = s.generation BY <1>2 DEF Kept, Service
    <2> HIDE DEF t
    <2>6. Settled(t, imageWorker, edit) BY <1>1, <2>4, <2>5, KeptSteady
    <2>7. Settled(svc', imageWorker, edit) /\ InStep(svc')
      BY <2>3, <2>6, ApplySceneSettles, MarksSettle
    <2>8. config' \in Config BY <1>1, <2>1, RememberType
    <2> QED BY <1>1, <1>3, <2>1, <2>7, <2>8, Reassemble
  <1>12. CASE DropBackground
    <2>1. /\ svc' = svc /\ config' = config /\ loader' = loader
          /\ imageWorker' = imageWorker /\ backgroundWorker' = NoJob
          /\ edit' = edit /\ stageCalls' = stageCalls
      BY <1>12 DEF DropBackground
    <2> QED BY <1>1, <1>3, <2>1, Reassemble
  <1> QED BY <1>4, <1>5, <1>6, <1>7, <1>8, <1>9, <1>10, <1>11, <1>12 DEF Preparation

\* Every report the renderer can send is an honest event.
LEMMA ReportsHonest ==
  ASSUME svc \in Service, svc.sceneRevision # 0,
         NEW kinds \in SUBSET {"error", "device-lost", "playing", "paused", "progress",
                               "ended", "stopped", "stage", "background-error"},
         NEW ids \in SUBSET Nat, NEW revisions \in SUBSET Nat,
         NEW e \in Reports(kinds, ids, revisions)
  PROVE  e \in Event /\ Honest(svc, e)
  <1>1. svc.sceneRevision \in Nat BY DEF Service
  <1>2. e.sceneRevision \in Nat /\ e.sceneRevision # 0 BY <1>1 DEF Reports
  <1>3. e \in Event BY <1>2 DEF Reports, Event
  <1>4. Honest(svc, e) BY <1>2 DEF Reports, Honest
  <1> QED BY <1>3, <1>4

\* What any renderer can make of the service, however many inputs are left.
EscapeEvent == [kind |-> "escape", generation |-> svc.scene.generation,
                transportRevision |-> 0, sceneRevision |-> 0, stageEnabled |-> FALSE]

SaysSo ==
  /\ svc.sceneRevision # 0
  /\ \E e \in SourceReports \cup SceneReports : svc' = NativeEvent(Enter(svc), e)
SaysFault ==
  /\ svc.sceneRevision # 0
  /\ \E e \in Failures : svc' = NativeEvent(Input(svc), e)
SaysEscape == svc' = NativeEvent(Input(svc), EscapeEvent)

Reported == CommandOnly /\ (SaysSo \/ SaysFault \/ SaysEscape)

\* Native is that with an input left for what counts as one.
LEMMA NativeIsReported == ASSUME Native PROVE Reported
  <1>1. CASE NativeReport BY <1>1 DEF NativeReport, Reported, SaysSo
  <1>2. CASE NativeFailure BY <1>2 DEF NativeFailure, Reported, SaysFault
  <1>3. CASE NativeEscape BY <1>3 DEF NativeEscape, Reported, SaysEscape, EscapeEvent
  <1> QED BY <1>1, <1>2, <1>3 DEF Native

\* Reports and failures of the renderer, and Escape.
LEMMA ReportedKeeps ==
  ASSUME ReservationInv, Reported
  PROVE  ReservationInv'
  <1>1. /\ svc \in Service /\ imageWorker \in Job
        /\ Settled(Enter(svc), imageWorker, edit) /\ InStep(Enter(svc))
        /\ Settled(Input(svc), imageWorker, edit) /\ InStep(Input(svc))
    BY Disassemble
  <1>2. /\ Enter(svc).scene = svc.scene /\ Enter(svc).sceneRevision = svc.sceneRevision
        /\ Input(svc).scene = svc.scene /\ Input(svc).sceneRevision = svc.sceneRevision
    BY <1>1 DEF Enter, Input, Service
  <1>3. /\ svc.foreground.id \in Nat /\ svc.foreground.transportRevision \in Nat
        /\ svc.scene.generation \in Nat /\ svc.scene.transportRevision \in Nat
    BY <1>1 DEF Service, Source, Scene
  <1>4. CASE SaysSo
    <2>1. PICK e \in SourceReports \cup SceneReports :
            /\ svc.sceneRevision # 0
            /\ svc' = NativeEvent(Enter(svc), e) /\ CommandOnly
      BY <1>4 DEF SaysSo, Reported
    <2>2. e \in Event /\ Honest(svc, e)
      <3>1. CASE e \in SourceReports
        BY <1>1, <1>3, <2>1, <3>1, ReportsHonest DEF SourceReports
      <3>2. CASE e \in SceneReports
        BY <1>1, <1>3, <2>1, <3>2, ReportsHonest DEF SceneReports
      <3> QED BY <2>1, <3>1, <3>2
    <2>3. Honest(Enter(svc), e) BY <1>2, <2>2 DEF Honest
    <2>4. Settled(svc', imageWorker, edit) /\ InStep(svc')
      BY <1>1, <2>1, <2>2, <2>3, NativeEventSettles
    <2> QED BY <2>1, <2>4, CommandKeeps
  <1>5. CASE SaysFault
    <2>1. PICK e \in Failures :
            /\ svc.sceneRevision # 0
            /\ svc' = NativeEvent(Input(svc), e) /\ CommandOnly
      BY <1>5 DEF SaysFault, Reported
    <2>2. e \in Event /\ Honest(svc, e)
      BY <1>1, <1>3, <2>1, ReportsHonest DEF Failures
    <2>3. Honest(Input(svc), e) BY <1>2, <2>2 DEF Honest
    <2>4. Settled(svc', imageWorker, edit) /\ InStep(svc')
      BY <1>1, <2>1, <2>2, <2>3, NativeEventSettles
    <2> QED BY <2>1, <2>4, CommandKeeps
  <1>6. CASE SaysEscape
    <2> DEFINE e == EscapeEvent
    <2>1. svc' = NativeEvent(Input(svc), e) /\ CommandOnly BY <1>6 DEF SaysEscape, Reported
    <2>2. e \in Event /\ e.kind = "escape" BY <1>3 DEF Event, EscapeEvent
    <2> HIDE DEF e
    <2>3. Settled(svc', imageWorker, edit) /\ InStep(svc')
      BY <1>1, <2>1, <2>2, NativeEventSettles
    <2> QED BY <2>1, <2>3, CommandKeeps
  <1> QED BY <1>4, <1>5, <1>6 DEF Reported

\* Reserving the host for an update, and releasing it.
LEMMA UpdateKeeps ==
  ASSUME ReservationInv, Update
  PROVE  ReservationInv'
  <1>1. /\ svc \in Service
        /\ Settled(Enter(svc), imageWorker, edit) /\ InStep(Enter(svc))
        /\ Settled(Input(svc), imageWorker, edit) /\ InStep(Input(svc))
    BY Disassemble
  <1>2. CASE ReserveUpdate
    <2> DEFINE s == Input(svc)
               c == Invalidate(s)
               t == [c EXCEPT !.stopEpoch = @ + 1, !.updatePending = TRUE]
    <2>1. /\ edit = NoEdit /\ svc.state = "stopped" /\ ~svc.stageEnabled
          /\ ~svc.stageDesired /\ svc.pendingImage = NoCue
          /\ svc' = Changed(t) /\ CommandOnly
      BY <1>2 DEF ReserveUpdate
    <2>2. s \in Service /\ Kept(svc, s) BY <1>1, MarksKeep DEF Settled
    <2>3. Kept(s, c) BY <2>2 DEF Kept, Invalidate, Service
    <2>4. Settled(c, imageWorker, edit) /\ InStep(c) BY <1>1, InvalidateSettles
    <2> HIDE DEF s, c
    <2>5. c \in Service BY <2>4 DEF Settled
    <2>6. c.stopEpoch + 1 \in Nat BY <2>5 DEF Service
    <2>7. t \in Service BY <2>5, <2>6, NatFields, BoolFields, ZenonT(30)
    <2>8. /\ t.state = c.state /\ t.foreground = c.foreground
          /\ t.activeCue = c.activeCue /\ t.pendingImage = c.pendingImage
          /\ t.visualSequence = c.visualSequence /\ t.visualLoads = c.visualLoads
          /\ t.stageDesired = c.stageDesired /\ t.stageEnabled = c.stageEnabled
          /\ t.generation = c.generation /\ t.scene = c.scene
      BY <2>5 DEF Service
    <2> HIDE DEF t
    <2>9. /\ c.state = "stopped" /\ ~c.stageEnabled /\ ~c.stageDesired
          /\ c.pendingImage = NoCue
      BY <2>1, <2>2, <2>3 DEF Kept
    <2>10. Settled(t, imageWorker, edit) /\ InStep(t)
      BY <2>1, <2>4, <2>7, <2>8, <2>9 DEF Settled, Resting, ImagesCounted, InStep
    <2>11. Settled(svc', imageWorker, edit) /\ InStep(svc')
      BY <2>1, <2>10, MarksSettle
    <2> QED BY <2>1, <2>11, CommandKeeps
  <1>3. CASE ReleaseUpdate
    <2> DEFINE s == Enter(svc)
               t == [s EXCEPT !.updatePending = FALSE]
    <2>1. svc' = Changed(t) /\ CommandOnly BY <1>3 DEF ReleaseUpdate
    <2>2. s \in Service BY <1>1 DEF Settled
    <2> HIDE DEF s
    <2>3. t \in Service BY <2>2, BoolFields
    <2>4. /\ t.state = s.state /\ t.foreground = s.foreground
          /\ t.activeCue = s.activeCue /\ t.pendingImage = s.pendingImage
          /\ t.visualSequence = s.visualSequence /\ t.visualLoads = s.visualLoads
          /\ ~t.updatePending /\ t.generation = s.generation
          /\ t.stageDesired = s.stageDesired /\ t.scene = s.scene
      BY <2>2 DEF Service
    <2> HIDE DEF t
    <2>5. Settled(t, imageWorker, edit) /\ InStep(t)
      BY <1>1, <2>3, <2>4 DEF Settled, Resting, ImagesCounted, InStep, s
    <2>6. Settled(svc', imageWorker, edit) /\ InStep(svc') BY <2>1, <2>5, MarksSettle
    <2> QED BY <2>1, <2>6, CommandKeeps
  <1> QED BY <1>2, <1>3 DEF Update

\* Stage on and off.
LEMMA StageKeeps ==
  ASSUME ReservationInv, Stage
  PROVE  ReservationInv'
  <1>1. /\ svc \in Service /\ config \in Config /\ loader \in Job
        /\ imageWorker \in Job /\ backgroundWorker \in Job /\ edit \in Edit
        /\ stageCalls \in StageCalls
        /\ Settled(svc, imageWorker, edit) /\ InStep(svc)
        /\ Settled(Enter(svc), imageWorker, edit) /\ InStep(Enter(svc))
        /\ Settled(Input(svc), imageWorker, edit) /\ InStep(Input(svc))
    BY Disassemble
  <1>2. CASE StageOff
    <2> DEFINE d == Disarm(Input(svc))
               t == [d EXCEPT !.stageEnablePending = FALSE]
    <2>1. svc' = Changed(ApplyScene(t, FALSE)) /\ CommandOnly BY <1>2 DEF StageOff
    <2>2. Settled(d, imageWorker, edit) BY <1>1, DisarmSettles
    <2> HIDE DEF d
    <2>3. d \in Service BY <2>2 DEF Settled
    <2>4. t \in Service BY <2>3, BoolFields
    <2>5. Kept(d, t) /\ t.generation = d.generation BY <2>3 DEF Kept, Service
    <2> HIDE DEF t
    <2>6. Settled(t, imageWorker, edit) BY <2>2, <2>4, <2>5, KeptSteady
    <2>7. Settled(svc', imageWorker, edit) /\ InStep(svc')
      BY <2>1, <2>6, ApplySceneSettles, MarksSettle
    <2> QED BY <2>1, <2>7, CommandKeeps
  <1>3. CASE StageOnBegin
    <2> DEFINE s == Input(svc)
               t == [s EXCEPT !.stageSerial = @ + 1]
    <2>1. svc' = t BY <1>3 DEF StageOnBegin
    <2>2. s \in Service BY <1>1 DEF Settled
    <2> HIDE DEF s
    <2>3. s.stageSerial + 1 \in Nat BY <2>2 DEF Service
    <2>4. t \in Service BY <2>2, <2>3, NatFields
    <2>5. Kept(s, t) /\ t.generation = s.generation /\ t.scene = s.scene
      BY <2>2 DEF Kept, Service
    <2> HIDE DEF t
    <2>6. Settled(svc', imageWorker, edit) /\ InStep(svc')
      BY <1>1, <2>1, <2>4, <2>5, KeptSteady DEF s
    <2>7. svc.stageSerial + 1 \in Nat /\ svc.now + 1 \in Nat BY <1>1 DEF Service
    <2>8. stageCalls' \in StageCalls BY <1>1, <1>3, <2>7 DEF StageOnBegin, StageCalls
    <2>9. /\ config' = config /\ loader' = loader /\ imageWorker' = imageWorker
          /\ backgroundWorker' = backgroundWorker /\ edit' = edit
      BY <1>3 DEF StageOnBegin, workers
    <2> QED BY <1>1, <2>6, <2>8, <2>9, Reassemble
  <1>4. CASE StageOnEnd
    <2> DEFINE s == Enter(svc)
    <2>1. PICK call \in stageCalls :
            /\ stageCalls' = stageCalls \ {call} /\ ~svc.updatePending
            /\ svc' = Changed([ApplyScene([s EXCEPT !.stageDesired = TRUE,
                                                    !.armedAt = call.at], FALSE)
                               EXCEPT !.stageEnablePending = TRUE])
            /\ UNCHANGED <<config, workers, edit>>
      BY <1>4 DEF StageOnEnd
    <2> DEFINE shown == [s EXCEPT !.stageDesired = TRUE, !.armedAt = call.at]
               a == ApplyScene(shown, FALSE)
               t == [a EXCEPT !.stageEnablePending = TRUE]
    <2>2. call.at \in Nat BY <1>1 DEF StageCalls
    <2>3. ~s.updatePending BY <1>1, <2>1, MarksKeep DEF Kept
    <2>4. svc' = Changed(t) BY <2>1
    <2> HIDE DEF s
    <2>5. Settled(s, imageWorker, edit) BY <1>1 DEF s
    <2>6. Settled(shown, imageWorker, edit) BY <2>2, <2>3, <2>5, ShownSettles, Zenon
    <2> HIDE DEF shown
    <2>7. Settled(a, imageWorker, edit) /\ InStep(a) BY <2>6, ApplySceneSettles
    <2> HIDE DEF a
    <2>8. a \in Service BY <2>7 DEF Settled
    <2>9. t \in Service BY <2>8, BoolFields
    <2>10. Kept(a, t) /\ t.generation = a.generation /\ t.scene = a.scene
      BY <2>8 DEF Kept, Service
    <2> HIDE DEF t
    <2>11. Settled(svc', imageWorker, edit) /\ InStep(svc')
      BY <2>4, <2>7, <2>9, <2>10, KeptSteady, MarksSettle
    <2>12. /\ config' = config /\ loader' = loader /\ imageWorker' = imageWorker
           /\ backgroundWorker' = backgroundWorker /\ edit' = edit
           /\ stageCalls' \in StageCalls
      BY <1>1, <2>1 DEF workers, StageCalls
    <2> QED BY <1>1, <2>11, <2>12, Reassemble
  <1>5. CASE StageOnRefused
    <2>1. /\ svc' = svc /\ config' = config /\ loader' = loader
          /\ imageWorker' = imageWorker /\ backgroundWorker' = backgroundWorker
          /\ edit' = edit /\ stageCalls' \in StageCalls
      BY <1>1, <1>5 DEF StageOnRefused, workers, StageCalls
    <2> QED BY <1>1, <2>1, Reassemble
  <1> QED BY <1>2, <1>3, <1>4, <1>5 DEF Stage

\* The next show an edit saves is well formed.
LEMMA EditedType ==
  ASSUME config \in Config, edit \in Edit
  PROVE  EditedConfig \in Config
  BY DEF EditedConfig, Config, Edit

\* Edits of the saved show, outputs, stage settings and playlist loading.
LEMMA ShowKeeps ==
  ASSUME ReservationInv, Show
  PROVE  ReservationInv'
  <1> DEFINE s == Enter(svc)
  <1>1. /\ svc \in Service /\ config \in Config /\ loader \in Job
        /\ imageWorker \in Job /\ backgroundWorker \in Job /\ edit \in Edit
        /\ stageCalls \in StageCalls
        /\ Settled(svc, imageWorker, edit) /\ InStep(svc)
        /\ Settled(s, imageWorker, edit) /\ InStep(s)
        /\ Settled(Input(svc), imageWorker, edit) /\ InStep(Input(svc))
    BY Disassemble
  <1>2. s \in Service /\ Input(svc) \in Service BY <1>1 DEF Settled
  <1>3. NoEdit \in Edit /\ NoEdit.op = "none" /\ NoEdit.saving = FALSE
    BY DEF NoEdit, Edit, CueRef
  <1> HIDE DEF s
  \* the frame of an action that ends, or goes on with, the operation under way
  <1>4. ASSUME edit' \in Edit, config' \in Config, UNCHANGED <<workers, stageCalls>>,
               Settled(svc', imageWorker, edit'), InStep(svc')
        PROVE  ReservationInv'
    <2>1. /\ loader' = loader /\ imageWorker' = imageWorker
          /\ backgroundWorker' = backgroundWorker /\ stageCalls' = stageCalls
      BY <1>4 DEF workers
    <2> QED BY <1>1, <1>4, <2>1, Reassemble
  <1>5. ASSUME NEW op \in {"playlist", "stage", "load"}, Begin(op)
        PROVE  ReservationInv'
    <2>1. /\ ~svc.updatePending /\ svc' = Input(svc) /\ config' = config
          /\ edit' = [NoEdit EXCEPT !.op = op] /\ UNCHANGED <<workers, stageCalls>>
      BY <1>5 DEF Begin
    <2>2. edit' \in Edit BY <1>3, <2>1 DEF Edit
    <2>3. ~Input(svc).updatePending BY <1>1, <2>1, MarksKeep DEF Kept
    <2>4. Settled(svc', imageWorker, edit') /\ InStep(svc')
      BY <1>1, <2>1, <2>3, OperationSettles
    <2> QED BY <1>1, <1>4, <2>1, <2>2, <2>4
  <1>6. CASE Refuse
    <2>1. /\ svc' = svc /\ config' = config /\ edit' = NoEdit
          /\ UNCHANGED <<workers, stageCalls>>
      BY <1>6 DEF Refuse
    <2>2. Settled(svc', imageWorker, edit') BY <1>1, <2>1, OperationSettles
    <2> QED BY <1>1, <1>3, <1>4, <2>1, <2>2
  <1>7. CASE SaveFailed
    <2> DEFINE removing == IF edit.op = "playlist" THEN {} ELSE s.removing
               busy == s.configBusy /\ edit.op \notin {"outputs", "load"}
               t == [s EXCEPT !.removing = removing, !.configBusy = busy]
    <2>1. removing \in SUBSET Cues /\ busy \in BOOLEAN BY <1>2 DEF Service
    <2>2. /\ config' = config /\ edit' = NoEdit /\ UNCHANGED <<workers, stageCalls>>
      BY <1>7 DEF SaveFailed
    <2>3. svc' = [s EXCEPT !.removing = IF edit.op = "playlist" THEN {} ELSE @,
                           !.configBusy = @ /\ edit.op \notin {"outputs", "load"}]
      BY <1>7, Zenon DEF SaveFailed, s
    <2>4. svc' = t BY <2>3, Zenon
    <2> HIDE DEF removing, busy
    <2>5. t \in Service BY <1>2, <2>1, BoolFields, OtherFields, ZenonT(30)
    <2>6. Kept(s, t) /\ t.generation = s.generation /\ t.scene = s.scene
      BY <1>2 DEF Kept, Service
    <2> HIDE DEF t
    <2>7. Settled(svc', imageWorker, edit) /\ InStep(svc')
      BY <1>1, <2>4, <2>5, <2>6, KeptSteady
    <2>8. Settled(svc', imageWorker, edit') BY <2>2, <2>7, OperationSettles
    <2> QED BY <1>1, <1>3, <1>4, <2>2, <2>7, <2>8
  <1>8. CASE BeginPlaylist BY <1>5, <1>8 DEF BeginPlaylist
  <1>9. CASE PreparePlaylist
    <2>1. PICK kept \in SUBSET config.cues, added \in SUBSET (Cues \ config.used) :
            \E replaced \in SUBSET kept, buttons \in SUBSET (kept \cup added),
               rescale \in BOOLEAN :
              /\ edit.op = "playlist" /\ ~edit.saving
              /\ {svc.activeCue, svc.imageCue, svc.pendingImage}
                   \cap Removed(kept, replaced) = {}
              /\ edit' = [edit EXCEPT
                   !.saving = TRUE, !.cues = kept \cup added, !.buttons = buttons,
                   !.default = IF config.defaultBackground \in Removed(kept, replaced)
                               THEN NoCue ELSE config.defaultBackground,
                   !.rescale = rescale]
              /\ svc' = [Enter(svc) EXCEPT !.removing = Removed(kept, replaced)]
              /\ UNCHANGED <<config, workers, stageCalls>>
      BY <1>9, Zenon DEF PreparePlaylist
    <2>2. PICK replaced \in SUBSET kept, buttons \in SUBSET (kept \cup added),
               rescale \in BOOLEAN :
            /\ edit.op = "playlist"
            /\ edit' = [edit EXCEPT
                 !.saving = TRUE, !.cues = kept \cup added, !.buttons = buttons,
                 !.default = IF config.defaultBackground \in Removed(kept, replaced)
                             THEN NoCue ELSE config.defaultBackground,
                 !.rescale = rescale]
            /\ svc' = [Enter(svc) EXCEPT !.removing = Removed(kept, replaced)]
            /\ UNCHANGED <<config, workers, stageCalls>>
      BY <2>1, Zenon
    <2> DEFINE default == IF config.defaultBackground \in Removed(kept, replaced)
                          THEN NoCue ELSE config.defaultBackground
               removing == Removed(kept, replaced)
               t == [s EXCEPT !.removing = removing]
    <2>3. /\ kept \in SUBSET Cues /\ added \in SUBSET Cues /\ buttons \in SUBSET Cues
          /\ default \in CueRef
      BY <1>1 DEF Config, CueRef
    <2>4. removing \in SUBSET Cues BY <1>1, <2>3 DEF Removed, Config
    <2>5. edit' = [edit EXCEPT !.saving = TRUE, !.cues = kept \cup added,
                               !.buttons = buttons, !.default = default,
                               !.rescale = rescale]
      BY <2>2
    <2>6. svc' = t BY <2>2 DEF s
    <2> HIDE DEF default, removing
    <2>7. edit' \in Edit BY <1>1, <2>3, <2>5 DEF Edit
    <2>8. t \in Service BY <1>2, <2>4, OtherFields
    <2>9. Kept(s, t) /\ t.generation = s.generation /\ t.scene = s.scene
      BY <1>2 DEF Kept, Service
    <2> HIDE DEF t
    <2>10. Settled(svc', imageWorker, edit) /\ InStep(svc')
      BY <1>1, <2>6, <2>8, <2>9, KeptSteady
    <2>11. edit # NoEdit BY <1>3, <2>2
    <2>12. Settled(svc', imageWorker, edit') BY <2>10, <2>11, OperationSettles
    <2>13. config' \in Config /\ UNCHANGED <<workers, stageCalls>> BY <1>1, <2>2
    <2> QED BY <1>4, <2>7, <2>10, <2>12, <2>13
  <1>10. CASE CommitPlaylist
    <2> DEFINE idle == [s EXCEPT !.removing = {}]
               settled == IF LosesBackground
                          THEN ClearBackgroundOverride(idle, EditedConfig) ELSE idle
               rescaled == IF edit.rescale /\ ~svc.closed /\ settled.sceneRevision # 0
                           THEN ApplyScene(settled, FALSE) ELSE settled
    <2>1. /\ config' = EditedConfig /\ svc' = Changed(rescaled) /\ edit' = NoEdit
          /\ UNCHANGED <<workers, stageCalls>>
      BY <1>10 DEF CommitPlaylist, s
    <2>2. EditedConfig \in Config BY <1>1, EditedType
    <2>3. idle \in Service BY <1>2, OtherFields
    <2>4. Kept(s, idle) /\ idle.generation = s.generation /\ idle.scene = s.scene
      BY <1>2 DEF Kept, Service
    <2> HIDE DEF idle
    <2>5. Settled(idle, imageWorker, edit) /\ InStep(idle)
      BY <1>1, <2>3, <2>4, KeptSteady
    <2>6. Settled(settled, imageWorker, edit) /\ InStep(settled)
      BY <2>2, <2>5, ClearOverrideSettles
    <2> HIDE DEF settled
    <2>7. Settled(rescaled, imageWorker, edit) /\ InStep(rescaled)
      BY <2>6, ApplySceneSettles
    <2> HIDE DEF rescaled
    <2>8. Settled(svc', imageWorker, edit) /\ InStep(svc') BY <2>1, <2>7, MarksSettle
    <2>9. Settled(svc', imageWorker, edit') BY <2>1, <2>8, OperationSettles
    <2> QED BY <1>3, <1>4, <2>1, <2>2, <2>8, <2>9
  <1>11. CASE ConfigureOutputs
    <2> DEFINE i == Input(svc)
               t == [i EXCEPT !.configBusy = TRUE]
    <2>1. /\ ~svc.updatePending /\ svc' = t /\ config' = config
          /\ edit' = [NoEdit EXCEPT !.op = "outputs", !.saving = TRUE]
          /\ UNCHANGED <<workers, stageCalls>>
      BY <1>11 DEF ConfigureOutputs
    <2>2. edit' \in Edit BY <1>3, <2>1 DEF Edit
    <2>3. i \in Service /\ i.updatePending = svc.updatePending
      BY <1>1, <1>2, MarksKeep DEF Kept
    <2>4. Settled(i, imageWorker, edit) /\ InStep(i) BY <1>1
    <2> HIDE DEF i
    <2>5. t \in Service BY <2>3, BoolFields
    <2>6. Kept(i, t) /\ t.generation = i.generation /\ t.scene = i.scene
      BY <2>3 DEF Kept, Service
    <2> HIDE DEF t
    <2>7. Settled(svc', imageWorker, edit) /\ InStep(svc')
      BY <2>1, <2>4, <2>5, <2>6, KeptSteady
    <2>8. ~svc'.updatePending BY <2>1, <2>3, <2>6 DEF Kept
    <2>9. Settled(svc', imageWorker, edit') BY <2>7, <2>8, OperationSettles
    <2> QED BY <1>1, <1>4, <2>1, <2>2, <2>7, <2>9
  <1>12. CASE CommitOutputs
    <2> DEFINE d == Disarm(s)
               lowered == [d EXCEPT !.stageEnabled = FALSE]
               idle == [d EXCEPT !.configBusy = FALSE, !.outputFault = FALSE,
                                 !.stageEnabled = FALSE]
    <2>1. PICK halted \in Halted(StopForeground(idle, TRUE, TRUE)) :
            svc' = SelectBackground(halted, config.cues, svc.backgroundCue)
      BY <1>12 DEF CommitOutputs, s
    <2>2. config' = config /\ edit' = NoEdit /\ UNCHANGED <<workers, stageCalls>>
      BY <1>12 DEF CommitOutputs
    <2>3. Settled(d, imageWorker, edit) BY <1>1, DisarmSettles
    <2> HIDE DEF d
    <2>4. d \in Service BY <2>3 DEF Settled
    <2>5. Settled(lowered, imageWorker, edit) BY <2>3, StageLoweredSettles
    <2>6. idle \in Service BY <2>4, BoolFields, ZenonT(30)
    <2>7. Kept(lowered, idle) /\ idle.generation = lowered.generation
      BY <2>4 DEF Kept, Service
    <2> HIDE DEF idle, lowered
    <2>8. Settled(idle, imageWorker, edit) BY <2>5, <2>6, <2>7, KeptSteady
    <2>9. Settled(halted, imageWorker, edit) /\ InStep(halted)
      BY <1>1, <2>8, HaltingSettles
    <2>10. svc.backgroundCue \in CueRef BY <1>1 DEF Service
    <2>11. Settled(svc', imageWorker, edit) /\ InStep(svc')
      BY <2>1, <2>9, <2>10, SelectBackgroundSettles
    <2>12. Settled(svc', imageWorker, edit') BY <2>2, <2>11, OperationSettles
    <2> QED BY <1>1, <1>3, <1>4, <2>2, <2>11, <2>12
  <1>13. CASE BeginStage BY <1>5, <1>13 DEF BeginStage
  <1>14. CASE PrepareStage
    <2>1. PICK default \in config.cues \cup {NoCue}, reselect \in BOOLEAN :
            /\ edit.op = "stage"
            /\ edit' = [edit EXCEPT !.saving = TRUE, !.default = default,
                                    !.reselect = reselect]
            /\ UNCHANGED <<svc, config, workers, stageCalls>>
      BY <1>14 DEF PrepareStage
    <2>2. default \in CueRef BY <1>1 DEF Config, CueRef
    <2>3. edit' \in Edit BY <1>1, <2>1, <2>2 DEF Edit
    <2>4. edit # NoEdit BY <1>3, <2>1
    <2>5. Settled(svc', imageWorker, edit') /\ InStep(svc')
      BY <1>1, <2>1, <2>4, OperationSettles
    <2> QED BY <1>1, <1>4, <2>1, <2>3, <2>5
  <1>15. CASE CommitStage
    <2> DEFINE chosen == IF config.defaultBackground # edit.default
                         THEN ClearBackgroundOverride(s, config')
                         ELSE IF edit.reselect
                         THEN SelectBackground(s, config.cues, svc.backgroundCue)
                         ELSE s
    <2>1. /\ config' = [config EXCEPT !.defaultBackground = edit.default]
          /\ svc' = (IF svc.closed THEN s ELSE Changed(ApplyScene(chosen, FALSE)))
          /\ edit' = NoEdit /\ UNCHANGED <<workers, stageCalls>>
      BY <1>15 DEF CommitStage, s
    <2>2. config' \in Config BY <1>1, <2>1 DEF Config, Edit
    <2>3. svc.backgroundCue \in CueRef BY <1>1 DEF Service
    <2>4. /\ Settled(ClearBackgroundOverride(s, config'), imageWorker, edit)
          /\ Settled(SelectBackground(s, config.cues, svc.backgroundCue),
                     imageWorker, edit)
      BY <1>1, <2>2, <2>3, ClearOverrideSettles, SelectBackgroundSettles
    <2>5. Settled(chosen, imageWorker, edit) BY <1>1, <2>4
    <2> HIDE DEF chosen
    <2>6. /\ Settled(Changed(ApplyScene(chosen, FALSE)), imageWorker, edit)
          /\ InStep(Changed(ApplyScene(chosen, FALSE)))
      BY <2>5, ApplySceneSettles, MarksSettle
    <2>7. Settled(svc', imageWorker, edit) /\ InStep(svc') BY <1>1, <2>1, <2>6
    <2>8. Settled(svc', imageWorker, edit') BY <2>1, <2>7, OperationSettles
    <2> QED BY <1>3, <1>4, <2>1, <2>2, <2>7, <2>8
  <1>16. CASE BeginLoad BY <1>5, <1>16 DEF BeginLoad
  <1>17. CASE PrepareLoad
    <2>1. PICK cues \in SUBSET (Cues \ config.used) :
            \E buttons \in SUBSET cues, default \in cues \cup {NoCue} :
              /\ edit.op = "load"
              /\ edit' = [edit EXCEPT !.saving = TRUE, !.cues = cues,
                                      !.buttons = buttons, !.default = default]
              /\ svc' = [s EXCEPT !.configBusy = TRUE]
              /\ UNCHANGED <<config, workers, stageCalls>>
      BY <1>17 DEF PrepareLoad, s
    <2> DEFINE t == [s EXCEPT !.configBusy = TRUE]
    <2>2. edit' \in Edit BY <1>1, <2>1 DEF Edit, CueRef
    <2>3. t \in Service BY <1>2, BoolFields
    <2>4. Kept(s, t) /\ t.generation = s.generation /\ t.scene = s.scene
      BY <1>2 DEF Kept, Service
    <2>5. svc' = t BY <2>1
    <2> HIDE DEF t
    <2>6. Settled(svc', imageWorker, edit) /\ InStep(svc')
      BY <1>1, <2>3, <2>4, <2>5, KeptSteady
    <2>7. edit # NoEdit BY <1>3, <2>1
    <2>8. Settled(svc', imageWorker, edit') BY <2>6, <2>7, OperationSettles
    <2>9. config' \in Config /\ UNCHANGED <<workers, stageCalls>> BY <1>1, <2>1
    <2> QED BY <1>4, <2>2, <2>6, <2>8, <2>9
  <1>18. CASE CommitLoad
    <2> DEFINE c == ClearImage(ClearActive(Invalidate(s)))
               emptied == [c EXCEPT
                             !.configBusy = FALSE, !.stopEpoch = @ + 1,
                             !.foreground = NoSource, !.background = NoCue,
                             !.backgroundOverride = NoCue, !.state = "stopped",
                             !.stageSerial = @ + 1]
    <2>1. /\ config' = [cues |-> edit.cues, kind |-> [cue \in Cues |-> "unknown"],
                        bad |-> {}, buttons |-> edit.buttons,
                        defaultBackground |-> edit.default,
                        used |-> config.used \cup edit.cues]
          /\ svc' = (IF svc.closed THEN emptied
                     ELSE Changed(SelectBackground(emptied, edit.cues, edit.default)))
          /\ edit' = NoEdit /\ UNCHANGED <<workers, stageCalls>>
      BY <1>18 DEF CommitLoad, s
    <2>2. config' \in Config /\ edit.default \in CueRef
      BY <1>1, <2>1 DEF Config, Edit
    <2>3. Settled(c, imageWorker, edit)
      BY <1>1, InvalidateSettles, ClearActiveSettles, ClearImageSettles
    <2>4. /\ c.activeCue = NoCue /\ InStep(c)
      <3>1. /\ Invalidate(s) \in Service /\ ClearActive(Invalidate(s)) \in Service
            /\ InStep(Invalidate(s))
        BY <1>1, <1>2, InvalidateSettles, InvalidateType, ClearActiveType
      <3>2. \A x \in Service : /\ ClearActive(x).activeCue = NoCue
                               /\ ClearActive(x).scene = x.scene
                               /\ ClearActive(x).stageDesired = x.stageDesired
        BY DEF ClearActive, Service
      <3>3. \A x \in Service : /\ ClearImage(x).activeCue = x.activeCue
                               /\ ClearImage(x).scene = x.scene
                               /\ ClearImage(x).stageDesired = x.stageDesired
        BY DEF ClearImage, Service
      <3> QED BY <3>1, <3>2, <3>3 DEF InStep
    <2> HIDE DEF c
    <2>5. c \in Service BY <2>3 DEF Settled
    <2>6. /\ c.stopEpoch + 1 \in Nat /\ c.stageSerial + 1 \in Nat /\ NoCue \in CueRef
          /\ "stopped" \in Phases
      BY <2>5 DEF Service, CueRef, Phases
    <2>7. emptied \in Service
      BY <2>5, <2>6, NoSourceType, BoolFields, NatFields, CueFields, OtherFields,
         ZenonT(60)
    <2>8. /\ emptied.state = "stopped" /\ emptied.foreground = NoSource
          /\ emptied.activeCue = c.activeCue
          /\ emptied.pendingImage = c.pendingImage
          /\ emptied.visualSequence = c.visualSequence
          /\ emptied.visualLoads = c.visualLoads
          /\ emptied.stageDesired = c.stageDesired
          /\ emptied.stageEnabled = c.stageEnabled
          /\ emptied.updatePending = c.updatePending
          /\ emptied.generation = c.generation /\ emptied.scene = c.scene
      BY <2>5 DEF Service
    <2>9. NoSource.id = 0 /\ NoSource.cue = NoCue BY DEF NoSource
    <2> HIDE DEF emptied
    <2>10. Settled(emptied, imageWorker, edit) /\ InStep(emptied)
      BY <2>3, <2>4, <2>7, <2>8, <2>9 DEF Settled, Resting, ImagesCounted, InStep
    <2> DEFINE chosen == SelectBackground(emptied, edit.cues, edit.default)
    <2>11. /\ Settled(Changed(chosen), imageWorker, edit) /\ InStep(Changed(chosen))
      BY <2>2, <2>10, SelectBackgroundSettles, MarksSettle
    <2> HIDE DEF chosen
    <2>12. Settled(svc', imageWorker, edit) /\ InStep(svc')
      BY <2>1, <2>10, <2>11 DEF chosen
    <2>13. Settled(svc', imageWorker, edit') BY <2>1, <2>12, OperationSettles
    <2> QED BY <1>3, <1>4, <2>1, <2>2, <2>12, <2>13
  <1> QED BY <1>6, <1>7, <1>8, <1>9, <1>10, <1>11, <1>12, <1>13, <1>14, <1>15, <1>16,
             <1>17, <1>18 DEF Show

\* The host starts with the invariant: nothing plays, and the saved background
\* is being prepared.
LEMMA InitSettles ==
  ASSUME Init
  PROVE  ReservationInv
  <1>1. /\ config = [cues |-> InitialShow, kind |-> InitialKind, bad |-> {},
                     buttons |-> InitialButtons, defaultBackground |-> InitialDefault,
                     used |-> InitialShow]
        /\ svc = SelectBackground(InitialService, InitialShow, InitialDefault)
        /\ loader = NoJob /\ imageWorker = NoJob /\ backgroundWorker = NoJob
        /\ edit = NoEdit /\ stageCalls = {}
    BY DEF Init
  <1>2. InitialDefault \in CueRef /\ config \in Config
    BY <1>1, ShowAssumption DEF Config, CueRef
  <1>3. NoJob \in Job /\ NoSource \in Source /\ NoCue \in CueRef /\ NoEdit \in Edit
    BY NoJobType, NoSourceType DEF CueRef, NoEdit, Edit
  <1>4. InitialService.scene \in Scene /\ InStep(InitialService)
    BY <1>3 DEF InitialService, Scene, InStep
  <1>5. InitialService \in Service
    BY <1>3, <1>4 DEF InitialService, Service, Phases
  <1>6. /\ InitialService.generation # 0 /\ InitialService.foreground.id = 0
        /\ InitialService.foreground.cue = NoCue /\ InitialService.activeCue = NoCue
        /\ ~InitialService.updatePending /\ InitialService.visualSequence = 0
        /\ InitialService.visualLoads = NoJob
    BY DEF InitialService, NoSource
  <1>7. NoJob.tag = 0 BY DEF NoJob
  <1>8. Settled(InitialService, NoJob, NoEdit)
    BY <1>5, <1>6, <1>7 DEF Settled, ImagesCounted
  <1>9. Settled(svc, NoJob, NoEdit) /\ InStep(svc)
    BY <1>1, <1>2, <1>4, <1>8, SelectBackgroundSettles
  <1> QED BY <1>1, <1>2, <1>3, <1>9 DEF ReservationInv, TypeOK, Settled, InStep

\* Every step of the specification keeps the invariant.
LEMMA StepSettles ==
  ASSUME ReservationInv, [Next]_vars
  PROVE  ReservationInv'
  <1>1. CASE Commands BY <1>1, CommandsKeep
  <1>2. CASE Preparation BY <1>2, PreparationKeeps
  <1>3. CASE Native BY <1>3, NativeIsReported, ReportedKeeps
  <1>4. CASE Update BY <1>4, UpdateKeeps
  <1>5. CASE Stage BY <1>5, StageKeeps
  <1>6. CASE Show BY <1>6, ShowKeeps
  <1>7. CASE UNCHANGED vars
    <2>1. CommandOnly /\ svc' = svc BY <1>7 DEF vars, CommandOnly, workers
    <2> QED BY <2>1, Disassemble, CommandKeeps
  <1> QED BY <1>1, <1>2, <1>3, <1>4, <1>5, <1>6, <1>7 DEF Next

\* The invariant leaves a reserved host nothing to commit: no load is current
\* outside "loading", and no image job is while nothing is pending.
LEMMA SettledIsIdle ==
  ASSUME ReservationInv
  PROVE  ReservedIdle
  <1> SUFFICES ASSUME svc.updatePending
               PROVE  /\ svc.foreground.id = 0 /\ svc.activeCue = NoCue
                      /\ svc.pendingImage = NoCue
                      /\ ~svc.stageDesired /\ ~svc.stageEnabled
                      /\ LiveLoads = {} /\ LiveImages = {} /\ edit = NoEdit
    BY DEF ReservedIdle
  <1>1. Settled(svc, imageWorker, edit) BY DEF ReservationInv
  <1>2. /\ Resting(svc) /\ svc.pendingImage = NoCue /\ ~svc.stageDesired
        /\ ~svc.stageEnabled /\ edit = NoEdit
        /\ svc.foreground.id = 0 /\ svc.activeCue = NoCue
    BY <1>1 DEF Settled
  <1>3. LiveLoads = {} BY <1>2 DEF LiveLoads, Resting
  <1>4. LiveImages = {}
    BY <1>1, <1>2 DEF LiveImages, Settled, ImagesCounted
  <1> QED BY <1>2, <1>3, <1>4

\* The host is settled in every reachable state: the strengthening of the two
\* theorems below, and the reason why late work of any kind finds nothing to do.
THEOREM InvariantHolds == Spec => []ReservationInv
  <1>1. Init => ReservationInv BY InitSettles
  <1>2. ReservationInv /\ [Next]_vars => ReservationInv' BY StepSettles
  <1> QED BY <1>1, <1>2, PTL DEF Spec

\* Every variable keeps its type: every critical section of app.Service, with
\* every helper it calls, maps well-formed states to well-formed states.
THEOREM TypeCorrect == Spec => []TypeOK
  <1>1. ReservationInv => TypeOK BY DEF ReservationInv
  <1> QED BY <1>1, InvariantHolds, PTL

\* ReserveUpdate (update.go): while the updater holds its reservation nothing
\* plays, is shown, is being prepared or is being edited, whatever requests,
\* preparations, renderer reports and Stage calls were under way.
THEOREM ReservationHolds == Spec => []ReservedIdle
  <1>1. ReservationInv => ReservedIdle BY SettledIsIdle
  <1> QED BY <1>1, InvariantHolds, PTL
=============================================================================
