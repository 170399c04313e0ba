--------------------------- MODULE PlaybackProofs ---------------------------
(***************************************************************************)
(* The safety of playback in Coordinator.tla, for every show, every number *)
(* of inputs and every interleaving: PlaybackInv is an inductive invariant, *)
(* and the invariants and action properties the runs check follow from it. *)
(***************************************************************************)
EXTENDS PlaybackLemmas

\* What the invariant says of a service in the middle of a critical section,
\* of the jobs its workers hold, the Stage calls under way, the show and the
\* operation on it.
Sound(s, l, i, b, calls, show, op) ==
  /\ Settled(s, i, op)
  /\ WorkAgrees(s, l, i, b, calls)
  /\ SelectionsAgree(s, show, op)

\* s and t differ at most in fields that no part reads
Alike(s, t) ==
  /\ Same(s, t, LoadFields) /\ Same(s, t, ImageFields) /\ Same(s, t, BackgroundFields)
  /\ Same(s, t, StageFields) /\ Same(s, t, SceneFields) /\ Same(s, t, SelectionFields)
  /\ t.wedged = s.wedged

\* Such fields may be written freely.
LEMMA AlikeSound ==
  ASSUME NEW s, NEW t, Alike(s, t), NEW l, NEW i, NEW b, NEW calls, NEW show, NEW op
  PROVE  /\ WorkAgrees(s, l, i, b, calls) => WorkAgrees(t, l, i, b, calls)
         /\ SelectionsAgree(s, show, op) => SelectionsAgree(t, show, op)
         /\ Sound(s, l, i, b, calls, show, op) /\ Settled(t, i, op) =>
              Sound(t, l, i, b, calls, show, op)
  <1>1. WorkAgrees(s, l, i, b, calls) => WorkAgrees(t, l, i, b, calls)
    BY PartsRead DEF Alike, WorkAgrees
  <1>2. SelectionsAgree(s, show, op) => SelectionsAgree(t, show, op)
    BY PartsRead DEF Alike
  <1> QED BY <1>1, <1>2 DEF Sound

\* A change of nothing the parts of PlaybackInv read keeps every one of them.
LEMMA UnreadSound ==
  ASSUME NEW s, NEW l, NEW i, NEW b, NEW calls, NEW show, NEW op,
         Sound(s, l, i, b, calls, show, op), NEW t \in Service, Kept(s, t), Alike(s, t)
  PROVE  Sound(t, l, i, b, calls, show, op) /\ (InStep(s) => InStep(t))
  <1>1. t.generation = s.generation BY DEF Alike, Same, LoadFields
  <1>2. t.scene = s.scene BY DEF Alike, Same, SceneFields
  <1>3. Settled(t, i, op) /\ (InStep(s) => InStep(t))
    BY <1>1, <1>2, KeptSteady DEF Sound
  <1> QED BY <1>3, AlikeSound

\* The writes to such fields that the actions make.
LEMMA FreeWrites ==
  ASSUME NEW s \in Service
  PROVE  /\ Alike(s, Enter(s)) /\ Alike(s, Changed(s))
         /\ \A v : /\ Alike(s, [s EXCEPT !.stageEnabled = v])
                   /\ Alike(s, [s EXCEPT !.stageEnablePending = v])
                   /\ Alike(s, [s EXCEPT !.outputFault = v])
                   /\ Alike(s, [s EXCEPT !.configBusy = v])
                   /\ Alike(s, [s EXCEPT !.stopEpoch = v])
                   /\ Alike(s, [s EXCEPT !.updatePending = v])
  BY DEF Alike, Same, LoadFields, ImageFields, BackgroundFields, StageFields, SceneFields,
         SelectionFields, Service, Enter, Changed

\* Marks, scenes and the withdrawal of the stage.
LEMMA MarksSound ==
  ASSUME NEW s, NEW l \in Job, NEW i \in Job, NEW b \in Job, NEW calls \in StageCalls,
         NEW show, NEW op, Sound(s, l, i, b, calls, show, op)
  PROVE  /\ Sound(Enter(s), l, i, b, calls, show, op)
         /\ Sound(Changed(s), l, i, b, calls, show, op)
         /\ Sound(Input(s), l, i, b, calls, show, op)
         /\ Sound(Disarm(s), l, i, b, calls, show, op)
         /\ \A hard \in BOOLEAN : /\ Sound(ApplyScene(s, hard), l, i, b, calls, show, op)
                                  /\ InStep(ApplyScene(s, hard))
  <1>1. s \in Service BY DEF Sound, Settled
  <1>2. /\ Same(s, Enter(s), SelectionFields) /\ Same(s, Changed(s), SelectionFields)
        /\ Same(s, Input(s), SelectionFields)
    BY <1>1 DEF Service, Same, Enter, Changed, Input, SelectionFields
  <1>3. /\ Same(s, Disarm(s), SelectionFields)
        /\ \A hard \in BOOLEAN : Same(s, ApplyScene(s, hard), SelectionFields)
    BY <1>1, HelpersLeave, SameSubset
  <1>4. ASSUME NEW t, Same(s, t, SelectionFields) PROVE SelectionsAgree(t, show, op)
    BY <1>4, PartsRead DEF Sound
  <1>5. /\ WorkAgrees(Enter(s), l, i, b, calls) /\ WorkAgrees(Changed(s), l, i, b, calls)
        /\ WorkAgrees(Input(s), l, i, b, calls)
    BY <1>1, MarksAgree DEF Sound
  <1>6. /\ WorkAgrees(Disarm(s), l, i, b, calls)
        /\ \A hard \in BOOLEAN : WorkAgrees(ApplyScene(s, hard), l, i, b, calls)
    BY <1>1, WorkKept DEF Sound
  <1>7. /\ Settled(Enter(s), i, op) /\ Settled(Changed(s), i, op) /\ Settled(Input(s), i, op)
        /\ Settled(Disarm(s), i, op)
    BY MarksSettle, DisarmSettles DEF Sound
  <1>8. \A hard \in BOOLEAN : Settled(ApplyScene(s, hard), i, op) /\ InStep(ApplyScene(s, hard))
    BY ApplySceneSettles DEF Sound
  <1> QED BY <1>2, <1>3, <1>4, <1>5, <1>6, <1>7, <1>8 DEF Sound

\* Whatever stops.
LEMMA StopsSound ==
  ASSUME NEW s, NEW l \in Job, NEW i \in Job, NEW b \in Job, NEW calls \in StageCalls,
         NEW show \in Config, NEW op \in Edit, Sound(s, l, i, b, calls, show, op)
  PROVE  /\ \A hard \in BOOLEAN :
              /\ Sound(StopForeground(s, TRUE, hard), l, i, b, calls, show, op)
              /\ InStep(StopForeground(s, TRUE, hard))
         /\ Sound(Fail(s), l, i, b, calls, show, op) /\ InStep(Fail(s))
         /\ Sound(StopImage(s), l, i, b, calls, show, op) /\ InStep(StopImage(s))
  <1>1. s \in Service BY DEF Sound, Settled
  <1>2. ASSUME NEW hard \in BOOLEAN
        PROVE  /\ Sound(StopForeground(s, TRUE, hard), l, i, b, calls, show, op)
               /\ InStep(StopForeground(s, TRUE, hard))
    BY <1>1, StopForegroundSettles, WorkKept, SelectionsKept DEF Sound
  <1>3. Sound(Fail(s), l, i, b, calls, show, op) /\ InStep(Fail(s))
    BY <1>1, FailSettles, WorkKept, SelectionsKept DEF Sound
  <1>4. Sound(StopImage(s), l, i, b, calls, show, op) /\ InStep(StopImage(s))
    BY <1>1, StopImageSettles, WorkKept, SelectionsKept DEF Sound
  <1> QED BY <1>2, <1>3, <1>4

\* Once the application is closing the renderer may refuse the last scene.
LEMMA HaltsSound ==
  ASSUME NEW s, NEW l \in Job, NEW i \in Job, NEW b \in Job, NEW calls \in StageCalls,
         NEW show \in Config, NEW op \in Edit, Sound(s, l, i, b, calls, show, op),
         NEW hard \in BOOLEAN, NEW t \in Halted(StopForeground(s, TRUE, hard))
  PROVE  Sound(t, l, i, b, calls, show, op) /\ InStep(t) /\ t.closed = s.closed
  <1> DEFINE h == StopForeground(s, TRUE, hard)
  <1>1. s \in Service BY DEF Sound, Settled
  <1>2. Sound(h, l, i, b, calls, show, op) /\ InStep(h) BY StopsSound
  <1>3. Resting(h) BY <1>1, StopForegroundRests
  <1>4. h.closed = s.closed
    <2>1. Same(s, h, BackgroundFields \cup {"closed"}) BY <1>1, HelpersLeave
    <2> QED BY <2>1, Zenon DEF Same
  <1>5. t \in Halted(h) OBVIOUS
  <1> HIDE DEF h
  <1>6. h \in Service BY <1>2 DEF Sound, Settled
  <1>7. t = h \/ t = Rested(h, "error") BY <1>5 DEF Halted, Rested
  <1>8. Settled(t, i, op) /\ InStep(t) BY <1>2, <1>3, <1>5, HaltedSettles DEF Sound
  <1>9. /\ WorkAgrees(Rested(h, "error"), l, i, b, calls)
        /\ SelectionsAgree(Rested(h, "error"), show, op)
    <2>1. "error" \in Phases \ {"loading"} BY DEF Phases
    <2> QED BY <1>2, <1>3, <1>6, <2>1, WorkKept, SelectionsKept DEF Sound
  <1>10. Rested(h, "error").closed = h.closed BY <1>6 DEF Rested, Service
  <1> QED BY <1>2, <1>4, <1>7, <1>8, <1>9, <1>10 DEF Sound

\* Transport and selections.
LEMMA SelectsSound ==
  ASSUME NEW s, NEW l \in Job, NEW i \in Job, NEW b \in Job, NEW calls \in StageCalls,
         NEW show \in Config, NEW op \in Edit, Sound(s, l, i, b, calls, show, op), InStep(s)
  PROVE  /\ \A paused \in BOOLEAN : Sound(SetPaused(s, paused), l, i, b, calls, show, op)
         /\ CanSeek(s) => Sound(SetPosition(s), l, i, b, calls, show, op)
         /\ ~s.closed /\ ~s.updatePending /\ s.offAt < s.now =>
              \A cue \in show.cues \ s.removing :
                /\ Sound(SelectForeground(s, cue), l, i, b, calls, show, op)
                /\ Sound(SelectImage(s, cue), l, i, b, calls, show, op)
         /\ \A id \in CueRef : id \in show.cues \cup {NoCue} \/ s.closed =>
              /\ Sound(SelectBackground(s, show.cues, id), l, i, b, calls, show, op)
              /\ InStep(SelectBackground(s, show.cues, id))
         /\ \A cue \in show.cues \cup {NoCue} :
              /\ Sound([s EXCEPT !.backgroundOverride = cue], l, i, b, calls, show, op)
              /\ InStep([s EXCEPT !.backgroundOverride = cue])
  <1>1. s \in Service /\ show.cues \subseteq Cues BY DEF Sound, Settled, Config
  <1>2. ASSUME NEW paused \in BOOLEAN
        PROVE  Sound(SetPaused(s, paused), l, i, b, calls, show, op)
    <2>1. Same(s, SetPaused(s, paused), SelectionFields) BY <1>1, HelpersLeave, SameSubset
    <2>2. SelectionsAgree(SetPaused(s, paused), show, op) BY <2>1, PartsRead DEF Sound
    <2> QED BY <1>1, <2>2, SetPausedSettles, WorkKept DEF Sound
  <1>3. ASSUME CanSeek(s) PROVE Sound(SetPosition(s), l, i, b, calls, show, op)
    <2>1. Same(s, SetPosition(s), SelectionFields) BY <1>1, HelpersLeave, SameSubset
    <2>2. SelectionsAgree(SetPosition(s), show, op) BY <2>1, PartsRead DEF Sound
    <2> QED BY <1>1, <1>3, <2>2, SetPositionSettles, WorkKept DEF Sound
  <1>4. ASSUME ~s.closed, ~s.updatePending, s.offAt < s.now,
               NEW cue \in show.cues \ s.removing
        PROVE  /\ Sound(SelectForeground(s, cue), l, i, b, calls, show, op)
               /\ Sound(SelectImage(s, cue), l, i, b, calls, show, op)
    <2>1. cue \in Cues /\ cue \in CueRef BY <1>1 DEF CueRef
    <2>2. /\ WorkAgrees(SelectForeground(s, cue), l, i, b, calls)
          /\ WorkAgrees(SelectImage(s, cue), l, i, b, calls)
      BY <1>1, <1>4, <2>1, WorkKept DEF Sound
    <2>3. /\ SelectionsAgree(SelectForeground(s, cue), show, op)
          /\ SelectionsAgree(SelectImage(s, cue), show, op)
      BY <1>1, SelectionsKept DEF Sound
    <2>4. Settled(SelectForeground(s, cue), i, op) /\ Settled(SelectImage(s, cue), i, op)
      BY <1>4, <2>1, SelectForegroundSettles, SelectImageSettles DEF Sound
    <2> QED BY <2>2, <2>3, <2>4 DEF Sound
  <1>5. ASSUME NEW id \in CueRef, id \in show.cues \cup {NoCue} \/ s.closed
        PROVE  /\ Sound(SelectBackground(s, show.cues, id), l, i, b, calls, show, op)
               /\ InStep(SelectBackground(s, show.cues, id))
    <2>1. WorkAgrees(SelectBackground(s, show.cues, id), l, i, b, calls)
      BY <1>1, <1>5, WorkKept DEF Sound
    <2>2. SelectionsAgree(SelectBackground(s, show.cues, id), show, op)
      BY <1>1, SelectionsKept DEF Sound
    <2> QED BY <2>1, <2>2, SelectBackgroundSettles DEF Sound
  <1>6. ASSUME NEW cue \in show.cues \cup {NoCue}
        PROVE  /\ Sound([s EXCEPT !.backgroundOverride = cue], l, i, b, calls, show, op)
               /\ InStep([s EXCEPT !.backgroundOverride = cue])
    <2> DEFINE t == [s EXCEPT !.backgroundOverride = cue]
    <2>1. cue \in CueRef BY <1>1 DEF CueRef
    <2>2. t \in Service BY <1>1, <2>1, CueFields
    <2>3. Kept(s, t) /\ t.generation = s.generation /\ t.scene = s.scene
      BY <1>1 DEF Kept, Service
    <2>4. /\ Same(s, t, LoadFields) /\ Same(s, t, ImageFields)
          /\ Same(s, t, BackgroundFields) /\ Same(s, t, StageFields)
          /\ Same(s, t, SceneFields) /\ t.wedged = s.wedged
      BY <1>1 DEF Service, Same, LoadFields, ImageFields, BackgroundFields, StageFields,
                  SceneFields
    <2>5. SelectionsAgree(t, show, op) BY <1>1, SelectionsKept DEF Sound
    <2> HIDE DEF t
    <2>6. WorkAgrees(t, l, i, b, calls) BY <2>4, PartsRead DEF Sound, WorkAgrees
    <2>7. Settled(t, i, op) /\ InStep(t) BY <2>2, <2>3, KeptSteady DEF Sound
    <2> QED BY <2>5, <2>6, <2>7 DEF Sound, t
  <1> QED BY <1>2, <1>3, <1>4, <1>5, <1>6

\* A background button or the default takes over when the override is cleared.
LEMMA ClearOverrideSound ==
  ASSUME NEW s, NEW l \in Job, NEW i \in Job, NEW b \in Job, NEW calls \in StageCalls,
         NEW show \in Config, NEW op \in Edit, Sound(s, l, i, b, calls, show, op), InStep(s)
  PROVE  /\ Sound(ClearBackgroundOverride(s, show), l, i, b, calls, show, op)
         /\ InStep(ClearBackgroundOverride(s, show))
  <1> DEFINE t == [s EXCEPT !.backgroundOverride = NoCue]
  <1>1. /\ Sound(t, l, i, b, calls, show, op) /\ InStep(t)
    BY SelectsSound
  <1>2. show.defaultBackground \in show.cues \cup {NoCue}
    BY DEF Sound, SelectionsAgree
  <1>3. show.defaultBackground \in CueRef BY DEF Config
  <1>4. ClearBackgroundOverride(s, show) = SelectBackground(t, show.cues, show.defaultBackground)
    BY DEF ClearBackgroundOverride
  <1> HIDE DEF t
  <1> QED BY <1>1, <1>2, <1>3, <1>4, SelectsSound

\* A source acknowledges the newest intent it was given.
LEMMA AckSound ==
  ASSUME NEW s, NEW l \in Job, NEW i \in Job, NEW b \in Job, NEW calls \in StageCalls,
         NEW show \in Config, NEW op \in Edit, Sound(s, l, i, b, calls, show, op), InStep(s),
         NEW e \in Event, e.kind \in {"playing", "paused"}, Fresh(s, e), Truthful(s, e),
         s.state \in {"loading", "playing", "paused"}, (e.kind = "paused") = s.paused
  PROVE  Sound(Acked(s, e.kind), l, i, b, calls, show, op)
  <1> DEFINE t == Acked(s, e.kind)
  <1>1. s \in Service BY DEF Sound, Settled
  <1>2. /\ s.generation # 0
        /\ Resting(s) => s.foreground.id = 0 /\ s.activeCue = NoCue
    BY DEF Sound, Settled
  <1>3. LoadsAgree(t, l)
    <2>1. LoadsAgree(s, l) BY DEF Sound, WorkAgrees
    <2> HIDE DEF t
    <2> QED BY <1>1, <1>2, <2>1, LoadsFollow DEF t
  <1>4. s.state # "loading" \/ s.foreground.id = s.generation
    <2>1. e.generation = Expected(s) BY DEF Fresh
    <2>2. e.generation \in {0, s.foreground.id} BY DEF Truthful
    <2> QED BY <1>2, <2>1, <2>2 DEF Expected
  <1>5. SceneAgrees(t, b) BY <1>1, <1>4, SceneKept DEF Sound, WorkAgrees
  <1>6. /\ Same(s, t, ImageFields) /\ Same(s, t, BackgroundFields)
        /\ Same(s, t, StageFields)
    BY <1>1, HelpersLeave, SameSubset
  <1>7. ~t.wedged BY <1>1, NothingBlocks DEF Sound, WorkAgrees
  <1>8. e.kind \in Phases \ {"loading"} BY DEF Phases
  <1>9. SelectionsAgree(t, show, op) BY <1>1, <1>8, SelectionsKept DEF Sound
  <1>10. Settled(t, i, op)
    <2> DEFINE acked == [s EXCEPT !.state = e.kind, !.seekPending = FALSE,
                                  !.foreground.seekPending = FALSE]
    <2>1. Settled(Changed(acked), i, op) BY AckSettles DEF Sound
    <2> QED BY <2>1 DEF Acked
  <1> HIDE DEF t
  <1>11. WorkAgrees(t, l, i, b, calls)
    BY <1>3, <1>5, <1>6, <1>7, PartsRead DEF Sound, WorkAgrees
  <1> QED BY <1>9, <1>10, <1>11 DEF Sound, t

\* A source plays to its end.
LEMMA EndSound ==
  ASSUME NEW s, NEW l \in Job, NEW i \in Job, NEW b \in Job, NEW calls \in StageCalls,
         NEW show \in Config, NEW op \in Edit, Sound(s, l, i, b, calls, show, op),
         s.state # "loading" \/ s.foreground.id = s.generation
  PROVE  Sound(Ended(s), l, i, b, calls, show, op)
  <1>1. s \in Service BY DEF Sound, Settled
  <1>2. WorkAgrees(Ended(s), l, i, b, calls) /\ SelectionsAgree(Ended(s), show, op)
    BY <1>1, WorkKept, SelectionsKept DEF Sound
  <1>3. Settled(Ended(s), i, op)
    <2> DEFINE ended == [ClearActive(s) EXCEPT !.foreground = NoSource, !.state = "stopped"]
    <2>1. Settled(Changed(ApplyScene(ended, FALSE)), i, op) BY EndSettles DEF Sound
    <2> QED BY <2>1 DEF Ended
  <1> QED BY <1>2, <1>3 DEF Sound

\* What the renderer says of the stage is read by no part.
LEMMA StageNotedSound ==
  ASSUME NEW s, NEW l \in Job, NEW i \in Job, NEW b \in Job, NEW calls \in StageCalls,
         NEW show \in Config, NEW op \in Edit, Sound(s, l, i, b, calls, show, op), InStep(s),
         NEW e \in Event, Honest(s, e)
  PROVE  /\ Sound(NoteStage(s, e), l, i, b, calls, show, op) /\ InStep(NoteStage(s, e))
         /\ e.sceneRevision = s.sceneRevision =>
              Sound([s EXCEPT !.stageEnabled = e.stageEnabled,
                              !.stageEnablePending = FALSE], l, i, b, calls, show, op)
  <1>1. s \in Service BY DEF Sound, Settled
  <1>2. Sound(NoteStage(s, e), l, i, b, calls, show, op) /\ InStep(NoteStage(s, e))
    <2> DEFINE t == NoteStage(s, e)
    <2>1. Settled(t, i, op) /\ InStep(t) BY NoteStageSettles DEF Sound
    <2>2. Alike(s, t)
      BY <1>1 DEF NoteStage, Service, Alike, Same, LoadFields, ImageFields,
                  BackgroundFields, StageFields, SceneFields, SelectionFields
    <2> HIDE DEF t
    <2>3. Sound(t, l, i, b, calls, show, op) BY <2>1, <2>2, AlikeSound
    <2> QED BY <2>1, <2>3 DEF t
  <1>3. ASSUME e.sceneRevision = s.sceneRevision
        PROVE  Sound([s EXCEPT !.stageEnabled = e.stageEnabled,
                               !.stageEnablePending = FALSE], l, i, b, calls, show, op)
    <2> DEFINE t == [s EXCEPT !.stageEnabled = e.stageEnabled, !.stageEnablePending = FALSE]
    <2>1. Settled(t, i, op) BY <1>3, StageReportSettles DEF Sound
    <2>2. Alike(s, t)
      BY <1>1 DEF Service, Alike, Same, LoadFields, ImageFields, BackgroundFields,
                  StageFields, SceneFields, SelectionFields
    <2> HIDE DEF t
    <2>3. Sound(t, l, i, b, calls, show, op) BY <2>1, <2>2, AlikeSound
    <2> QED BY <2>3 DEF t
  <1> QED BY <1>2, <1>3

\* Losing an output is noted before everything is stopped.
LEMMA FaultSound ==
  ASSUME NEW s, NEW l \in Job, NEW i \in Job, NEW b \in Job, NEW calls \in StageCalls,
         NEW show \in Config, NEW op \in Edit, Sound(s, l, i, b, calls, show, op)
  PROVE  Sound([s EXCEPT !.outputFault = TRUE], l, i, b, calls, show, op)
  <1> DEFINE t == [s EXCEPT !.outputFault = TRUE]
  <1>1. s \in Service BY DEF Sound, Settled
  <1>2. t \in Service BY <1>1, BoolFields
  <1>3. Kept(s, t) BY <1>1 DEF Kept, Service
  <1>4. Alike(s, t) BY <1>1, FreeWrites
  <1> HIDE DEF t
  <1>5. Sound(t, l, i, b, calls, show, op) BY <1>2, <1>3, <1>4, UnreadSound
  <1> QED BY <1>5 DEF t

\* The switch of nativeEvent, for a truthful event that passed Fresh.
LEMMA FollowSound ==
  ASSUME NEW s, NEW l \in Job, NEW i \in Job, NEW b \in Job, NEW calls \in StageCalls,
         NEW show \in Config, NEW op \in Edit, Sound(s, l, i, b, calls, show, op), InStep(s),
         NEW e \in Event, Fresh(s, e), Truthful(s, e)
  PROVE  Sound(Follow(s, e), l, i, b, calls, show, op)
  <1>1. s \in Service BY DEF Sound, Settled
  <1>2. CASE e.kind \in {"playing", "paused"}
    <2>1. CASE s.state \in {"loading", "playing", "paused"} /\ (e.kind = "paused") = s.paused
      <3>1. Follow(s, e) = Acked(s, e.kind) BY <1>2, <2>1 DEF Follow, Acked
      <3> QED BY <1>2, <2>1, <3>1, AckSound
    <2>2. CASE ~(s.state \in {"loading", "playing", "paused"}
                 /\ (e.kind = "paused") = s.paused)
      <3>1. Follow(s, e) = s BY <1>2, <2>2 DEF Follow
      <3> QED BY <3>1
    <2> QED BY <2>1, <2>2
  <1>3. CASE e.kind = "progress"
    <2>1. Follow(s, e) \in {s, Changed(s)} BY <1>3 DEF Follow
    <2> QED BY <2>1, MarksSound
  <1>4. CASE e.kind = "ended"
    <2>1. s.generation # 0 BY DEF Sound, Settled
    <2>2. s.state # "loading" \/ s.foreground.id = s.generation
      BY <1>4, <2>1 DEF Fresh, Truthful, Expected
    <2>3. Follow(s, e) \in {s, Ended(s)} BY <1>4 DEF Follow, Ended
    <2> QED BY <2>2, <2>3, EndSound
  <1>5. CASE e.kind = "stopped"
    <2>1. CASE s.state \in {"stopping", "stopped"}
      <3> DEFINE t == Rested(s, "stopped")
      <3>1. Resting(s) BY <2>1 DEF Resting
      <3>2. WorkAgrees(t, l, i, b, calls) BY <1>1, <3>1, WorkKept DEF Sound
      <3>3. "stopped" \in Phases \ {"loading"} BY DEF Phases
      <3>4. SelectionsAgree(t, show, op) BY <1>1, <3>3, SelectionsKept DEF Sound
      <3>5. s.foreground.id = 0 /\ s.activeCue = NoCue BY <3>1 DEF Sound, Settled
      <3>6. Settled([s EXCEPT !.state = "stopped"], i, op) BY <3>5, RestSettles DEF Sound
      <3>7. Follow(s, e) = Changed(t) BY <1>5, <2>1 DEF Follow, Rested
      <3>8. Settled(t, i, op) BY <3>6 DEF Rested
      <3> HIDE DEF t
      <3>9. Sound(t, l, i, b, calls, show, op) BY <3>2, <3>4, <3>8 DEF Sound
      <3> QED BY <3>7, <3>9, MarksSound
    <2>2. CASE s.state \notin {"stopping", "stopped"}
      <3>1. Follow(s, e) = s BY <1>5, <2>2 DEF Follow
      <3> QED BY <3>1
    <2> QED BY <2>1, <2>2
  <1>6. CASE e.kind = "error"
    <2>1. Follow(s, e) = Fail(s) BY <1>6 DEF Follow
    <2> QED BY <2>1, StopsSound
  <1>7. CASE e.kind = "device-lost"
    <2> DEFINE t == [s EXCEPT !.outputFault = TRUE]
    <2>1. Follow(s, e) = Fail(t) BY <1>7 DEF Follow
    <2> HIDE DEF t
    <2>2. Sound(t, l, i, b, calls, show, op) BY FaultSound DEF t
    <2> QED BY <2>1, <2>2, StopsSound
  <1>8. CASE e.kind \notin {"playing", "paused", "progress", "ended", "stopped", "error",
                           "device-lost"}
    <2>1. Follow(s, e) = s BY <1>8 DEF Follow
    <2> QED BY <2>1
  <1> QED BY <1>2, <1>3, <1>4, <1>5, <1>6, <1>7, <1>8

\* Hiding the stage at once is noted nowhere else.
LEMMA LoweredSound ==
  ASSUME NEW s, NEW l, NEW i, NEW b, NEW calls, NEW show, NEW op,
         Sound(s, l, i, b, calls, show, op)
  PROVE  /\ Sound([s EXCEPT !.stageEnabled = FALSE], l, i, b, calls, show, op)
         /\ InStep(s) => InStep([s EXCEPT !.stageEnabled = FALSE])
  <1> DEFINE t == [s EXCEPT !.stageEnabled = FALSE]
  <1>1. s \in Service BY DEF Sound, Settled
  <1>2. Settled(t, i, op) /\ (InStep(s) => InStep(t)) BY StageLoweredSettles DEF Sound
  <1>3. Alike(s, t) BY <1>1, FreeWrites
  <1> HIDE DEF t
  <1>4. Sound(t, l, i, b, calls, show, op) BY <1>2, <1>3, AlikeSound
  <1> QED BY <1>2, <1>4 DEF t

\* Escape withdraws the stage with everything else.
LEMMA EscapeSound ==
  ASSUME NEW s, NEW l \in Job, NEW i \in Job, NEW b \in Job, NEW calls \in StageCalls,
         NEW show \in Config, NEW op \in Edit, Sound(s, l, i, b, calls, show, op)
  PROVE  Sound(Escape(s), l, i, b, calls, show, op)
  <1> DEFINE h == StopForeground(Disarm(s), TRUE, TRUE)
             t == [h EXCEPT !.stageEnabled = FALSE]
  <1>1. Sound(Disarm(s), l, i, b, calls, show, op) BY MarksSound
  <1>2. Sound(h, l, i, b, calls, show, op) BY <1>1, StopsSound
  <1>3. Escape(s) = Changed(t) BY DEF Escape
  <1> HIDE DEF h
  <1>4. Sound(t, l, i, b, calls, show, op) BY <1>2, LoweredSound
  <1> HIDE DEF t
  <1> QED BY <1>3, <1>4, MarksSound

\* Every event the renderer can send.
LEMMA NativeEventSound ==
  ASSUME NEW s, NEW l \in Job, NEW i \in Job, NEW b \in Job, NEW calls \in StageCalls,
         NEW show \in Config, NEW op \in Edit, Sound(s, l, i, b, calls, show, op), InStep(s),
         NEW e \in Event, e.kind = "escape" \/ (Honest(s, e) /\ Truthful(s, e))
  PROVE  Sound(NativeEvent(s, e), l, i, b, calls, show, op)
  <1>1. s \in Service BY DEF Sound, Settled
  <1>2. CASE s.closed
    <2>1. NativeEvent(s, e) = s BY <1>2 DEF NativeEvent, Lost, GlobalError
    <2> QED BY <2>1
  <1>3. CASE ~s.closed /\ e.kind = "devices"
    <2>1. NativeEvent(s, e) = Changed(s) BY <1>3 DEF NativeEvent, Lost, GlobalError
    <2> QED BY <2>1, MarksSound
  <1>4. CASE ~s.closed /\ e.kind = "escape"
    <2>1. NativeEvent(s, e) = Escape(s) BY <1>4 DEF NativeEvent, Lost, GlobalError
    <2> QED BY <2>1, EscapeSound
  <1>5. ASSUME ~s.closed, e.kind \notin {"devices", "escape"}
        PROVE  Sound(NativeEvent(s, e), l, i, b, calls, show, op)
    <2>1. Honest(s, e) /\ Truthful(s, e) BY <1>5
    <2> DEFINE fault == [s EXCEPT !.outputFault = TRUE]
               noted == [s EXCEPT !.stageEnabled = e.stageEnabled,
                                  !.stageEnablePending = FALSE]
               u == NoteStage(s, e)
    <2>2. /\ Sound(fault, l, i, b, calls, show, op)
          /\ Sound(u, l, i, b, calls, show, op) /\ InStep(u)
      BY <2>1, StageNotedSound, FaultSound
    <2>3. CASE e.kind \in {"stage", "background-error"}
      <3>1. CASE e.sceneRevision = s.sceneRevision
        <4>1. NativeEvent(s, e) = Changed(noted) BY <1>5, <2>3, <3>1 DEF NativeEvent, Lost, GlobalError
        <4>2. Sound(noted, l, i, b, calls, show, op) BY <2>1, <3>1, StageNotedSound
        <4> HIDE DEF noted
        <4> QED BY <4>1, <4>2, MarksSound
      <3>2. CASE e.sceneRevision # s.sceneRevision
        <4>1. NativeEvent(s, e) = s BY <1>5, <2>3, <3>2 DEF NativeEvent, Lost, GlobalError
        <4> QED BY <4>1
      <3> QED BY <3>1, <3>2
    <2>4. CASE e.kind \notin {"stage", "background-error"} /\ Lost(s, e)
      <3>1. NativeEvent(s, e) = Fail(fault) BY <1>5, <2>4 DEF NativeEvent, Lost, GlobalError
      <3> HIDE DEF fault
      <3> QED BY <2>2, <3>1, StopsSound
    <2>5. CASE e.kind \notin {"stage", "background-error"} /\ ~Lost(s, e) /\ GlobalError(s, e)
      <3>1. NativeEvent(s, e) = Fail(s) BY <1>5, <2>5 DEF NativeEvent, Lost, GlobalError
      <3> QED BY <3>1, StopsSound
    <2>6. CASE /\ e.kind \notin {"stage", "background-error"}
               /\ ~Lost(s, e) /\ ~GlobalError(s, e)
      <3>1. CASE Fresh(s, e)
        <4>1. NativeEvent(s, e) = Follow(u, e) BY <1>5, <2>6, <3>1 DEF NativeEvent, Lost, GlobalError
        <4>2. /\ u.state = s.state /\ u.foreground = s.foreground
              /\ u.generation = s.generation /\ u.transportRevision = s.transportRevision
          BY <1>1 DEF NoteStage, Service
        <4> HIDE DEF u
        <4>3. Fresh(u, e) /\ Truthful(u, e)
          BY <2>1, <3>1, <4>2 DEF Fresh, Truthful, Expected
        <4> QED BY <2>2, <4>1, <4>3, FollowSound
      <3>2. CASE ~Fresh(s, e)
        <4>1. NativeEvent(s, e) = s BY <1>5, <2>6, <3>2 DEF NativeEvent, Lost, GlobalError
        <4> QED BY <4>1
      <3> QED BY <3>1, <3>2
    <2> QED BY <2>3, <2>4, <2>5, <2>6
  <1> QED BY <1>2, <1>3, <1>4, <1>5

\* What the invariant says at the start of a critical section.
LEMMA PlaybackFacts ==
  ASSUME PlaybackInv
  PROVE  /\ svc \in Service /\ config \in Config /\ loader \in Job
         /\ imageWorker \in Job /\ backgroundWorker \in Job /\ edit \in Edit
         /\ stageCalls \in StageCalls
         /\ \A s \in {svc, Enter(svc), Input(svc)} :
              /\ Sound(s, loader, imageWorker, backgroundWorker, stageCalls, config, edit)
              /\ InStep(s)
         /\ Input(svc).offAt < Input(svc).now
  <1>1. ReservationInv BY DEF PlaybackInv
  <1>2. /\ svc \in Service /\ config \in Config /\ loader \in Job
        /\ imageWorker \in Job /\ backgroundWorker \in Job /\ edit \in Edit
        /\ stageCalls \in StageCalls
        /\ InStep(svc) /\ InStep(Enter(svc)) /\ InStep(Input(svc))
        /\ Settled(svc, imageWorker, edit)
    BY <1>1, Disassemble
  <1>3. Sound(svc, loader, imageWorker, backgroundWorker, stageCalls, config, edit)
    BY <1>2 DEF PlaybackInv, Sound
  <1>4. WorkAgrees(svc, loader, imageWorker, backgroundWorker, stageCalls)
    BY DEF PlaybackInv
  <1>5. Input(svc).offAt < Input(svc).now BY <1>2, <1>4, MarksAgree
  <1> QED BY <1>2, <1>3, <1>5, MarksSound

\* To re-establish the invariant an action shows what it did to the service.
LEMMA Regain ==
  ASSUME ReservationInv',
         Sound(svc', loader', imageWorker', backgroundWorker', stageCalls', config', edit')
  PROVE  PlaybackInv'
  BY DEF PlaybackInv, Sound

\* A command that leaves the workers and the saved show alone: enough that the parts
\* hold of the new service.
LEMMA CommandSound ==
  ASSUME ReservationInv', CommandOnly,
         Sound(svc', loader, imageWorker, backgroundWorker, stageCalls, config, edit)
  PROVE  PlaybackInv'
  <1>1. /\ config' = config /\ loader' = loader /\ imageWorker' = imageWorker
        /\ backgroundWorker' = backgroundWorker /\ edit' = edit
        /\ stageCalls' = stageCalls
    BY DEF CommandOnly, workers
  <1> QED BY <1>1, Regain

\* Controller commands, STOP and Close.
LEMMA CommandsSound ==
  ASSUME PlaybackInv, ReservationInv', Commands
  PROVE  PlaybackInv'
  <1> DEFINE s == Input(svc)
             Kind(t) == Sound(t, loader, imageWorker, backgroundWorker, stageCalls, config,
                              edit)
  <1>1. /\ svc \in Service /\ config \in Config /\ loader \in Job
        /\ imageWorker \in Job /\ backgroundWorker \in Job /\ edit \in Edit
        /\ stageCalls \in StageCalls
        /\ Kind(s) /\ InStep(s) /\ s.offAt < s.now
    BY PlaybackFacts
  <1>2. /\ s.closed = svc.closed /\ s.updatePending = svc.updatePending
        /\ s.removing = svc.removing /\ s.foreground = svc.foreground
        /\ s.activeCue = svc.activeCue /\ s.state = svc.state
    BY <1>1 DEF Input, Service
  <1> HIDE DEF s
  <1>3. ASSUME Kind(svc'), CommandOnly PROVE PlaybackInv' BY <1>3, CommandSound
  <1>4. CASE SetMasterVolume
    <2>1. svc' = Changed(ApplyScene(s, FALSE)) /\ CommandOnly
      BY <1>4 DEF SetMasterVolume, s
    <2>2. Kind(ApplyScene(s, FALSE)) BY <1>1, MarksSound
    <2>3. Kind(svc') BY <1>1, <2>1, <2>2, MarksSound
    <2> QED BY <1>3, <2>1, <2>3
  <1>5. CASE PauseOrResume
    <2>1. PICK paused \in BOOLEAN : svc' = SetPaused(s, paused) /\ CommandOnly
      BY <1>5 DEF PauseOrResume, s
    <2>2. Kind(svc') BY <1>1, <2>1, SelectsSound
    <2> QED BY <1>3, <2>1, <2>2
  <1>6. CASE Seek
    <2>1. svc' = SetPosition(s) /\ CommandOnly /\ CanSeek(svc) BY <1>6 DEF Seek, s
    <2>2. CanSeek(s) BY <1>2, <2>1 DEF CanSeek
    <2>3. Kind(svc') BY <1>1, <2>1, <2>2, SelectsSound
    <2> QED BY <1>3, <2>1, <2>3
  <1>7. CASE PressImageAgain
    <2>1. svc' = StopImage(s) /\ CommandOnly BY <1>7 DEF PressImageAgain, s
    <2>2. Kind(svc') BY <1>1, <2>1, StopsSound
    <2> QED BY <1>3, <2>1, <2>2
  <1>8. CASE PressForegroundAgain
    <2> DEFINE paused == ~svc.paused
    <2>1. svc' = SetPaused(s, paused) /\ CommandOnly BY <1>8 DEF PressForegroundAgain, s
    <2>2. paused \in BOOLEAN OBVIOUS
    <2> HIDE DEF paused
    <2>3. Kind(svc') BY <1>1, <2>1, <2>2, SelectsSound
    <2> QED BY <1>3, <2>1, <2>3
  <1>9. CASE PressBackgroundAgain
    <2>1. svc' = Changed(ClearBackgroundOverride(s, config)) /\ CommandOnly
      BY <1>9 DEF PressBackgroundAgain, s
    <2>2. Kind(ClearBackgroundOverride(s, config)) BY <1>1, ClearOverrideSound
    <2>3. Kind(svc') BY <1>1, <2>1, <2>2, MarksSound
    <2> QED BY <1>3, <2>1, <2>3
  <1>10. CASE PressBackground
    <2>1. PICK cue \in Cues :
            /\ cue \in config.cues
            /\ svc' = Changed(SelectBackground([s EXCEPT !.backgroundOverride = cue],
                                               config.cues, cue))
            /\ CommandOnly
      BY <1>10 DEF PressBackground, Pressed, s
    <2> DEFINE t == [s EXCEPT !.backgroundOverride = cue]
               u == SelectBackground(t, config.cues, cue)
    <2>2. Kind(t) /\ InStep(t) BY <1>1, <2>1, SelectsSound
    <2>3. svc' = Changed(u) BY <2>1
    <2> HIDE DEF t
    <2>4. cue \in CueRef BY DEF CueRef
    <2>5. Kind(u) BY <1>1, <2>1, <2>2, <2>4, SelectsSound
    <2> HIDE DEF u
    <2>6. Kind(svc') BY <1>1, <2>3, <2>5, MarksSound
    <2> QED BY <1>3, <2>1, <2>6
  <1>11. CASE PressImage
    <2>1. PICK cue \in Cues : /\ ~svc.updatePending /\ ~svc.closed
                              /\ cue \in config.cues \ svc.removing
                              /\ svc' = Changed(SelectImage(s, cue))
                              /\ CommandOnly
      BY <1>11 DEF PressImage, Pressed, Admitted, Unblocked, s
    <2>2. Kind(SelectImage(s, cue)) BY <1>1, <1>2, <2>1, SelectsSound
    <2>3. Kind(svc') BY <1>1, <2>1, <2>2, MarksSound
    <2> QED BY <1>3, <2>1, <2>3
  <1>12. CASE PressForeground
    <2>1. PICK cue \in Cues : /\ ~svc.updatePending /\ ~svc.closed
                              /\ cue \in config.cues \ svc.removing
                              /\ svc' = SelectForeground(s, cue)
                              /\ CommandOnly
      BY <1>12 DEF PressForeground, Pressed, Admitted, Unblocked, s
    <2>2. Kind(svc') BY <1>1, <1>2, <2>1, SelectsSound
    <2> QED BY <1>3, <2>1, <2>2
  <1>13. CASE Stop
    <2>1. svc' \in Halted(StopForeground(s, TRUE, FALSE)) /\ CommandOnly
      BY <1>13 DEF Stop, s
    <2>2. Kind(svc') BY <1>1, <2>1, HaltsSound
    <2> QED BY <1>3, <2>1, <2>2
  <1>14. CASE EmergencyStop
    <2> DEFINE d == Disarm(s)
               t == [d EXCEPT !.stageEnabled = FALSE]
    <2>1. svc' \in Halted(StopForeground(t, TRUE, TRUE)) /\ CommandOnly
      BY <1>14 DEF EmergencyStop, s
    <2>2. Kind(d) BY <1>1, MarksSound
    <2> HIDE DEF d
    <2>3. Kind(t) BY <2>2, LoweredSound
    <2> HIDE DEF t
    <2>4. Kind(svc') BY <1>1, <2>1, <2>3, HaltsSound
    <2> QED BY <1>3, <2>1, <2>4
  <1>15. CASE Close
    <2> DEFINE d == Disarm(s)
               h == StopForeground(d, TRUE, TRUE)
               t == [h EXCEPT !.closed = TRUE]
    <2>1. svc' = t /\ CommandOnly BY <1>15 DEF Close, s
    <2>2. Kind(d) BY <1>1, MarksSound
    <2>3. Kind(h) BY <1>1, <2>2, StopsSound
    <2>4. d \in Service BY <2>2 DEF Sound, Settled
    <2> HIDE DEF d
    <2>5. Resting(h) /\ h.pendingImage = NoCue
      <3>1. Resting(h) BY <2>4, StopForegroundRests
      <3>2. h.pendingImage = NoCue
        BY <2>4 DEF StopForeground, Changed, ApplyScene, ClearImage, ClearActive,
                    Invalidate, Service
      <3> QED BY <3>1, <3>2
    <2> HIDE DEF h
    <2>6. h \in Service BY <2>3 DEF Sound, Settled
    <2>7. t \in Service BY <2>6, BoolFields
    <2>8. Kept(h, t) /\ t.generation = h.generation BY <2>6 DEF Kept, Service
    <2>9. Settled(t, imageWorker, edit) BY <2>3, <2>7, <2>8, KeptSteady DEF Sound
    <2>10. /\ WorkAgrees(t, loader, imageWorker, backgroundWorker, stageCalls)
           /\ SelectionsAgree(t, config, edit)
      BY <1>1, <2>3, <2>5, <2>6, WorkKept, SelectionsKept DEF Sound
    <2>11. Kind(svc') BY <2>1, <2>9, <2>10 DEF Sound
    <2> QED BY <1>3, <2>1, <2>11
  <1> QED BY <1>4, <1>5, <1>6, <1>7, <1>8, <1>9, <1>10, <1>11, <1>12, <1>13, <1>14,
             <1>15 DEF Commands

\* The derived validation cache never touches the show itself.
LEMMA RememberKeepsShow ==
  ASSUME config \in Config, NEW cue, NEW found
  PROVE  /\ Remember(cue, found).cues = config.cues
         /\ Remember(cue, found).defaultBackground = config.defaultBackground
         /\ RememberVisual(cue, found).cues = config.cues
         /\ RememberVisual(cue, found).defaultBackground = config.defaultBackground
  BY DEF Remember, RememberVisual, Config

\* The three preparation workers: a job is taken from its mailbox, dropped
\* because nobody wants it any more, or committed.
LEMMA PreparationSound ==
  ASSUME PlaybackInv, ReservationInv', Preparation
  PROVE  PlaybackInv'
  <1> DEFINE s == Enter(svc)
  <1>1. /\ svc \in Service /\ config \in Config /\ loader \in Job
        /\ imageWorker \in Job /\ backgroundWorker \in Job /\ edit \in Edit
        /\ stageCalls \in StageCalls
        /\ Sound(svc, loader, imageWorker, backgroundWorker, stageCalls, config, edit)
        /\ Sound(s, loader, imageWorker, backgroundWorker, stageCalls, config, edit)
        /\ InStep(s)
    BY PlaybackFacts
  <1>2. /\ s.closed = svc.closed /\ s.state = svc.state /\ s.generation = svc.generation
        /\ s.visualSequence = svc.visualSequence
    BY <1>1 DEF Enter, Service
  <1>3. /\ s \in Service /\ Settled(s, imageWorker, edit) /\ Settled(svc, imageWorker, edit)
        /\ WorkAgrees(s, loader, imageWorker, backgroundWorker, stageCalls)
        /\ WorkAgrees(svc, loader, imageWorker, backgroundWorker, stageCalls)
        /\ SelectionsAgree(s, config, edit) /\ SelectionsAgree(svc, config, edit)
    BY <1>1 DEF Sound, Settled
  <1> HIDE DEF s
  <1>4. ASSUME WorkAgrees(svc', loader', imageWorker', backgroundWorker', stageCalls'),
               SelectionsAgree(svc', config', edit')
        PROVE  PlaybackInv'
    BY <1>4 DEF PlaybackInv
  <1>5. ASSUME NEW t, Same(svc, t, SelectionFields) \/ Same(s, t, SelectionFields)
        PROVE  SelectionsAgree(t, config, edit)
    BY <1>3, <1>5, PartsRead
  <1>6. CASE TakeLoad
    <2> DEFINE t == [svc EXCEPT !.loads = NoJob]
    <2>1. /\ loader = NoJob /\ svc.loads # NoJob /\ loader' = svc.loads /\ svc' = t
          /\ config' = config /\ imageWorker' = imageWorker
          /\ backgroundWorker' = backgroundWorker /\ edit' = edit
          /\ stageCalls' = stageCalls
      BY <1>6 DEF TakeLoad
    <2>2. WorkAgrees(t, svc.loads, imageWorker, backgroundWorker, stageCalls)
      BY <1>1, <1>3, <2>1, WorkDone
    <2>3. Same(svc, t, SelectionFields) BY <1>1 DEF Same, SelectionFields, Service
    <2> HIDE DEF t
    <2>4. SelectionsAgree(t, config, edit) BY <1>5, <2>3
    <2> QED BY <1>4, <2>1, <2>2, <2>4
  <1>7. CASE FinishLoad
    <2>1. PICK found \in Findings, outputs \in BOOLEAN :
            /\ loader # NoJob /\ LoadIsCurrent(loader)
            /\ config' = Remember(loader.cue, found)
            /\ svc' = CASE found \notin Kinds \/ ~outputs -> Fail(s)
                        [] found = "image" /\ outputs -> CommitAsImage(s, loader)
                        [] found \in {"audio", "video"} /\ outputs ->
                             CommitForeground(s, loader, found)
            /\ loader' = NoJob
            /\ UNCHANGED <<imageWorker, backgroundWorker, edit, stageCalls>>
      BY <1>7 DEF FinishLoad, s
    <2>2. s.state = "loading" /\ loader.tag = s.generation
      BY <1>2, <2>1 DEF LoadIsCurrent
    <2>3. loader.cue = s.activeCue BY <1>3, <2>2 DEF WorkAgrees, LoadsAgree
    <2>4. /\ WorkAgrees(Fail(s), NoJob, imageWorker, backgroundWorker, stageCalls)
          /\ SelectionsAgree(Fail(s), config, edit)
      <3> DEFINE t == Fail(s)
      <3>1. Sound(t, loader, imageWorker, backgroundWorker, stageCalls, config, edit)
        BY <1>1, StopsSound
      <3>2. t.state = "error"
        BY <1>3 DEF Fail, Changed, ApplyScene, Disarm, ClearImage, ClearActive, Invalidate,
                    Service
      <3> HIDE DEF t
      <3>3. t \in Service BY <3>1 DEF Sound, Settled
      <3>4. WorkAgrees(t, NoJob, imageWorker, backgroundWorker, stageCalls)
        BY <1>1, <3>1, <3>2, <3>3, WorkDone DEF Sound
      <3> QED BY <3>1, <3>4 DEF Sound, t
    <2>5. /\ WorkAgrees(CommitAsImage(s, loader), NoJob, imageWorker, backgroundWorker,
                        stageCalls)
          /\ SelectionsAgree(CommitAsImage(s, loader), config, edit)
      BY <1>1, <1>3, <2>1, <2>2, <2>3, WorkDone, SelectionsWorked
    <2>6. ASSUME NEW kind \in Kinds
          PROVE  /\ WorkAgrees(CommitForeground(s, loader, kind), NoJob, imageWorker,
                               backgroundWorker, stageCalls)
                 /\ SelectionsAgree(CommitForeground(s, loader, kind), config, edit)
      <3> DEFINE t == CommitForeground(s, loader, kind)
      <3>1. WorkAgrees(t, NoJob, imageWorker, backgroundWorker, stageCalls)
        BY <1>1, <1>3, <2>1, <2>2, WorkDone
      <3>2. Same(s, t, SelectionFields) BY <1>3, HelpersLeave, SameSubset
      <3> HIDE DEF t
      <3>3. SelectionsAgree(t, config, edit) BY <1>5, <3>2
      <3> QED BY <3>1, <3>3 DEF t
    <2>7. \/ svc' = Fail(s) \/ svc' = CommitAsImage(s, loader)
          \/ \E kind \in Kinds : svc' = CommitForeground(s, loader, kind)
      BY <2>1 DEF Kinds
    <2>8. /\ WorkAgrees(svc', NoJob, imageWorker, backgroundWorker, stageCalls)
          /\ SelectionsAgree(svc', config, edit)
      BY <2>4, <2>5, <2>6, <2>7
    <2>9. /\ config' \in Config /\ config'.cues = config.cues
          /\ config'.defaultBackground = config.defaultBackground
      BY <1>1, <2>1, RememberType, RememberKeepsShow
    <2>10. svc' \in Service BY DEF ReservationInv, TypeOK
    <2>11. SelectionsAgree(svc', config', edit)
      BY <1>1, <2>8, <2>9, <2>10, SelectionsWorked
    <2> QED BY <1>4, <2>1, <2>8, <2>11
  <1>8. CASE DropLoad
    <2>1. /\ svc' = svc /\ config' = config /\ loader' = NoJob
          /\ imageWorker' = imageWorker /\ backgroundWorker' = backgroundWorker
          /\ edit' = edit /\ stageCalls' = stageCalls /\ ~LoadIsCurrent(loader)
      BY <1>8 DEF DropLoad
    <2>2. svc.closed => svc.state # "loading"
      BY <1>3 DEF WorkAgrees, LoadsAgree, Resting
    <2>3. loader.tag # svc.generation \/ svc.state # "loading"
      BY <2>1, <2>2 DEF LoadIsCurrent
    <2>4. WorkAgrees(svc, NoJob, imageWorker, backgroundWorker, stageCalls)
      BY <1>1, <1>3, <2>3, WorkDone
    <2> QED BY <1>3, <1>4, <2>1, <2>4
  <1>9. CASE TakeImage
    <2> DEFINE t == [svc EXCEPT !.visualLoads = NoJob]
    <2>1. /\ imageWorker = NoJob /\ svc.visualLoads # NoJob
          /\ imageWorker' = svc.visualLoads /\ svc' = t
          /\ config' = config /\ loader' = loader
          /\ backgroundWorker' = backgroundWorker /\ edit' = edit
          /\ stageCalls' = stageCalls
      BY <1>9 DEF TakeImage
    <2>2. WorkAgrees(t, loader, svc.visualLoads, backgroundWorker, stageCalls)
      BY <1>1, <1>3, <2>1, WorkDone
    <2>3. Same(svc, t, SelectionFields) BY <1>1 DEF Same, SelectionFields, Service
    <2> HIDE DEF t
    <2>4. SelectionsAgree(t, config, edit) BY <1>5, <2>3
    <2> QED BY <1>4, <2>1, <2>2, <2>4
  <1>10. CASE FinishImage
    <2> DEFINE x == [s EXCEPT !.pendingImage = NoCue]
               t == Changed(ApplyScene(x, FALSE))
    <2>1. PICK found \in Findings, outputs \in BOOLEAN :
            /\ imageWorker # NoJob /\ ImageIsCurrent(imageWorker)
            /\ config' = RememberVisual(imageWorker.cue, found)
            /\ svc' = IF found = "image" /\ outputs THEN CommitVisual(s, imageWorker)
                      ELSE t
            /\ imageWorker' = NoJob
            /\ UNCHANGED <<loader, backgroundWorker, edit, stageCalls>>
      BY <1>10 DEF FinishImage, s
    <2>2. imageWorker # NoJob /\ imageWorker.tag = s.visualSequence
      BY <1>2, <2>1 DEF ImageIsCurrent
    <2>3. imageWorker.cue = s.pendingImage BY <1>3, <2>2 DEF WorkAgrees, ImagesAgree
    <2>4. /\ WorkAgrees(CommitVisual(s, imageWorker), loader, NoJob, backgroundWorker,
                        stageCalls)
          /\ SelectionsAgree(CommitVisual(s, imageWorker), config, edit)
      BY <1>1, <1>3, <2>2, <2>3, WorkDone, SelectionsWorked
    <2>5. WorkAgrees(t, loader, NoJob, backgroundWorker, stageCalls)
      BY <1>1, <1>3, <2>2, WorkDone
    <2>6. SelectionsAgree(x, config, edit) BY <1>1, <1>3, SelectionsWorked
    <2>7. Same(x, t, SelectionFields)
      BY <1>3 DEF Same, SelectionFields, Changed, ApplyScene, Service
    <2> HIDE DEF x, t
    <2>8. SelectionsAgree(t, config, edit) BY <2>6, <2>7, PartsRead
    <2>9. /\ WorkAgrees(svc', loader, NoJob, backgroundWorker, stageCalls)
          /\ SelectionsAgree(svc', config, edit)
      BY <2>1, <2>4, <2>5, <2>8
    <2>10. /\ config' \in Config /\ config'.cues = config.cues
           /\ config'.defaultBackground = config.defaultBackground
      BY <1>1, <2>1, RememberType, RememberKeepsShow
    <2>11. svc' \in Service BY DEF ReservationInv, TypeOK
    <2>12. SelectionsAgree(svc', config', edit)
      BY <1>1, <2>9, <2>10, <2>11, SelectionsWorked
    <2> QED BY <1>4, <2>1, <2>9, <2>12
  <1>11. CASE DropImage
    <2>1. /\ svc' = svc /\ config' = config /\ loader' = loader
          /\ imageWorker' = NoJob /\ backgroundWorker' = backgroundWorker
          /\ edit' = edit /\ stageCalls' = stageCalls /\ ~ImageIsCurrent(imageWorker)
      BY <1>11 DEF DropImage
    <2>2. WorkAgrees(svc, loader, NoJob, backgroundWorker, stageCalls)
      BY <1>1, <1>3, <2>1, WorkDone DEF ImageIsCurrent
    <2> QED BY <1>3, <1>4, <2>1, <2>2
  <1>12. CASE TakeBackground
    <2> DEFINE t == [svc EXCEPT !.backgroundLoads = NoJob]
    <2>1. /\ backgroundWorker = NoJob /\ svc.backgroundLoads # NoJob
          /\ backgroundWorker' = svc.backgroundLoads /\ svc' = t
          /\ config' = config /\ loader' = loader /\ imageWorker' = imageWorker
          /\ edit' = edit /\ stageCalls' = stageCalls
      BY <1>12 DEF TakeBackground
    <2>2. WorkAgrees(t, loader, imageWorker, svc.backgroundLoads, stageCalls)
      BY <1>1, <1>3, <2>1, WorkDone
    <2>3. Same(svc, t, SelectionFields) BY <1>1 DEF Same, SelectionFields, Service
    <2> HIDE DEF t
    <2>4. SelectionsAgree(t, config, edit) BY <1>5, <2>3
    <2> QED BY <1>4, <2>1, <2>2, <2>4
  <1>13. CASE FinishBackground
    <2>1. PICK found \in Findings, outputs \in BOOLEAN :
            /\ config' = RememberVisual(backgroundWorker.cue, found)
            /\ svc' = Changed(ApplyScene(
                        [s EXCEPT !.background =
                           IF found = "image" \/ (found = "video" /\ outputs)
                           THEN backgroundWorker.cue ELSE NoCue],
                        FALSE))
            /\ backgroundWorker' = NoJob
            /\ UNCHANGED <<loader, imageWorker, edit, stageCalls>>
      BY <1>13 DEF FinishBackground, s
    <2> DEFINE cue == IF found = "image" \/ (found = "video" /\ outputs)
                      THEN backgroundWorker.cue ELSE NoCue
               t == Changed(ApplyScene([s EXCEPT !.background = cue], FALSE))
    <2>2. svc' = t BY <2>1
    <2> HIDE DEF cue
    <2>3. WorkAgrees(t, loader, imageWorker, NoJob, stageCalls) BY <1>1, <1>3, WorkDone
    <2>4. Same(s, t, SelectionFields)
      BY <1>3 DEF Same, SelectionFields, Changed, ApplyScene, Service
    <2> HIDE DEF t
    <2>5. SelectionsAgree(t, config, edit) BY <1>5, <2>4
    <2>6. /\ config' \in Config /\ config'.cues = config.cues
          /\ config'.defaultBackground = config.defaultBackground
      BY <1>1, <2>1, RememberType, RememberKeepsShow
    <2>7. svc' \in Service BY DEF ReservationInv, TypeOK
    <2>8. SelectionsAgree(svc', config', edit)
      BY <1>1, <2>2, <2>5, <2>6, <2>7, SelectionsWorked
    <2> QED BY <1>4, <2>1, <2>2, <2>3, <2>8
  <1>14. CASE DropBackground
    <2>1. /\ svc' = svc /\ config' = config /\ loader' = loader
          /\ imageWorker' = imageWorker /\ backgroundWorker' = NoJob
          /\ edit' = edit /\ stageCalls' = stageCalls
          /\ ~BackgroundIsCurrent(backgroundWorker)
      BY <1>14 DEF DropBackground
    <2>2. WorkAgrees(svc, loader, imageWorker, NoJob, stageCalls)
      BY <1>1, <1>3, <2>1, WorkDone DEF BackgroundIsCurrent
    <2> QED BY <1>3, <1>4, <2>1, <2>2
  <1> QED BY <1>6, <1>7, <1>8, <1>9, <1>10, <1>11, <1>12, <1>13, <1>14 DEF Preparation

\* What a source reports under its newest transport revision agrees with the
\* pause intent that revision carried.
LEMMA ReportsTruthful ==
  ASSUME svc \in Service, NEW e \in SourceReports \cup SceneReports \cup Failures
  PROVE  Truthful(svc, e)
  <1>1. CASE e \in SourceReports
    <2>1. /\ e.generation \in {0, svc.foreground.id}
          /\ e.transportRevision \in {0, svc.foreground.transportRevision}
          /\ e.kind \in {IF svc.foreground.paused THEN "paused" ELSE "playing", "progress",
                         "ended"}
      BY <1>1 DEF SourceReports, Reports
    <2>2. svc.foreground.paused \in BOOLEAN BY DEF Service, Source
    <2>3. CASE svc.foreground.paused = TRUE BY <2>1, <2>3 DEF Truthful
    <2>4. CASE svc.foreground.paused = FALSE BY <2>1, <2>4 DEF Truthful
    <2> QED BY <2>2, <2>3, <2>4
  <1>2. CASE e \in SceneReports \cup Failures
    <2>1. e.kind \notin {"playing", "paused", "progress", "ended"} \/ e.kind = "stopped"
      BY <1>2 DEF SceneReports, Failures, Reports
    <2> QED BY <2>1 DEF Truthful
  <1> QED BY <1>1, <1>2

\* Reports and failures of the renderer, and Escape.
LEMMA ReportedSound ==
  ASSUME PlaybackInv, ReservationInv', Reported
  PROVE  PlaybackInv'
  <1> DEFINE Kind(t) == Sound(t, loader, imageWorker, backgroundWorker, stageCalls, config,
                              edit)
  <1>1. /\ svc \in Service /\ config \in Config /\ loader \in Job
        /\ imageWorker \in Job /\ backgroundWorker \in Job /\ edit \in Edit
        /\ stageCalls \in StageCalls
        /\ Kind(Enter(svc)) /\ InStep(Enter(svc))
        /\ Kind(Input(svc)) /\ InStep(Input(svc))
    BY PlaybackFacts
  <1>2. \A t \in {Enter(svc), Input(svc)} :
          /\ t.scene = svc.scene /\ t.sceneRevision = svc.sceneRevision
          /\ t.foreground = svc.foreground
    BY <1>1 DEF Enter, Input, Service
  <1>3. /\ svc.foreground.id \in Nat /\ svc.foreground.transportRevision \in Nat
        /\ svc.scene.generation \in Nat /\ svc.scene.transportRevision \in Nat
    BY <1>1 DEF Service, Source, Scene
  <1>4. ASSUME NEW e \in SourceReports \cup SceneReports \cup Failures,
               svc.sceneRevision # 0, NEW t \in {Enter(svc), Input(svc)}
        PROVE  Kind(NativeEvent(t, e))
    <2>1. e \in Event /\ Honest(svc, e)
      <3>1. CASE e \in SourceReports
        BY <1>1, <1>3, <1>4, <3>1, ReportsHonest DEF SourceReports
      <3>2. CASE e \in SceneReports
        BY <1>1, <1>3, <1>4, <3>2, ReportsHonest DEF SceneReports
      <3>3. CASE e \in Failures
        BY <1>1, <1>3, <1>4, <3>3, ReportsHonest DEF Failures
      <3> QED BY <3>1, <3>2, <3>3
    <2>2. Truthful(svc, e) BY <1>1, ReportsTruthful
    <2>3. Honest(t, e) /\ Truthful(t, e) BY <1>2, <2>1, <2>2 DEF Honest, Truthful
    <2>4. Kind(t) /\ InStep(t) BY <1>1, <1>4
    <2> QED BY <1>1, <2>1, <2>3, <2>4, NativeEventSound
  <1>5. CASE SaysSo
    <2>1. PICK e \in SourceReports \cup SceneReports :
            /\ svc.sceneRevision # 0
            /\ svc' = NativeEvent(Enter(svc), e) /\ CommandOnly
      BY <1>5 DEF SaysSo, Reported
    <2>2. Kind(svc') BY <1>4, <2>1
    <2> QED BY <2>1, <2>2, CommandSound
  <1>6. CASE SaysFault
    <2>1. PICK e \in Failures :
            /\ svc.sceneRevision # 0
            /\ svc' = NativeEvent(Input(svc), e) /\ CommandOnly
      BY <1>6 DEF SaysFault, Reported
    <2>2. Kind(svc') BY <1>4, <2>1
    <2> QED BY <2>1, <2>2, CommandSound
  <1>7. CASE SaysEscape
    <2> DEFINE e == EscapeEvent
    <2>1. svc' = NativeEvent(Input(svc), e) /\ CommandOnly BY <1>7 DEF SaysEscape, Reported
    <2>2. e \in Event /\ e.kind = "escape" BY <1>3 DEF Event, EscapeEvent
    <2> HIDE DEF e
    <2>3. Kind(svc') BY <1>1, <2>1, <2>2, NativeEventSound
    <2> QED BY <2>1, <2>3, CommandSound
  <1> QED BY <1>5, <1>6, <1>7 DEF Reported

\* Reserving the host for an update, and releasing it.
LEMMA UpdateSound ==
  ASSUME PlaybackInv, ReservationInv', Update
  PROVE  PlaybackInv'
  <1> DEFINE Good(t) == /\ WorkAgrees(t, loader, imageWorker, backgroundWorker, stageCalls)
                        /\ SelectionsAgree(t, config, edit)
  <1>1. /\ svc \in Service /\ config \in Config /\ loader \in Job
        /\ imageWorker \in Job /\ backgroundWorker \in Job /\ edit \in Edit
        /\ stageCalls \in StageCalls
        /\ Sound(Enter(svc), loader, imageWorker, backgroundWorker, stageCalls, config, edit)
        /\ Sound(Input(svc), loader, imageWorker, backgroundWorker, stageCalls, config, edit)
    BY PlaybackFacts
  <1>2. CommandOnly
    BY DEF Update, ReserveUpdate, ReleaseUpdate
  <1>3. ASSUME Good(svc') PROVE PlaybackInv'
    <2>1. /\ config' = config /\ loader' = loader /\ imageWorker' = imageWorker
          /\ backgroundWorker' = backgroundWorker /\ edit' = edit
          /\ stageCalls' = stageCalls
      BY <1>2 DEF CommandOnly, workers
    <2> QED BY <1>3, <2>1 DEF PlaybackInv
  <1>4. CASE ReserveUpdate
    <2> DEFINE s == Input(svc)
               c == Invalidate(s)
               u == [c EXCEPT !.stopEpoch = c.stopEpoch + 1]
               t == [u EXCEPT !.updatePending = TRUE]
    <2>1. svc.state = "stopped" /\ svc' = Changed(t) BY <1>4 DEF ReserveUpdate
    <2>2. s \in Service /\ s.state = svc.state
      BY <1>1 DEF Sound, Settled, Input, Service
    <2> HIDE DEF s
    <2>3. Resting(s) BY <2>1, <2>2 DEF Resting
    <2>4. WorkAgrees(c, loader, imageWorker, backgroundWorker, stageCalls)
      BY <1>1, <2>2, <2>3, WorkKept DEF Sound, s
    <2>5. Same(s, c, SelectionFields) BY <2>2, HelpersLeave, SameSubset
    <2>6. SelectionsAgree(c, config, edit) BY <1>1, <2>5, PartsRead DEF Sound, s
    <2>7. c \in Service BY <2>2, InvalidateType
    <2> HIDE DEF c
    <2>8. u \in Service
      <3>1. c.stopEpoch + 1 \in Nat BY <2>7 DEF Service
      <3> QED BY <2>7, <3>1, NatFields
    <2>9. Alike(c, u) BY <2>7, FreeWrites
    <2> HIDE DEF u
    <2>10. t \in Service /\ Alike(u, t) BY <2>8, BoolFields, FreeWrites
    <2> HIDE DEF t
    <2>11. Alike(t, Changed(t)) BY <2>10, FreeWrites
    <2>12. Good(svc') BY <2>1, <2>4, <2>6, <2>9, <2>10, <2>11, AlikeSound
    <2> QED BY <1>3, <2>12
  <1>5. CASE ReleaseUpdate
    <2> DEFINE s == Enter(svc)
               t == [s EXCEPT !.updatePending = FALSE]
    <2>1. svc' = Changed(t) BY <1>5 DEF ReleaseUpdate
    <2>2. s \in Service BY <1>1 DEF Sound, Settled
    <2>3. Good(s) BY <1>1 DEF Sound
    <2> HIDE DEF s
    <2>4. t \in Service /\ Alike(s, t) BY <2>2, BoolFields, FreeWrites
    <2> HIDE DEF t
    <2>5. Alike(t, Changed(t)) BY <2>4, FreeWrites
    <2>6. Good(svc') BY <2>1, <2>3, <2>4, <2>5, AlikeSound
    <2> QED BY <1>3, <2>6
  <1> QED BY <1>4, <1>5 DEF Update

\* Stage on and off: the call enumerates devices between two critical sections
\* and is honoured only under the serial it took.
LEMMA StageSound ==
  ASSUME PlaybackInv, ReservationInv', Stage
  PROVE  PlaybackInv'
  <1>1. /\ svc \in Service /\ config \in Config /\ loader \in Job
        /\ imageWorker \in Job /\ backgroundWorker \in Job /\ edit \in Edit
        /\ stageCalls \in StageCalls /\ Input(svc).offAt < Input(svc).now
        /\ \A s \in {svc, Enter(svc), Input(svc)} :
             Sound(s, loader, imageWorker, backgroundWorker, stageCalls, config, edit)
    BY PlaybackFacts
  <1>2. CASE StageOff
    <2> DEFINE Kind(x) == Sound(x, loader, imageWorker, backgroundWorker, stageCalls,
                                config, edit)
               d == Disarm(Input(svc))
               t == [d EXCEPT !.stageEnablePending = FALSE]
    <2>1. svc' = Changed(ApplyScene(t, FALSE)) /\ CommandOnly BY <1>2 DEF StageOff
    <2>2. Kind(d) BY <1>1, MarksSound
    <2> HIDE DEF d
    <2>3. d \in Service BY <2>2 DEF Sound, Settled
    <2>4. t \in Service /\ Alike(d, t) BY <2>3, BoolFields, FreeWrites
    <2>5. Kept(d, t) BY <2>3 DEF Kept, Service
    <2> HIDE DEF t
    <2>6. Kind(t) BY <2>2, <2>4, <2>5, UnreadSound
    <2>7. Kind(ApplyScene(t, FALSE)) BY <1>1, <2>6, MarksSound
    <2>8. Kind(svc') BY <1>1, <2>1, <2>7, MarksSound
    <2> QED BY <2>1, <2>8, CommandSound
  <1>3. CASE StageOnBegin
    <2> DEFINE s == Input(svc)
               t == [s EXCEPT !.stageSerial = @ + 1]
               call == [serial |-> s.stageSerial + 1, at |-> s.now]
    <2>1. /\ svc' = t /\ config' = config /\ loader' = loader
          /\ imageWorker' = imageWorker /\ backgroundWorker' = backgroundWorker
          /\ edit' = edit
      BY <1>3 DEF StageOnBegin, workers
    <2>2. s.stageSerial = svc.stageSerial /\ s.now = svc.now + 1 /\ s \in Service
      BY <1>1 DEF Input, Service, Sound, Settled
    <2>3. stageCalls' = stageCalls \cup {call} BY <1>3, <2>2 DEF StageOnBegin
    <2>4. Sound(s, loader, imageWorker, backgroundWorker, stageCalls, config, edit)
          /\ s.offAt < s.now
      BY <1>1
    <2> HIDE DEF s
    <2>5. OffHonoured(t, loader, imageWorker, stageCalls \cup {call})
      BY <1>1, <2>2, <2>4, OffWorked DEF Sound, WorkAgrees
    <2>6. /\ Same(s, t, LoadFields) /\ Same(s, t, ImageFields)
          /\ Same(s, t, BackgroundFields) /\ Same(s, t, SceneFields)
          /\ Same(s, t, SelectionFields) /\ t.wedged = s.wedged
      BY <2>2 DEF Service, Same, LoadFields, ImageFields, BackgroundFields, SceneFields,
                  SelectionFields
    <2> HIDE DEF t, call
    <2>7. WorkAgrees(t, loader, imageWorker, backgroundWorker, stageCalls \cup {call})
      BY <2>4, <2>5, <2>6, PartsRead DEF Sound, WorkAgrees
    <2>8. SelectionsAgree(t, config, edit) BY <2>4, <2>6, PartsRead DEF Sound
    <2> QED BY <2>1, <2>3, <2>7, <2>8 DEF PlaybackInv
  <1>4. CASE StageOnEnd
    <2> DEFINE s == Enter(svc)
    <2>1. PICK call \in stageCalls :
            /\ stageCalls' = stageCalls \ {call} /\ ~svc.updatePending
            /\ call.serial = svc.stageSerial
            /\ svc' = Changed([ApplyScene([s EXCEPT !.stageDesired = TRUE,
                                                    !.armedAt = call.at], FALSE)
                               EXCEPT !.stageEnablePending = TRUE])
            /\ UNCHANGED <<config, workers, edit>>
      BY <1>4 DEF StageOnEnd
    <2> DEFINE calls == stageCalls \ {call}
               shown == [s EXCEPT !.stageDesired = TRUE, !.armedAt = call.at]
               a == ApplyScene(shown, FALSE)
               t == [a EXCEPT !.stageEnablePending = TRUE]
    <2>2. call.at \in Nat BY <1>1 DEF StageCalls
    <2>3. /\ Sound(s, loader, imageWorker, backgroundWorker, stageCalls, config, edit)
          /\ s \in Service /\ s.stageSerial = svc.stageSerial
          /\ s.updatePending = svc.updatePending
      BY <1>1 DEF Enter, Service, Sound, Settled
    <2>4. svc' = Changed(t) BY <2>1
    <2> HIDE DEF s
    <2>5. Settled(shown, imageWorker, edit)
      BY <2>1, <2>2, <2>3, ShownSettles, Zenon DEF Sound
    <2>6. OffHonoured(shown, loader, imageWorker, calls)
      BY <1>1, <2>1, <2>3, OffWorked DEF Sound, WorkAgrees
    <2>7. /\ Same(s, shown, LoadFields) /\ Same(s, shown, ImageFields)
          /\ Same(s, shown, BackgroundFields) /\ Same(s, shown, SceneFields)
          /\ Same(s, shown, SelectionFields) /\ shown.wedged = s.wedged
      BY <2>3 DEF Service, Same, LoadFields, ImageFields, BackgroundFields, SceneFields,
                  SelectionFields
    <2> HIDE DEF shown
    <2>8. WorkAgrees(shown, loader, imageWorker, backgroundWorker, calls)
      BY <2>3, <2>6, <2>7, PartsRead DEF Sound, WorkAgrees
    <2>9. SelectionsAgree(shown, config, edit) BY <2>3, <2>7, PartsRead DEF Sound
    <2>10. Sound(shown, loader, imageWorker, backgroundWorker, calls, config, edit)
      BY <2>5, <2>8, <2>9 DEF Sound
    <2>11. calls \in StageCalls BY <1>1 DEF StageCalls
    <2> HIDE DEF calls
    <2>12. Sound(a, loader, imageWorker, backgroundWorker, calls, config, edit)
      BY <1>1, <2>10, <2>11, MarksSound
    <2> HIDE DEF a
    <2>13. a \in Service BY <2>12 DEF Sound, Settled
    <2>14. t \in Service /\ Alike(a, t) BY <2>13, BoolFields, FreeWrites
    <2> HIDE DEF t
    <2>15. Alike(t, svc') BY <2>4, <2>14, FreeWrites
    <2>16. /\ WorkAgrees(svc', loader, imageWorker, backgroundWorker, calls)
           /\ SelectionsAgree(svc', config, edit)
      BY <2>12, <2>14, <2>15, AlikeSound DEF Sound
    <2>17. /\ config' = config /\ loader' = loader /\ imageWorker' = imageWorker
           /\ backgroundWorker' = backgroundWorker /\ edit' = edit
           /\ stageCalls' = calls
      BY <2>1 DEF workers, calls
    <2> QED BY <2>16, <2>17 DEF PlaybackInv
  <1>5. CASE StageOnRefused
    <2>1. PICK call \in stageCalls : stageCalls' = stageCalls \ {call}
      BY <1>5 DEF StageOnRefused
    <2>2. /\ svc' = svc /\ config' = config /\ loader' = loader
          /\ imageWorker' = imageWorker /\ backgroundWorker' = backgroundWorker
          /\ edit' = edit
      BY <1>5 DEF StageOnRefused, workers
    <2>3. OffHonoured(svc, loader, imageWorker, stageCalls')
      BY <1>1, <2>1, OffWorked DEF Sound, WorkAgrees
    <2> QED BY <1>1, <2>2, <2>3 DEF PlaybackInv, Sound, WorkAgrees
  <1> QED BY <1>2, <1>3, <1>4, <1>5 DEF Stage

\* Writes that no part of the work agreement reads.
LEMMA WorkUnread ==
  ASSUME NEW s, NEW t, NEW l, NEW i, NEW b, NEW calls, WorkAgrees(s, l, i, b, calls),
         Same(s, t, LoadFields), Same(s, t, ImageFields), Same(s, t, BackgroundFields),
         Same(s, t, StageFields), Same(s, t, SceneFields), t.wedged = s.wedged
  PROVE  WorkAgrees(t, l, i, b, calls)
  BY PartsRead DEF WorkAgrees

\* What edits write besides the show is nothing the workers' agreement reads.
LEMMA UnreadByWork ==
  ASSUME NEW s \in Service, NEW l, NEW i, NEW b, NEW calls, WorkAgrees(s, l, i, b, calls)
  PROVE  \A removing, cue, busy :
           /\ WorkAgrees([s EXCEPT !.removing = removing], l, i, b, calls)
           /\ WorkAgrees([s EXCEPT !.removing = removing, !.configBusy = busy], l, i, b, calls)
           /\ WorkAgrees([s EXCEPT !.backgroundOverride = cue], l, i, b, calls)
  <1>1. ASSUME NEW t, Same(s, t, LoadFields), Same(s, t, ImageFields),
               Same(s, t, BackgroundFields), Same(s, t, StageFields),
               Same(s, t, SceneFields), t.wedged = s.wedged
        PROVE  WorkAgrees(t, l, i, b, calls)
    BY <1>1, WorkUnread
  <1> DEFINE Kind(t) == /\ Same(s, t, LoadFields) /\ Same(s, t, ImageFields)
                        /\ Same(s, t, BackgroundFields) /\ Same(s, t, StageFields)
                        /\ Same(s, t, SceneFields) /\ t.wedged = s.wedged
  <1>2. \A removing, cue, busy :
          /\ Kind([s EXCEPT !.removing = removing])
          /\ Kind([s EXCEPT !.removing = removing, !.configBusy = busy])
          /\ Kind([s EXCEPT !.backgroundOverride = cue])
    BY DEF Service, Same, LoadFields, ImageFields, BackgroundFields, StageFields, SceneFields
  <1> QED BY <1>1, <1>2

\* An operation that saves nothing that can invalidate a selection asks nothing
\* of the selections.
LEMMA OperationFree ==
  ASSUME NEW s, NEW show, NEW op, SelectionsAgree(s, show, op),
         NEW next, next.saving = FALSE \/ next.op = "outputs"
  PROVE  SelectionsAgree(s, show, next)
  BY DEF SelectionsAgree

\* The frame of an operation: the workers and Stage calls go on undisturbed.
LEMMA ShowRegain ==
  ASSUME ReservationInv', UNCHANGED <<workers, stageCalls>>,
         WorkAgrees(svc', loader, imageWorker, backgroundWorker, stageCalls),
         SelectionsAgree(svc', config', edit')
  PROVE  PlaybackInv'
  <1>1. /\ loader' = loader /\ imageWorker' = imageWorker
        /\ backgroundWorker' = backgroundWorker /\ stageCalls' = stageCalls
    BY DEF workers
  <1> QED BY <1>1 DEF PlaybackInv

\* Operations that start, are refused, or fail to save.
LEMMA OperationSound ==
  ASSUME PlaybackInv, ReservationInv',
         \/ BeginPlaylist \/ BeginStage \/ BeginLoad \/ ConfigureOutputs
         \/ Refuse \/ SaveFailed
  PROVE  PlaybackInv'
  <1> DEFINE Work(t) == WorkAgrees(t, loader, imageWorker, backgroundWorker, stageCalls)
             s == Enter(svc)
             i == Input(svc)
  <1>1. /\ svc \in Service /\ s \in Service /\ i \in Service
        /\ Work(svc) /\ Work(s) /\ Work(i)
        /\ SelectionsAgree(svc, config, edit) /\ SelectionsAgree(s, config, edit)
        /\ SelectionsAgree(i, config, edit)
    BY PlaybackFacts DEF Sound, Settled
  <1> HIDE DEF s, i
  <1>2. ASSUME NEW op \in {"playlist", "stage", "load"}, Begin(op)
        PROVE  PlaybackInv'
    <2>1. /\ svc' = i /\ config' = config /\ edit' = [NoEdit EXCEPT !.op = op]
          /\ UNCHANGED <<workers, stageCalls>>
      BY <1>2 DEF Begin, i
    <2>2. edit'.saving = FALSE BY <2>1 DEF NoEdit
    <2>3. SelectionsAgree(i, config, edit') BY <1>1, <2>2, OperationFree
    <2> QED BY <1>1, <2>1, <2>3, ShowRegain
  <1>3. CASE BeginPlaylist BY <1>2, <1>3 DEF BeginPlaylist
  <1>4. CASE BeginStage BY <1>2, <1>4 DEF BeginStage
  <1>5. CASE BeginLoad BY <1>2, <1>5 DEF BeginLoad
  <1>6. CASE ConfigureOutputs
    <2> DEFINE t == [i EXCEPT !.configBusy = TRUE]
    <2>1. /\ svc' = t /\ config' = config
          /\ edit' = [NoEdit EXCEPT !.op = "outputs", !.saving = TRUE]
          /\ UNCHANGED <<workers, stageCalls>>
      BY <1>6 DEF ConfigureOutputs, i
    <2>2. edit'.op = "outputs" BY <2>1 DEF NoEdit
    <2>3. SelectionsAgree(i, config, edit') BY <1>1, <2>2, OperationFree
    <2>4. Alike(i, t) BY <1>1, FreeWrites
    <2> HIDE DEF t
    <2>5. Work(t) /\ SelectionsAgree(t, config, edit') BY <1>1, <2>3, <2>4, AlikeSound
    <2> QED BY <2>1, <2>5, ShowRegain
  <1>7. CASE Refuse
    <2>1. /\ svc' = svc /\ config' = config /\ edit' = NoEdit
          /\ UNCHANGED <<workers, stageCalls>>
      BY <1>7 DEF Refuse
    <2>2. edit'.saving = FALSE BY <2>1 DEF NoEdit
    <2>3. SelectionsAgree(svc, config, edit') BY <1>1, <2>2, OperationFree
    <2> QED BY <1>1, <2>1, <2>3, ShowRegain
  <1>8. CASE SaveFailed
    <2> DEFINE removing == IF edit.op = "playlist" THEN {} ELSE s.removing
               busy == s.configBusy /\ edit.op \notin {"outputs", "load"}
               t == [s EXCEPT !.removing = removing, !.configBusy = busy]
    <2>1. config' = config /\ edit' = NoEdit /\ UNCHANGED <<workers, stageCalls>>
      BY <1>8 DEF SaveFailed
    <2>2. svc' = [s EXCEPT !.removing = IF edit.op = "playlist" THEN {} ELSE @,
                           !.configBusy = @ /\ edit.op \notin {"outputs", "load"}]
      BY <1>8, Zenon DEF SaveFailed, s
    <2>3. svc' = t BY <2>2, Zenon
    <2> HIDE DEF removing, busy
    <2>4. Work(t) BY <1>1, UnreadByWork
    <2>5. edit'.saving = FALSE BY <2>1 DEF NoEdit
    <2>6. SelectionsAgree(s, config, edit') BY <1>1, <2>5, OperationFree
    <2>7. SelectionsAgree(t, config, edit') BY <1>1, <2>5, <2>6 DEF SelectionsAgree, Service
    <2> QED BY <2>1, <2>3, <2>4, <2>7, ShowRegain
  <1> QED BY <1>3, <1>4, <1>5, <1>6, <1>7, <1>8

\* EditPlaylist, AppendHostFiles, EditCueVolume: what is active, shown or being
\* prepared is locked while the edit is saved, so it is in the show that follows.
LEMMA PlaylistSound ==
  ASSUME PlaybackInv, ReservationInv', PreparePlaylist \/ CommitPlaylist
  PROVE  PlaybackInv'
  <1> DEFINE Work(t) == WorkAgrees(t, loader, imageWorker, backgroundWorker, stageCalls)
             s == Enter(svc)
  <1>1. /\ svc \in Service /\ s \in Service /\ config \in Config /\ edit \in Edit
        /\ loader \in Job /\ imageWorker \in Job /\ backgroundWorker \in Job
        /\ stageCalls \in StageCalls
        /\ Settled(s, imageWorker, edit) /\ InStep(s) /\ Work(s)
        /\ SelectionsAgree(s, config, edit)
    BY PlaybackFacts DEF Sound, Settled
  <1>2. /\ s.activeCue = svc.activeCue /\ s.imageCue = svc.imageCue
        /\ s.pendingImage = svc.pendingImage /\ s.closed = svc.closed
        /\ s.backgroundOverride = svc.backgroundOverride
        /\ s.backgroundCue = svc.backgroundCue /\ s.removing = svc.removing
    BY <1>1 DEF Enter, Service
  <1> HIDE DEF s
  <1>3. CASE PreparePlaylist
    <2>1. PICK kept \in SUBSET config.cues, added \in SUBSET (Cues \ config.used) :
            \E replaced \in SUBSET kept, buttons \in SUBSET (kept \cup added),
               rescale \in BOOLEAN :
              /\ edit.op = "playlist" /\ ~edit.saving
              /\ {svc.activeCue, svc.imageCue, svc.pendingImage}
                   \cap Removed(kept, replaced) = {}
              /\ edit' = [edit EXCEPT
                   !.saving = TRUE, !.cues = kept \cup added, !.buttons = buttons,
                   !.default = IF config.defaultBackground \in Removed(kept, replaced)
                               THEN NoCue ELSE config.defaultBackground,
                   !.rescale = rescale]
              /\ svc' = [Enter(svc) EXCEPT !.removing = Removed(kept, replaced)]
              /\ UNCHANGED <<config, workers, stageCalls>>
      BY <1>3, Zenon DEF PreparePlaylist
    <2>2. PICK replaced \in SUBSET kept, buttons \in SUBSET (kept \cup added),
               rescale \in BOOLEAN :
            /\ edit.op = "playlist"
            /\ {svc.activeCue, svc.imageCue, svc.pendingImage}
                 \cap Removed(kept, replaced) = {}
            /\ edit' = [edit EXCEPT
                 !.saving = TRUE, !.cues = kept \cup added, !.buttons = buttons,
                 !.default = IF config.defaultBackground \in Removed(kept, replaced)
                             THEN NoCue ELSE config.defaultBackground,
                 !.rescale = rescale]
            /\ svc' = [Enter(svc) EXCEPT !.removing = Removed(kept, replaced)]
            /\ UNCHANGED <<config, workers, stageCalls>>
      BY <2>1, Zenon
    <2> DEFINE default == IF config.defaultBackground \in Removed(kept, replaced)
                          THEN NoCue ELSE config.defaultBackground
               removing == Removed(kept, replaced)
               t == [s EXCEPT !.removing = removing]
    <2>3. svc' = t /\ config' = config /\ UNCHANGED <<workers, stageCalls>>
      BY <2>2 DEF s
    <2>4. /\ edit'.op = "playlist" /\ edit'.saving /\ edit'.cues = kept \cup added
          /\ edit'.buttons = buttons /\ edit'.default = default
      BY <1>1, <2>2 DEF Edit
    <2>5. config.defaultBackground \in config.cues \cup {NoCue}
      BY <1>1 DEF SelectionsAgree
    <2>6. /\ config.cues \ edit'.cues \subseteq removing
          /\ edit'.default \in edit'.cues \cup {NoCue}
          /\ edit'.buttons \subseteq edit'.cues
      BY <2>4, <2>5 DEF Removed
    <2>7. /\ s.activeCue \notin removing /\ s.imageCue \notin removing
          /\ s.pendingImage \notin removing
      BY <1>2, <2>2
    <2> HIDE DEF removing, default
    <2>8. SelectionsAgree(t, config, edit')
      BY <1>1, <2>4, <2>6, <2>7 DEF SelectionsAgree, Service
    <2>9. Work(t) BY <1>1, UnreadByWork
    <2> QED BY <2>3, <2>8, <2>9, ShowRegain
  <1>4. CASE CommitPlaylist
    <2> DEFINE show == EditedConfig
               idle == [s EXCEPT !.removing = {}]
               cleared == [idle EXCEPT !.backgroundOverride = NoCue]
               chosen == SelectBackground(cleared, show.cues, show.defaultBackground)
               settled == IF LosesBackground
                          THEN ClearBackgroundOverride(idle, EditedConfig) ELSE idle
               rescaled == IF edit.rescale /\ ~svc.closed /\ settled.sceneRevision # 0
                           THEN ApplyScene(settled, FALSE) ELSE settled
               Kind(t) == Sound(t, loader, imageWorker, backgroundWorker, stageCalls, show,
                                NoEdit)
    <2>1. /\ config' = show /\ svc' = Changed(rescaled) /\ edit' = NoEdit
          /\ UNCHANGED <<workers, stageCalls>>
          /\ edit.op = "playlist" /\ edit.saving
      BY <1>4 DEF CommitPlaylist, s
    <2>2. NoEdit.saving = FALSE BY DEF NoEdit
    <2>3. /\ show.cues = edit.cues /\ show.defaultBackground = edit.default
          /\ show.buttons = edit.buttons /\ show \in Config
      BY <1>1, EditedType DEF EditedConfig, Config
    <2>4. /\ edit.default \in edit.cues \cup {NoCue} /\ edit.buttons \subseteq edit.cues
          /\ config.cues \ edit.cues \subseteq s.removing
          /\ s.imageCue \notin s.removing /\ s.pendingImage \notin s.removing
          /\ s.state = "loading" => s.activeCue \notin s.removing
      BY <1>1, <2>1 DEF SelectionsAgree
    <2> HIDE DEF show
    <2>5. ~s.closed => /\ {s.imageCue, s.pendingImage} \subseteq show.cues \cup {NoCue}
                       /\ s.state = "loading" => s.activeCue \in show.cues
      BY <1>1, <2>3, <2>4 DEF SelectionsAgree
    <2>6. /\ idle \in Service /\ Kept(s, idle) /\ idle.generation = s.generation
          /\ idle.scene = s.scene
      BY <1>1, OtherFields DEF Kept, Service
    <2>7. Settled(idle, imageWorker, NoEdit) /\ InStep(idle)
      BY <1>1, <2>6, KeptSteady, OperationSettles
    <2>8. Work(idle) BY <1>1, UnreadByWork
    <2>9. ASSUME LosesBackground PROVE Kind(settled) /\ InStep(settled)
      <3>1. settled = chosen BY <2>9, Zenon DEF ClearBackgroundOverride, show
      <3>2. NoCue \in CueRef /\ show.defaultBackground \in CueRef
        BY <1>1, <2>3 DEF CueRef, Edit
      <3>3. /\ Kept(idle, cleared) /\ cleared.generation = idle.generation
            /\ cleared.scene = idle.scene
        BY <2>6 DEF Kept, Service
      <3>4. cleared \in Service
        <4> HIDE DEF idle
        <4> QED BY <2>6, <3>2, CueFields
      <3>5. Settled(cleared, imageWorker, NoEdit) /\ InStep(cleared) /\ Work(cleared)
        <4> HIDE DEF idle
        <4>1. Work(cleared) BY <2>6, <2>8, UnreadByWork
        <4> HIDE DEF cleared
        <4> QED BY <2>7, <3>3, <3>4, <4>1, KeptSteady
      <3>6. /\ cleared.imageCue = s.imageCue /\ cleared.pendingImage = s.pendingImage
            /\ cleared.closed = s.closed /\ cleared.state = s.state
            /\ cleared.activeCue = s.activeCue /\ cleared.backgroundOverride = NoCue
        BY <1>1 DEF Service
      <3> HIDE DEF cleared
      <3>7. Settled(chosen, imageWorker, NoEdit) /\ InStep(chosen)
        BY <3>2, <3>5, SelectBackgroundSettles
      <3>8. show.defaultBackground \in show.cues \cup {NoCue} BY <2>3, <2>4
      <3>9. Work(chosen) BY <1>1, <3>4, <3>5, <3>8, WorkKept
      <3>10. /\ chosen.imageCue = s.imageCue /\ chosen.pendingImage = s.pendingImage
             /\ chosen.closed = s.closed /\ chosen.state = s.state
             /\ chosen.activeCue = s.activeCue /\ chosen.backgroundOverride = NoCue
             /\ chosen.backgroundCue \in show.cues \cup {NoCue}
        BY <3>4, <3>6, <3>8 DEF SelectBackground, ApplyScene, Service
      <3> HIDE DEF chosen
      <3>11. SelectionsAgree(chosen, show, NoEdit)
        BY <2>2, <2>5, <3>8, <3>10 DEF SelectionsAgree
      <3> QED BY <3>1, <3>7, <3>9, <3>11 DEF Sound
    <2>10. ASSUME ~LosesBackground PROVE Kind(settled) /\ InStep(settled)
      <3>1. settled = idle BY <2>10
      <3>2. /\ config.defaultBackground = edit.default
            /\ s.backgroundOverride \in (edit.buttons \ s.removing) \cup {NoCue}
            /\ s.backgroundCue \notin s.removing
        BY <1>2, <2>10 DEF LosesBackground
      <3>3. ~s.closed => {s.backgroundCue, s.backgroundOverride} \subseteq show.cues \cup {NoCue}
        BY <1>1, <2>3, <2>4, <3>2 DEF SelectionsAgree
      <3>4. SelectionsAgree(idle, show, NoEdit)
        BY <1>1, <2>2, <2>3, <2>4, <2>5, <3>3 DEF SelectionsAgree, Service
      <3> QED BY <2>7, <2>8, <3>1, <3>4 DEF Sound
    <2>11. Kind(settled) /\ InStep(settled) BY <2>9, <2>10
    <2> HIDE DEF settled
    <2>12. Kind(rescaled) BY <1>1, <2>11, MarksSound
    <2> HIDE DEF rescaled
    <2>13. Kind(svc') BY <1>1, <2>1, <2>12, MarksSound
    <2> QED BY <2>1, <2>13, ShowRegain DEF Sound
  <1> QED BY <1>3, <1>4

\* ConfigureOutputs and ConfigureStage, once saved: new outputs stop everything
\* and prepare the background again; a new default replaces the override.
LEMMA SettingsSound ==
  ASSUME PlaybackInv, ReservationInv', CommitOutputs \/ PrepareStage \/ CommitStage
  PROVE  PlaybackInv'
  <1> DEFINE s == Enter(svc)
             Kind(t, show, op) ==
               Sound(t, loader, imageWorker, backgroundWorker, stageCalls, show, op)
  <1>1. /\ svc \in Service /\ s \in Service /\ config \in Config /\ edit \in Edit
        /\ loader \in Job /\ imageWorker \in Job /\ backgroundWorker \in Job
        /\ stageCalls \in StageCalls /\ InStep(s)
        /\ Kind(svc, config, edit) /\ Kind(s, config, edit)
    BY PlaybackFacts DEF Sound, Settled
  <1>2. s.closed = svc.closed /\ s.backgroundCue = svc.backgroundCue
    BY <1>1 DEF Enter, Service
  <1>3. NoEdit \in Edit /\ NoEdit.saving = FALSE BY DEF NoEdit, Edit, CueRef
  <1>4. svc.backgroundCue \in CueRef /\
        (svc.backgroundCue \in config.cues \cup {NoCue} \/ svc.closed)
    BY <1>1 DEF Service, Sound, SelectionsAgree
  <1> HIDE DEF s
  <1>5. CASE CommitOutputs
    <2> DEFINE d == Disarm(s)
               lowered == [d EXCEPT !.stageEnabled = FALSE]
               idle == [d EXCEPT !.configBusy = FALSE, !.outputFault = FALSE,
                                 !.stageEnabled = FALSE]
    <2>1. PICK halted \in Halted(StopForeground(idle, TRUE, TRUE)) :
            svc' = SelectBackground(halted, config.cues, svc.backgroundCue)
      BY <1>5 DEF CommitOutputs, s
    <2>2. config' = config /\ edit' = NoEdit /\ UNCHANGED <<workers, stageCalls>>
      BY <1>5 DEF CommitOutputs
    <2>3. Kind(d, config, edit) BY <1>1, MarksSound
    <2>4. d.closed = s.closed BY <1>1 DEF Disarm, Service
    <2> HIDE DEF d
    <2>5. d \in Service BY <2>3 DEF Sound, Settled
    <2>6. Settled(lowered, imageWorker, edit) BY <2>3, LoweredSound DEF Sound
    <2>7. idle \in Service BY <2>5, BoolFields, ZenonT(30)
    <2>8. Kept(lowered, idle) /\ idle.generation = lowered.generation
      BY <2>5 DEF Kept, Service
    <2>9. Alike(d, idle) /\ idle.closed = d.closed
      BY <2>5 DEF Alike, Same, LoadFields, ImageFields, BackgroundFields, StageFields,
                  SceneFields, SelectionFields, Service
    <2> HIDE DEF idle, lowered
    <2>10. Settled(idle, imageWorker, edit) BY <2>6, <2>7, <2>8, KeptSteady
    <2>11. Kind(idle, config, edit) BY <2>3, <2>9, <2>10, AlikeSound
    <2>12. Kind(halted, config, edit) /\ InStep(halted) /\ halted.closed = svc.closed
      <3>1. Kind(halted, config, edit) /\ InStep(halted) /\ halted.closed = idle.closed
        BY <1>1, <2>11, HaltsSound
      <3> QED BY <1>2, <2>4, <2>9, <3>1
    <2>13. Kind(svc', config, edit) BY <1>1, <1>4, <2>1, <2>12, SelectsSound
    <2>14. SelectionsAgree(svc', config, NoEdit) BY <1>3, <2>13, OperationFree DEF Sound
    <2> QED BY <2>2, <2>13, <2>14, ShowRegain DEF Sound
  <1>6. CASE PrepareStage
    <2>1. PICK default \in config.cues \cup {NoCue}, reselect \in BOOLEAN :
            /\ edit.op = "stage"
            /\ edit' = [edit EXCEPT !.saving = TRUE, !.default = default,
                                    !.reselect = reselect]
            /\ UNCHANGED <<svc, config, workers, stageCalls>>
      BY <1>6 DEF PrepareStage
    <2>2. edit'.op = "stage" /\ edit'.default = default BY <1>1, <2>1 DEF Edit
    <2>3. SelectionsAgree(svc, config, edit')
      BY <1>1, <2>2 DEF Sound, SelectionsAgree
    <2> QED BY <1>1, <2>1, <2>3, ShowRegain DEF Sound
  <1>7. CASE CommitStage
    <2> DEFINE show == [config EXCEPT !.defaultBackground = edit.default]
               cleared == ClearBackgroundOverride(s, show)
               again == SelectBackground(s, config.cues, svc.backgroundCue)
               chosen == IF config.defaultBackground # edit.default
                         THEN ClearBackgroundOverride(s, config')
                         ELSE IF edit.reselect
                         THEN SelectBackground(s, config.cues, svc.backgroundCue)
                         ELSE s
    <2>1. /\ config' = show
          /\ svc' = (IF svc.closed THEN s ELSE Changed(ApplyScene(chosen, FALSE)))
          /\ edit' = NoEdit /\ UNCHANGED <<workers, stageCalls>>
          /\ edit.op = "stage" /\ edit.saving
      BY <1>7 DEF CommitStage, s
    <2>2. /\ show \in Config /\ show.cues = config.cues
          /\ show.defaultBackground = edit.default
      BY <1>1 DEF Config, Edit
    <2>3. chosen \in {cleared, again, s} BY <2>1
    <2>4. edit.default \in config.cues \cup {NoCue}
      BY <1>1, <2>1 DEF Sound, SelectionsAgree
    <2> HIDE DEF show, chosen
    <2>5. SelectionsAgree(s, show, NoEdit)
      BY <1>1, <1>3, <2>2, <2>4 DEF Sound, SelectionsAgree
    <2>6. Kind(s, show, NoEdit) BY <1>1, <2>5, OperationSettles DEF Sound
    <2>7. Kind(cleared, show, NoEdit) BY <1>1, <1>3, <2>2, <2>6, ClearOverrideSound
    <2>8. ~svc.closed => Kind(again, show, NoEdit)
      <3>1. again = SelectBackground(s, show.cues, svc.backgroundCue) BY <2>2
      <3> QED BY <1>1, <1>3, <1>4, <2>2, <2>6, <3>1, SelectsSound
    <2> HIDE DEF cleared, again
    <2>9. ~svc.closed => Kind(chosen, show, NoEdit) BY <2>3, <2>6, <2>7, <2>8
    <2>10. ~svc.closed => Kind(ApplyScene(chosen, FALSE), show, NoEdit)
      BY <1>1, <2>9, MarksSound
    <2>11. ~svc.closed => Kind(Changed(ApplyScene(chosen, FALSE)), show, NoEdit)
      BY <1>1, <2>10, MarksSound
    <2>12. Kind(svc', show, NoEdit) BY <2>1, <2>6, <2>11
    <2> QED BY <2>1, <2>12, ShowRegain DEF Sound
  <1> QED BY <1>5, <1>6, <1>7

\* A loaded playlist empties the service first.
LEMMA EmptiedType == ASSUME NEW s \in Service PROVE Emptied(s) \in Service
  <1> DEFINE c == ClearImage(ClearActive(Invalidate(s)))
  <1>1. c \in Service BY InvalidateType, ClearActiveType, ClearImageType
  <1> DEFINE e == [c EXCEPT
                     !.configBusy = FALSE, !.stopEpoch = @ + 1, !.foreground = NoSource,
                     !.background = NoCue, !.backgroundOverride = NoCue,
                     !.state = "stopped", !.stageSerial = @ + 1]
  <1>2. Emptied(s) = e BY DEF Emptied
  <1> HIDE DEF c
  <1>3. /\ c.stopEpoch + 1 \in Nat /\ c.stageSerial + 1 \in Nat /\ NoCue \in CueRef
        /\ "stopped" \in Phases
    BY <1>1 DEF Service, CueRef, Phases
  <1>4. e \in Service
    BY <1>1, <1>3, NoSourceType, BoolFields, NatFields, CueFields, OtherFields, ZenonT(60)
  <1> QED BY <1>2, <1>4

\* Choosing a background keeps the service well typed.
LEMMA SelectBackgroundType ==
  ASSUME NEW s \in Service, NEW cues, NEW id \in CueRef
  PROVE  SelectBackground(s, cues, id) \in Service
  <1> DEFINE d == [s EXCEPT !.backgroundSequence = @ + 1, !.backgroundLoads = NoJob,
                            !.backgroundCue = id]
             black == [d EXCEPT !.background = NoCue]
             job == [tag |-> d.backgroundSequence, cue |-> id,
                     stageSerial |-> s.stageSerial, at |-> s.now]
             loaded == [d EXCEPT !.backgroundLoads = job,
                                 !.wedged = @ \/ d.backgroundLoads # NoJob]
             gone == [d EXCEPT !.background = NoCue, !.backgroundCue = NoCue]
  <1>1. s.backgroundSequence + 1 \in Nat /\ NoCue \in CueRef BY DEF Service, CueRef
  <1>2. d \in Service BY <1>1, NoJobType, NatFields, CueFields, JobFields, ZenonT(30)
  <1>3. d.backgroundSequence \in Nat BY <1>2 DEF Service
  <1>4. job \in Job BY <1>3, FreshJobType
  <1>5. (d.wedged \/ d.backgroundLoads # NoJob) \in BOOLEAN OBVIOUS
  <1> HIDE DEF d, job
  <1>6. black \in Service /\ gone \in Service BY <1>1, <1>2, CueFields, ZenonT(30)
  <1>7. loaded \in Service BY <1>2, <1>4, <1>5, JobFields, BoolFields, ZenonT(30)
  <1> HIDE DEF black, loaded, gone
  <1>8. ApplyScene(black, FALSE) \in Service BY <1>6, ApplySceneType
  <1> QED BY <1>6, <1>7, <1>8 DEF SelectBackground, d, job, black, loaded, gone

\* LoadPlaylist: every cue is replaced, so nothing selected before may survive.
LEMMA LoadSound ==
  ASSUME PlaybackInv, ReservationInv', PrepareLoad \/ CommitLoad
  PROVE  PlaybackInv'
  <1> DEFINE Work(t) == WorkAgrees(t, loader, imageWorker, backgroundWorker, stageCalls)
             s == Enter(svc)
  <1>1. /\ svc \in Service /\ s \in Service /\ config \in Config /\ edit \in Edit
        /\ loader \in Job /\ imageWorker \in Job /\ backgroundWorker \in Job
        /\ stageCalls \in StageCalls
        /\ Settled(s, imageWorker, edit) /\ Work(s)
        /\ SelectionsAgree(s, config, edit)
    BY PlaybackFacts DEF Sound, Settled
  <1>2. s.closed = svc.closed BY <1>1 DEF Enter, Service
  <1> HIDE DEF s
  <1>3. CASE PrepareLoad
    <2>1. PICK cues \in SUBSET (Cues \ config.used) :
            \E buttons \in SUBSET cues, default \in cues \cup {NoCue} :
              /\ edit.op = "load"
              /\ edit' = [edit EXCEPT !.saving = TRUE, !.cues = cues,
                                      !.buttons = buttons, !.default = default]
              /\ svc' = [s EXCEPT !.configBusy = TRUE]
              /\ UNCHANGED <<config, workers, stageCalls>>
      BY <1>3 DEF PrepareLoad, s
    <2> DEFINE t == [s EXCEPT !.configBusy = TRUE]
    <2>2. edit'.op = "load" /\ edit'.default \in edit'.cues \cup {NoCue}
      BY <1>1, <2>1 DEF Edit
    <2>3. SelectionsAgree(s, config, edit') BY <1>1, <2>2 DEF SelectionsAgree
    <2>4. svc' = t /\ Alike(s, t) BY <1>1, <2>1, FreeWrites
    <2> HIDE DEF t
    <2>5. Work(t) /\ SelectionsAgree(t, config, edit') BY <1>1, <2>3, <2>4, AlikeSound
    <2> QED BY <2>1, <2>4, <2>5, ShowRegain
  <1>4. CASE CommitLoad
    <2> DEFINE e == Emptied(s)
               t == SelectBackground(e, edit.cues, edit.default)
    <2>1. /\ config'.cues = edit.cues /\ config'.defaultBackground = edit.default
          /\ svc' = (IF svc.closed THEN e ELSE Changed(t))
          /\ edit' = NoEdit /\ UNCHANGED <<workers, stageCalls>>
          /\ edit.op = "load" /\ edit.saving
      BY <1>4 DEF CommitLoad, Emptied, s
    <2>2. edit.default \in edit.cues \cup {NoCue} /\ NoEdit.saving = FALSE
      BY <1>1, <2>1 DEF SelectionsAgree, NoEdit
    <2>3. e \in Service BY <1>1, EmptiedType
    <2>4. /\ e.imageCue = NoCue /\ e.pendingImage = NoCue /\ e.backgroundOverride = NoCue
          /\ e.state = "stopped" /\ e.closed = s.closed
          /\ Same(s, e, BackgroundFields)
      BY <1>1 DEF Emptied, ClearImage, ClearActive, Invalidate, Service, Same,
                  BackgroundFields
    <2>5. /\ LoadsAgree(e, loader) /\ ImagesAgree(e, imageWorker)
          /\ OffHonoured(e, loader, imageWorker, stageCalls) /\ ~e.wedged
      BY <1>1, LoadsKept, ImagesKept, OffKept, NothingBlocks DEF WorkAgrees, Settled
    <2>6. BackgroundsAgree(e, backgroundWorker)
      BY <1>1, <2>4, PartsRead DEF WorkAgrees
    <2> HIDE DEF e
    <2>7. CASE svc.closed
      <3>1. SceneAgrees(e, backgroundWorker) BY <1>2, <2>4, <2>7 DEF SceneAgrees
      <3>2. SelectionsAgree(e, config', NoEdit)
        BY <1>2, <2>1, <2>2, <2>4, <2>7 DEF SelectionsAgree
      <3>3. Work(e) BY <2>5, <2>6, <3>1 DEF WorkAgrees
      <3> QED BY <2>1, <2>7, <3>2, <3>3, ShowRegain
    <2>8. CASE ~svc.closed
      <3>1. /\ Same(e, t, LoadFields) /\ Same(e, t, ImageFields) /\ Same(e, t, StageFields)
        BY <2>3, HelpersLeave, SameSubset
      <3>2. BackgroundsAgree(t, backgroundWorker) /\ ~t.wedged
        BY <1>1, <2>3, <2>5, <2>6, BackgroundsKept, NothingBlocks
      <3>3. SceneAgrees(t, backgroundWorker) BY <1>1, <2>2, <2>3, SceneAsked
      <3>4. /\ t.imageCue = NoCue /\ t.pendingImage = NoCue /\ t.backgroundOverride = NoCue
            /\ t.state = "stopped" /\ t.backgroundCue \in edit.cues \cup {NoCue}
        BY <2>2, <2>3, <2>4 DEF SelectBackground, ApplyScene, Service
      <3>5. t \in Service
        <4>1. edit.default \in CueRef BY <1>1 DEF Edit
        <4> QED BY <2>3, <4>1, SelectBackgroundType
      <3> HIDE DEF t
      <3>6. Work(t) BY <2>5, <3>1, <3>2, <3>3, PartsRead DEF WorkAgrees
      <3>7. Work(Changed(t)) BY <1>1, <3>5, <3>6, MarksAgree
      <3>8. SelectionsAgree(t, config', NoEdit)
        BY <2>1, <2>2, <3>4 DEF SelectionsAgree
      <3>9. SelectionsAgree(Changed(t), config', NoEdit)
        BY <3>5, <3>8, FreeWrites, AlikeSound
      <3> QED BY <2>1, <2>8, <3>7, <3>9, ShowRegain
    <2> QED BY <2>7, <2>8
  <1> QED BY <1>3, <1>4

\* Every operation on the saved show.
LEMMA ShowSound ==
  ASSUME PlaybackInv, ReservationInv', Show
  PROVE  PlaybackInv'
  BY OperationSound, PlaylistSound, SettingsSound, LoadSound DEF Show

-----------------------------------------------------------------------------
(* The invariant is inductive, and the safety invariants follow from it. *)

\* The host starts with the invariant: the saved background is being prepared.
LEMMA InitSound ==
  ASSUME Init
  PROVE  PlaybackInv
  <1>1. /\ config.cues = InitialShow /\ config.defaultBackground = InitialDefault
        /\ svc = SelectBackground(InitialService, InitialShow, InitialDefault)
        /\ loader = NoJob /\ imageWorker = NoJob /\ backgroundWorker = NoJob
        /\ edit = NoEdit /\ stageCalls = {}
    BY DEF Init
  <1>2. ReservationInv BY InitSettles
  <1>3. config \in Config /\ InitialDefault \in InitialShow \cup {NoCue}
    BY <1>2, ShowAssumption DEF ReservationInv, TypeOK
  <1>4. NoJob \in Job /\ NoJob.tag = 0 /\ NoSource \in Source /\ NoCue \in CueRef
    BY NoJobType, NoSourceType DEF NoJob, CueRef
  <1>5. InitialService \in Service
    <2>1. InitialService.scene \in Scene BY <1>4 DEF InitialService, Scene
    <2> QED BY <1>4, <2>1 DEF InitialService, Service, Phases
  <1>6. Settled(InitialService, NoJob, NoEdit)
    BY <1>4, <1>5 DEF Settled, ImagesCounted, InitialService, NoSource
  <1>7. WorkAgrees(InitialService, NoJob, NoJob, NoJob, {})
    <2>1. LoadsAgree(InitialService, NoJob)
      BY <1>4 DEF LoadsAgree, InitialService, NoSource, Resting
    <2>2. ImagesAgree(InitialService, NoJob) BY <1>4 DEF ImagesAgree, InitialService
    <2>3. BackgroundsAgree(InitialService, NoJob)
      BY <1>4 DEF BackgroundsAgree, BackgroundPending, InitialService
    <2>4. OffHonoured(InitialService, NoJob, NoJob, {}) BY DEF OffHonoured, InitialService
    <2>5. SceneAgrees(InitialService, NoJob) /\ ~InitialService.wedged
      BY DEF SceneAgrees, InitialService
    <2> QED BY <2>1, <2>2, <2>3, <2>4, <2>5 DEF WorkAgrees
  <1>8. {} \in StageCalls BY DEF StageCalls
  <1>9. WorkAgrees(svc, NoJob, NoJob, NoJob, {})
    BY <1>1, <1>3, <1>4, <1>5, <1>6, <1>7, <1>8, WorkKept
  <1>10. SelectionsAgree(InitialService, config, NoEdit)
    BY <1>1, <1>3 DEF SelectionsAgree, InitialService, NoEdit
  <1>11. NoEdit \in Edit BY DEF NoEdit, Edit, CueRef
  <1>12. SelectionsAgree(svc, config, edit)
    BY <1>1, <1>3, <1>5, <1>10, <1>11, SelectionsKept
  <1> QED BY <1>1, <1>2, <1>9, <1>12 DEF PlaybackInv

\* Every step of the specification keeps the invariant.
LEMMA StepSound ==
  ASSUME PlaybackInv, [Next]_vars
  PROVE  PlaybackInv'
  <1>1. ReservationInv' BY StepSettles DEF PlaybackInv
  <1>2. CASE Commands BY <1>1, <1>2, CommandsSound
  <1>3. CASE Preparation BY <1>1, <1>3, PreparationSound
  <1>4. CASE Native BY <1>1, <1>4, NativeIsReported, ReportedSound
  <1>5. CASE Update BY <1>1, <1>5, UpdateSound
  <1>6. CASE Stage BY <1>1, <1>6, StageSound
  <1>7. CASE Show BY <1>1, <1>7, ShowSound
  <1>8. CASE UNCHANGED vars
    <2>1. CommandOnly /\ svc' = svc BY <1>8 DEF vars, CommandOnly, workers
    <2> QED BY <1>1, <2>1, PlaybackFacts, CommandSound
  <1> QED BY <1>2, <1>3, <1>4, <1>5, <1>6, <1>7, <1>8 DEF Next

\* The parts as facts about the current state.
LEMMA PartsHold ==
  ASSUME PlaybackInv
  PROVE  /\ svc \in Service /\ loader \in Job /\ imageWorker \in Job
         /\ backgroundWorker \in Job
         /\ svc.generation # 0 /\ (Resting(svc) => svc.foreground.id = 0)
         /\ ImagesCounted(svc, imageWorker) /\ svc.scene.stage = svc.stageDesired
         /\ LoadsAgree(svc, loader) /\ ImagesAgree(svc, imageWorker)
         /\ BackgroundsAgree(svc, backgroundWorker)
         /\ OffHonoured(svc, loader, imageWorker, stageCalls)
         /\ SceneAgrees(svc, backgroundWorker) /\ ~svc.wedged
         /\ SelectionsAgree(svc, config, edit)
         /\ NoJob.tag = 0
  BY DEF PlaybackInv, ReservationInv, TypeOK, Settled, WorkAgrees, NoJob

\* What the parts say of the phase and the live jobs is what WorkMatchesState asks.
LEMMA WorkMatches ==
  ASSUME PlaybackInv
  PROVE  WorkMatchesState
  <1> USE PartsHold
  <1>1. svc.state \in {"stopped", "stopping", "error"} => svc.foreground.id = 0
    BY DEF Resting
  <1>2. svc.state \in {"playing", "paused"} =>
          svc.foreground.id # 0 /\ svc.activeCue = svc.foreground.cue
    BY DEF LoadsAgree
  <1>3. svc.state = "loading" /\ svc.foreground.id # svc.generation /\ ~svc.closed =>
          LiveLoads # {}
    BY DEF LoadsAgree, LiveLoads
  <1>4. \A job \in LiveLoads : job.cue = svc.activeCue /\ svc.foreground.id # svc.generation
    BY DEF LoadsAgree, LiveLoads
  <1>5. svc.pendingImage # NoCue => LiveImages # {}
    BY DEF ImagesAgree, ImagesCounted, LiveImages
  <1>6. LiveImages # {} => svc.pendingImage # NoCue
    BY DEF ImagesCounted, LiveImages
  <1>7. \A job \in LiveImages : job.cue = svc.pendingImage
    BY DEF ImagesAgree, LiveImages
  <1>8. \A job \in LiveBackgrounds : job.cue = svc.backgroundCue
    BY DEF BackgroundsAgree, LiveBackgrounds
  <1> QED BY <1>1, <1>2, <1>3, <1>4, <1>5, <1>6, <1>7, <1>8 DEF WorkMatchesState

\* With no job live nothing is pending, and then the scene part speaks of the stage.
LEMMA SceneMatches ==
  ASSUME PlaybackInv
  PROVE  SceneInSync
  <1> SUFFICES ASSUME svc.sceneRevision # 0, ~svc.closed,
                      LiveLoads = {}, LiveImages = {}, LiveBackgrounds = {}
               PROVE  Shown(svc) /\ svc.scene.stage = svc.stageDesired
    BY DEF SceneInSync, Shown
  <1>1. svc.pendingImage = NoCue BY WorkMatches DEF WorkMatchesState
  <1>2. svc.state = "loading" => svc.foreground.id = svc.generation
    BY WorkMatches DEF WorkMatchesState
  <1>3. ~BackgroundPending(svc, backgroundWorker)
    BY PartsHold DEF BackgroundPending, BackgroundsAgree, LiveBackgrounds
  <1> QED BY <1>1, <1>2, <1>3, PartsHold DEF SceneAgrees

\* A live job prepares what is selected, and a selection names a cue of the show.
LEMMA SelectionsMatch ==
  ASSUME PlaybackInv
  PROVE  SelectionsExist
  <1> SUFFICES ASSUME ~svc.closed
               PROVE  /\ {svc.imageCue, svc.pendingImage, svc.backgroundCue,
                          svc.backgroundOverride, config.defaultBackground}
                           \subseteq config.cues \cup {NoCue}
                      /\ svc.state = "loading" => svc.activeCue \in config.cues
                      /\ \A job \in LiveLoads \cup LiveImages \cup LiveBackgrounds :
                           job.cue \in config.cues
    BY DEF SelectionsExist
  <1>1. /\ {svc.imageCue, svc.pendingImage, svc.backgroundCue,
            svc.backgroundOverride, config.defaultBackground}
             \subseteq config.cues \cup {NoCue}
        /\ svc.state = "loading" => svc.activeCue \in config.cues
    BY PartsHold DEF SelectionsAgree
  <1>2. \A job \in LiveLoads : job.cue \in config.cues
    BY <1>1, WorkMatches DEF WorkMatchesState, LiveLoads
  <1>3. \A job \in LiveImages : job.cue \in config.cues
    BY <1>1, WorkMatches DEF WorkMatchesState
  <1>4. \A job \in LiveBackgrounds : job.cue \in config.cues
    BY <1>1, PartsHold
    DEF BackgroundsAgree, BackgroundPending, LiveBackgrounds
  <1> QED BY <1>1, <1>2, <1>3, <1>4

\* The strengthening holds in every reachable state: the foreground, image,
\* background, stage, scene and show parts of app.Service agree with one another
\* and with the jobs under way at the end of every critical section.
THEOREM PlaybackHolds == Spec => []PlaybackInv
  <1>1. Init => PlaybackInv BY InitSound
  <1>2. PlaybackInv /\ [Next]_vars => PlaybackInv' BY StepSound
  <1> QED BY <1>1, <1>2, PTL DEF Spec

\* Every phase the controllers see agrees with the source and the jobs behind
\* it, for every interleaving of commands, workers and native events
\* (service.go, scene.go, transport.go).
THEOREM WorkHolds == Spec => []WorkMatchesState
  <1>1. PlaybackInv => WorkMatchesState BY WorkMatches
  <1> QED BY <1>1, PlaybackHolds, PTL

\* No send to a latest-only mailbox (invalidateLocked drains it first) finds it
\* full: STOP can always take the lock.
THEOREM NeverBlocks == Spec => []NeverWedged
  <1>1. PlaybackInv => NeverWedged BY PartsHold DEF NeverWedged
  <1> QED BY <1>1, PlaybackHolds, PTL

\* While playing or paused, the intent shown is the one the native source was
\* given, under the revision whose acknowledgement is awaited.
THEOREM AcksHold == Spec => []AcksAwaited
  <1>1. PlaybackInv => AcksAwaited BY PartsHold DEF AcksAwaited, LoadsAgree
  <1> QED BY <1>1, PlaybackHolds, PTL

\* With nothing pending, the renderer was last asked for exactly what the
\* service believes to be on stage.
THEOREM SceneHolds == Spec => []SceneInSync
  <1>1. PlaybackInv => SceneInSync BY SceneMatches
  <1> QED BY <1>1, PlaybackHolds, PTL

\* Every selection and every job under way names a cue of the saved show,
\* across edits and loads that save while the lock is free (edit.go,
\* playlist_file.go).
THEOREM SelectionsHold == Spec => []SelectionsExist
  <1>1. PlaybackInv => SelectionsExist BY SelectionsMatch
  <1> QED BY <1>1, PlaybackHolds, PTL

\* Nobody shows the stage on behalf of a request older than the last time it
\* was switched off (stageSerial in scene.go and edit.go).
THEOREM OffHolds == Spec => []OffIsRespected
  <1>1. PlaybackInv => OffIsRespected BY PartsHold DEF OffIsRespected, OffHonoured
  <1> QED BY <1>1, PlaybackHolds, PTL

-----------------------------------------------------------------------------
(* Action properties: what a critical section may never do. *)

\* What the action properties ask of a critical section that turns s into t:
\* a new epoch that ends in stopping or error leaves no image behind, and what
\* controllers see changes only with a notification (or, of a report, in the
\* stage flag alone).
Dark(s) == s.image = NoCue /\ s.pendingImage = NoCue

Final(s, t) == t.stopEpoch = s.stopEpoch \/ t.state = "stopped" \/ Dark(t)

SamePlayback(s, t) ==
  /\ t.state = s.state /\ t.activeCue = s.activeCue /\ t.paused = s.paused
  /\ t.seekPending = s.seekPending /\ t.imageCue = s.imageCue
  /\ t.backgroundCue = s.backgroundCue /\ t.backgroundOverride = s.backgroundOverride
  /\ t.outputFault = s.outputFault /\ t.stopEpoch = s.stopEpoch
  /\ t.generation = s.generation /\ t.transportRevision = s.transportRevision
  /\ t.updatePending = s.updatePending

SameView(s, t) == SamePlayback(s, t) /\ t.stageEnabled = s.stageEnabled

\* Everything that stops leaves nothing on show and says so.
LEMMA StopsAnnounce ==
  ASSUME NEW s \in Service
  PROVE  /\ \A hard \in BOOLEAN : \A t \in Halted(StopForeground(s, TRUE, hard)) :
              /\ Dark(t) /\ t.notified /\ t.now = s.now /\ Resting(t)
              /\ DOMAIN t = DOMAIN s
         /\ Dark(Fail(s)) /\ Fail(s).notified /\ Fail(s).now = s.now /\ Resting(Fail(s))
  <1>1. ASSUME NEW hard \in BOOLEAN, NEW t \in Halted(StopForeground(s, TRUE, hard))
        PROVE  /\ Dark(t) /\ t.notified /\ t.now = s.now /\ Resting(t)
               /\ DOMAIN t = DOMAIN s
    <2> DEFINE h == StopForeground(s, TRUE, hard)
    <2>1. Dark(h) /\ h.notified /\ h.now = s.now /\ Resting(h) /\ DOMAIN h = DOMAIN s
      BY ZenonT(40) DEF StopForeground, Changed, ApplyScene, ClearImage, ClearActive, Invalidate,
             Dark, Resting, Service
    <2>2. CASE t = h BY <2>1, <2>2
    <2>3. CASE t = [h EXCEPT !.state = "error"]
      <3> HIDE DEF h
      <3> QED BY <2>1, <2>3 DEF Dark, Resting, Service
    <2> QED BY <2>2, <2>3 DEF Halted
  <1>2. Dark(Fail(s)) /\ Fail(s).notified /\ Fail(s).now = s.now /\ Resting(Fail(s))
    BY DEF Fail, Changed, ApplyScene, ClearImage, ClearActive, Invalidate, Disarm, Dark,
           Resting, Service
  <1> QED BY <1>1, <1>2

\* A background is selected without any of that.
LEMMA BackgroundLeaves ==
  ASSUME NEW u \in Service, NEW s, DOMAIN s = DOMAIN u, NEW cues, NEW id
  PROVE  LET t == SelectBackground(s, cues, id) IN
         /\ DOMAIN t = DOMAIN u
         /\ t.stopEpoch = s.stopEpoch /\ t.now = s.now /\ t.notified = s.notified
         /\ t.state = s.state /\ t.image = s.image /\ t.pendingImage = s.pendingImage
  <1> USE DEF Service
  <1>1. CASE id = NoCue BY <1>1 DEF SelectBackground, ApplyScene
  <1>2. CASE id # NoCue BY <1>2 DEF SelectBackground
  <1> QED BY <1>1, <1>2

\* A controller's command is a new input, notifies, and stops for good when it stops.
LEMMA CommandsAnnounced ==
  ASSUME svc \in Service, Commands
  PROVE  Final(svc, svc') /\ svc'.notified /\ svc'.now = svc.now + 1
  <1> USE DEF Final, Dark, Service
  <1>0. Input(svc) \in Service BY MarkType
  <1>1. CASE SetMasterVolume BY <1>1 DEF SetMasterVolume, Changed, ApplyScene, Input
  <1>2. CASE PauseOrResume
    BY <1>2 DEF PauseOrResume, SetPaused, Changed, ApplyScene, Input
  <1>3. CASE Seek BY <1>3 DEF Seek, SetPosition, Changed, ApplyScene, Input
  <1>4. CASE PressImageAgain
    BY <1>4 DEF PressImageAgain, StopImage, StopForeground, Changed, ApplyScene,
                ClearImage, ClearActive, Invalidate, Input
  <1>5. CASE PressForegroundAgain
    BY <1>5 DEF PressForegroundAgain, SetPaused, Changed, ApplyScene, Input
  <1>6. ASSUME NEW cue \in CueRef, NEW id, NEW t,
               t = SelectBackground([Input(svc) EXCEPT !.backgroundOverride = cue],
                                    config.cues, id),
               svc' = Changed(t)
        PROVE  Final(svc, svc') /\ svc'.notified /\ svc'.now = svc.now + 1
    <2> DEFINE u == [Input(svc) EXCEPT !.backgroundOverride = cue]
    <2>1. u \in Service
      <3> HIDE DEF Service
      <3> QED BY <1>0, CueFields
    <2>2. u.stopEpoch = svc.stopEpoch /\ u.now = svc.now + 1 BY DEF Input
    <2> HIDE DEF u
    <2>3. t.stopEpoch = svc.stopEpoch /\ t.now = svc.now + 1
      BY <1>6, <2>1, <2>2, BackgroundLeaves DEF u
    <2>4. svc'.notified /\ svc'.now = t.now /\ svc'.stopEpoch = t.stopEpoch
      BY <1>6 DEF Changed, SelectBackground, ApplyScene, Input
    <2> QED BY <2>3, <2>4
  <1>7. CASE PressBackgroundAgain
    BY <1>6, <1>7 DEF PressBackgroundAgain, ClearBackgroundOverride, CueRef
  <1>14. CASE PressBackground BY <1>6, <1>14 DEF PressBackground, CueRef
  <1>8. CASE PressImage BY <1>8 DEF PressImage, SelectImage, Changed, ClearImage, Input
  <1>9. CASE PressForeground
    BY <1>9 DEF PressForeground, SelectForeground, SendLoad, Changed, ClearImage, Invalidate,
                Input
  <1>10. CASE Stop
    BY <1>0, <1>10, StopsAnnounce, ZenonT(40) DEF Stop, Input
  <1>11. CASE EmergencyStop
    <2> DEFINE u == [Disarm(Input(svc)) EXCEPT !.stageEnabled = FALSE]
    <2>1. svc' \in Halted(StopForeground(u, TRUE, TRUE)) BY <1>11 DEF EmergencyStop
    <2>2. u \in Service
      <3> HIDE DEF Service
      <3> QED BY <1>0, DisarmType, BoolFields
    <2>3. u.now = svc.now + 1 BY DEF Disarm, Input
    <2> HIDE DEF u
    <2> QED BY <2>1, <2>2, <2>3, StopsAnnounce
  <1>12. CASE Close
    BY <1>12 DEF Close, StopForeground, Changed, ApplyScene, ClearImage,
                 ClearActive, Invalidate, Disarm, Input
  <1> QED BY <1>1, <1>2, <1>3, <1>4, <1>5, <1>6, <1>7, <1>8, <1>9, <1>10, <1>11, <1>12,
             <1>14 DEF Commands

\* At rest with nothing on show: what Quiet says of the service's own fields.
Still(s) == Resting(s) /\ Dark(s)

\* What every step of the specification does.
Proper ==
  /\ Final(svc, svc')
  /\ Still(svc) /\ svc'.now = svc.now => Still(svc')
  /\ ~svc.closed => \/ svc'.notified
                    \/ config' = config /\ SameView(svc, svc')
                    \/ NativeReport /\ config' = config /\ SamePlayback(svc, svc')

\* A worker commits only what is still wanted, so never over a service at rest.
LEMMA PreparationProper ==
  ASSUME PlaybackInv, Preparation
  PROVE  Proper
  <1> USE DEF Proper, Final, Still, Dark, SameView, SamePlayback
  <1>1. svc \in Service /\ ImagesCounted(svc, imageWorker) BY PartsHold
  <1>2. CASE TakeLoad \/ TakeImage \/ TakeBackground
    BY <1>1, <1>2 DEF TakeLoad, TakeImage, TakeBackground, Service, Resting
  <1>3. CASE DropLoad \/ DropImage \/ DropBackground
    BY <1>3 DEF DropLoad, DropImage, DropBackground
  <1>4. CASE FinishLoad
    <2> DEFINE s == Enter(svc)
    <2>1. svc.state = "loading"
      BY <1>4 DEF FinishLoad, LoadIsCurrent
    <2>2. \/ svc' = Fail(s)
          \/ svc' = CommitAsImage(s, loader)
          \/ \E kind \in Kinds : svc' = CommitForeground(s, loader, kind)
      BY <1>4 DEF FinishLoad, Findings, Kinds
    <2>3. s \in Service /\ s.stopEpoch = svc.stopEpoch
      BY <1>1, MarkType DEF Enter, Service
    <2> HIDE DEF s
    <2>4. CASE svc' = Fail(s) BY <2>1, <2>3, <2>4, StopsAnnounce DEF Resting
    <2>5. CASE svc' = CommitAsImage(s, loader)
      BY <2>1, <2>3, <2>5 DEF CommitAsImage, Arm, Changed, ApplyScene, Resting, Service
    <2>6. CASE \E kind \in Kinds : svc' = CommitForeground(s, loader, kind)
      BY <2>1, <2>3, <2>6 DEF CommitForeground, Arm, Changed, ApplyScene, Resting, Service
    <2> QED BY <2>2, <2>4, <2>5, <2>6
  <1>5. CASE FinishImage
    <2>1. svc.pendingImage # NoCue
      BY <1>1, <1>5 DEF FinishImage, ImageIsCurrent, ImagesCounted
    <2>2. svc'.notified /\ svc'.stopEpoch = svc.stopEpoch
      BY <1>1, <1>5 DEF FinishImage, CommitVisual, Arm, Changed, ApplyScene, Enter, Service
    <2> QED BY <2>1, <2>2
  <1>6. CASE FinishBackground
    BY <1>1, <1>6 DEF FinishBackground, Changed, ApplyScene, Enter, Service, Resting
  <1> QED BY <1>2, <1>3, <1>4, <1>5, <1>6 DEF Preparation

\* What the renderer reports.
LEMMA FollowProper ==
  ASSUME NEW s \in Service, NEW e \in Event
  PROVE  LET t == Follow(s, e) IN
         /\ Final(s, t) /\ (Still(s) => Still(t)) /\ t.now = s.now
         /\ t.notified \/ SameView(s, t)
  <1> USE DEF Final, Still, Dark, SameView, SamePlayback, Resting
  <1>1. CASE e.kind \in {"playing", "paused"}
    BY <1>1 DEF Follow, Changed, Service
  <1>2. CASE e.kind \in {"progress", "stopped"} BY <1>2 DEF Follow, Changed, Service
  <1>3. CASE e.kind = "ended"
    BY <1>3 DEF Follow, Changed, ApplyScene, ClearActive, Service
  <1>4. CASE e.kind = "error" BY <1>4, StopsAnnounce DEF Follow
  <1>5. CASE e.kind = "device-lost"
    <2> DEFINE u == [s EXCEPT !.outputFault = TRUE]
    <2>1. u \in Service BY BoolFields
    <2>2. u.now = s.now BY DEF Service
    <2>3. Follow(s, e) = Fail(u) BY <1>5 DEF Follow
    <2> HIDE DEF u
    <2> QED BY <2>1, <2>2, <2>3, StopsAnnounce
  <1>6. CASE e.kind \notin {"playing", "paused", "progress", "stopped", "ended", "error",
                           "device-lost"}
    BY <1>6 DEF Follow
  <1> QED BY <1>1, <1>2, <1>3, <1>4, <1>5, <1>6

\* The dispatch of NativeEvent: ignored, Escape, a failure, or followed.
LEMMA NativeEventProper ==
  ASSUME NEW s \in Service, NEW e \in Event
  PROVE  LET t == NativeEvent(s, e) IN
         /\ Final(s, t) /\ (Still(s) => Still(t)) /\ t.now = s.now
         /\ t.notified \/ SamePlayback(s, t)
  <1> DEFINE Kind(t) == /\ Final(s, t) /\ (Still(s) => Still(t)) /\ t.now = s.now
                        /\ t.notified \/ SamePlayback(s, t)
  <1>1. Kind(s) BY DEF Final, SameView, SamePlayback
  <1>2. Kind(Changed(s))
    BY DEF Changed, Final, Still, Dark, Resting, Service
  <1>3. Kind(Escape(s))
    <2> DEFINE t == Escape(s)
    <2>1. Dark(t) /\ Resting(t) /\ t.notified /\ t.now = s.now
      BY DEF Escape, StopForeground, Changed, ApplyScene, ClearImage, ClearActive,
             Invalidate, Disarm, Dark, Resting, Service
    <2> HIDE DEF t
    <2>2. Kind(t) BY <2>1 DEF Final, Still
    <2> QED BY <2>2 DEF t
  <1>4. Kind([s EXCEPT !.stageEnabled = e.stageEnabled, !.stageEnablePending = FALSE])
    BY DEF Final, Still, Dark, Resting, SameView, SamePlayback, Service
  <1>5. Kind(Changed([s EXCEPT !.stageEnabled = e.stageEnabled,
                               !.stageEnablePending = FALSE]))
    BY DEF Final, Still, Dark, Resting, SameView, SamePlayback, Changed, Service
  <1>6. Kind(Fail(s)) /\ Kind(Fail([s EXCEPT !.outputFault = TRUE]))
    <2> DEFINE u == [s EXCEPT !.outputFault = TRUE]
    <2>1. u \in Service BY BoolFields
    <2>2. u.now = s.now BY DEF Service
    <2> HIDE DEF u
    <2>3. Kind(Fail(u)) /\ Kind(Fail(s)) BY <2>1, <2>2, StopsAnnounce DEF Final, Still
    <2> QED BY <2>3 DEF u
  <1>7. Kind(Follow(NoteStage(s, e), e))
    <2> DEFINE n == NoteStage(s, e)
    <2>1. n \in Service
      <3>1. e.stageEnabled \in BOOLEAN /\ (s.stageEnablePending /\ ~e.stageEnabled) \in BOOLEAN
        BY DEF Event
      <3> QED BY <3>1, BoolFields, ZenonT(30) DEF NoteStage
    <2>2. /\ n.now = s.now /\ n.stopEpoch = s.stopEpoch
          /\ (Still(s) => Still(n)) /\ SamePlayback(s, n)
      BY DEF NoteStage, Still, Dark, Resting, SameView, SamePlayback, Service
    <2> HIDE DEF n
    <2>3. /\ Final(n, Follow(n, e)) /\ (Still(n) => Still(Follow(n, e)))
          /\ Follow(n, e).now = n.now
          /\ Follow(n, e).notified \/ SameView(n, Follow(n, e))
      BY <2>1, FollowProper
    <2> DEFINE t == Follow(n, e)
    <2> HIDE DEF t
    <2>4. Kind(t) BY <2>2, <2>3 DEF Final, SameView, SamePlayback, t
    <2> QED BY <2>4 DEF t, n
  <1> HIDE DEF Kind
  <1>8. Kind(NativeEvent(s, e))
    BY <1>1, <1>2, <1>3, <1>4, <1>5, <1>6, <1>7 DEF NativeEvent
  <1> QED BY <1>8 DEF Kind

\* Escape and failures are announced, or ignored as a whole.
LEMMA FailuresAnnounced ==
  ASSUME NEW s \in Service, NEW e \in Event, e.kind \in {"escape", "error", "device-lost"}
  PROVE  LET t == NativeEvent(s, e) IN t.notified \/ t = s
  <1> DEFINE n == NoteStage(s, e)
             u == [s EXCEPT !.outputFault = TRUE]
             v == [n EXCEPT !.outputFault = TRUE]
  <1>1. n \in Service
    <2>1. e.stageEnabled \in BOOLEAN /\ (s.stageEnablePending /\ ~e.stageEnabled) \in BOOLEAN
      BY DEF Event
    <2> QED BY <2>1, BoolFields, ZenonT(30) DEF NoteStage
  <1> HIDE DEF n
  <1>2. u \in Service /\ v \in Service BY <1>1, BoolFields
  <1> HIDE DEF u, v
  <1>3. Fail(s).notified /\ Fail(n).notified /\ Fail(u).notified /\ Fail(v).notified
    BY <1>1, <1>2, StopsAnnounce
  <1>4. Escape(s).notified
    BY DEF Escape, StopForeground, Changed, ApplyScene, ClearImage, ClearActive,
           Invalidate, Disarm, Service
  <1>5. e.kind # "escape" => Follow(n, e) \in {Fail(n), Fail(v)} BY DEF Follow, v
  <1>6. NativeEvent(s, e) \in {s, Fail(s), Fail(u)}
          \/ (e.kind = "escape" /\ NativeEvent(s, e) = Escape(s))
          \/ (e.kind # "escape" /\ NativeEvent(s, e) = Follow(n, e))
    <2>1. CASE e.kind = "escape" BY <2>1 DEF NativeEvent, Lost, GlobalError
    <2>2. CASE e.kind \in {"error", "device-lost"}
      BY <2>2 DEF NativeEvent, Lost, GlobalError, n, u
    <2> QED BY <2>1, <2>2
  <1> QED BY <1>3, <1>4, <1>5, <1>6

\* The events the backend sends are events of the declared shape.
LEMMA ReportsAreEvents ==
  ASSUME svc \in Service, svc.sceneRevision # 0,
         NEW e \in SourceReports \cup SceneReports \cup Failures
  PROVE  e \in Event
  <1>1. /\ svc.foreground.id \in Nat /\ svc.foreground.transportRevision \in Nat
        /\ svc.scene.generation \in Nat /\ svc.scene.transportRevision \in Nat
    BY DEF Service, Source, Scene
  <1>2. CASE e \in SourceReports BY <1>1, <1>2, ReportsHonest DEF SourceReports
  <1>3. CASE e \in SceneReports BY <1>1, <1>3, ReportsHonest DEF SceneReports
  <1>4. CASE e \in Failures BY <1>1, <1>4, ReportsHonest DEF Failures
  <1> QED BY <1>2, <1>3, <1>4

\* Native events, at their own time or as an input.
LEMMA NativeProper ==
  ASSUME PlaybackInv, Native
  PROVE  Proper
  <1>1. svc \in Service BY PartsHold
  <1>2. /\ Enter(svc) \in Service /\ Input(svc) \in Service BY <1>1, MarkType
  <1>3. PICK s \in {Enter(svc), Input(svc)}, e \in Event :
          /\ svc' = NativeEvent(s, e) /\ config' = config
          /\ NativeReport \/ e.kind \in {"escape", "error", "device-lost"}
    <2>1. CASE NativeReport
      BY <1>1, <2>1, ReportsAreEvents DEF NativeReport, CommandOnly
    <2>2. CASE NativeFailure
      BY <1>1, <2>2, ReportsAreEvents DEF NativeFailure, CommandOnly, Failures, Reports
    <2>3. CASE NativeEscape
      <3> DEFINE e == [kind |-> "escape", generation |-> svc.scene.generation,
                       transportRevision |-> 0, sceneRevision |-> 0,
                       stageEnabled |-> FALSE]
      <3>1. svc' = NativeEvent(Input(svc), e) /\ config' = config
        BY <2>3 DEF NativeEscape, CommandOnly
      <3>2. e \in Event BY <1>1 DEF Event, Service, Scene
      <3> QED BY <3>1, <3>2
    <2> QED BY <2>1, <2>2, <2>3 DEF Native
  <1>4. SameView(svc, s) /\ (Still(svc) => Still(s)) /\ s.now \in {svc.now, svc.now + 1}
    <2>1. CASE s = Enter(svc)
      BY <1>1, <2>1 DEF Enter, SameView, SamePlayback, Still, Dark, Resting, Service
    <2>2. CASE s = Input(svc)
      BY <1>1, <2>2 DEF Input, SameView, SamePlayback, Still, Dark, Resting, Service
    <2> QED BY <2>1, <2>2
  <1>5. /\ Final(s, svc') /\ (Still(s) => Still(svc')) /\ svc'.now = s.now
        /\ svc'.notified \/ SamePlayback(s, svc')
    BY <1>2, <1>3, NativeEventProper
  <1>6. e.kind \in {"escape", "error", "device-lost"} => svc'.notified \/ svc' = s
    BY <1>2, <1>3, FailuresAnnounced
  <1> QED BY <1>3, <1>4, <1>5, <1>6 DEF Proper, Final, SameView, SamePlayback

\* The updater's reservation and its release.
LEMMA UpdateProper ==
  ASSUME PlaybackInv, Update
  PROVE  Proper
  <1> USE PartsHold DEF Proper, Final, Still, Dark, Resting
  <1>1. CASE ReserveUpdate
    BY <1>1 DEF ReserveUpdate, Changed, Invalidate, Input, Service
  <1>2. CASE ReleaseUpdate
    BY <1>2 DEF ReleaseUpdate, Changed, Enter, Service
  <1> QED BY <1>1, <1>2 DEF Update

\* Stage on, off and their answers.
LEMMA StageProper ==
  ASSUME PlaybackInv, Stage
  PROVE  Proper
  <1> USE PartsHold DEF Proper, Final, Still, Dark, Resting
  <1>1. CASE StageOff BY <1>1 DEF StageOff, Changed, ApplyScene, Disarm, Input, Service
  <1>2. CASE StageOnBegin BY <1>2 DEF StageOnBegin, SameView, SamePlayback, Input, Service
  <1>3. CASE StageOnEnd BY <1>3 DEF StageOnEnd, Changed, ApplyScene, Enter, Service
  <1>4. CASE StageOnRefused BY <1>4 DEF StageOnRefused, SameView, SamePlayback
  <1> QED BY <1>1, <1>2, <1>3, <1>4 DEF Stage

\* Every operation on the saved show: most only mark it busy; commits are the rest.
LEMMA ShowProper ==
  ASSUME PlaybackInv, Show
  PROVE  Proper
  <1>1. svc \in Service BY PartsHold
  <1>2. /\ SameView(svc, Enter(svc)) /\ Enter(svc).now = svc.now
        /\ (Still(svc) => Still(Enter(svc))) /\ DOMAIN Enter(svc) = DOMAIN svc
    BY <1>1 DEF Enter, SameView, SamePlayback, Still, Dark, Resting, Service
  <1>3. CASE BeginPlaylist \/ BeginStage \/ BeginLoad \/ ConfigureOutputs \/ PreparePlaylist
             \/ PrepareStage \/ PrepareLoad \/ Refuse \/ SaveFailed
    <2>1. config' = config
      BY <1>3 DEF BeginPlaylist, BeginStage, BeginLoad, Begin, ConfigureOutputs,
                  PreparePlaylist, PrepareStage, PrepareLoad, Refuse, SaveFailed
    <2>2. \/ svc' = svc \/ svc' = Input(svc)
          \/ \E busy : svc' = [Input(svc) EXCEPT !.configBusy = busy]
          \/ \E busy : svc' = [Enter(svc) EXCEPT !.configBusy = busy]
          \/ \E removing : svc' = [Enter(svc) EXCEPT !.removing = removing]
          \/ \E removing, busy : svc' = [Enter(svc) EXCEPT !.removing = removing,
                                                            !.configBusy = busy]
      <3>1. CASE BeginPlaylist \/ BeginStage \/ BeginLoad \/ ConfigureOutputs
        BY <3>1 DEF BeginPlaylist, BeginStage, BeginLoad, Begin, ConfigureOutputs
      <3>2. CASE PreparePlaylist BY <3>2, Zenon DEF PreparePlaylist
      <3>3. CASE PrepareStage \/ PrepareLoad \/ Refuse
        BY <3>3 DEF PrepareStage, PrepareLoad, Refuse
      <3>4. CASE SaveFailed BY <3>4 DEF SaveFailed
      <3> QED BY <1>3, <3>1, <3>2, <3>3, <3>4
    <2> DEFINE Like(t) == /\ SameView(svc, t) /\ t.image = svc.image
                          /\ t.pendingImage = svc.pendingImage
    <2>3. /\ Like(svc) /\ Like(Input(svc))
          /\ \A busy, removing :
               /\ Like([Input(svc) EXCEPT !.configBusy = busy])
               /\ Like([Enter(svc) EXCEPT !.configBusy = busy])
               /\ Like([Enter(svc) EXCEPT !.removing = removing])
               /\ Like([Enter(svc) EXCEPT !.removing = removing, !.configBusy = busy])
      BY <1>1 DEF Input, Enter, SameView, SamePlayback, Service
    <2> HIDE DEF Like
    <2>4. Like(svc') BY <2>2, <2>3
    <2> QED BY <2>1, <2>4 DEF Proper, Final, Still, Dark, Resting, SameView, SamePlayback, Like
  <1>4. CASE CommitPlaylist
    <2> DEFINE idle == [Enter(svc) EXCEPT !.removing = {}]
               cleared == [idle EXCEPT !.backgroundOverride = NoCue]
               chosen == SelectBackground(cleared, EditedConfig.cues,
                                          EditedConfig.defaultBackground)
               settled == IF LosesBackground
                          THEN ClearBackgroundOverride(idle, EditedConfig) ELSE idle
               rescaled == IF edit.rescale /\ ~svc.closed /\ settled.sceneRevision # 0
                           THEN ApplyScene(settled, FALSE) ELSE settled
               Like(t) == /\ DOMAIN t = DOMAIN svc /\ t.stopEpoch = svc.stopEpoch
                          /\ t.state = svc.state /\ t.image = svc.image
                          /\ t.pendingImage = svc.pendingImage
    <2>1. svc' = Changed(rescaled) BY <1>4 DEF CommitPlaylist
    <2>2. Like(idle) /\ Like(cleared) BY <1>1 DEF Enter, Service
    <2> HIDE DEF idle
    <2>3. settled \in {idle, chosen} BY DEF ClearBackgroundOverride
    <2> HIDE DEF cleared
    <2>4. Like(chosen) BY <1>1, <2>2, BackgroundLeaves
    <2> HIDE DEF chosen
    <2>5. Like(settled) BY <2>2, <2>3, <2>4
    <2> HIDE DEF settled
    <2>6. Like(rescaled) BY <1>1, <2>5 DEF ApplyScene, Service
    <2> HIDE DEF rescaled
    <2>7. Like(svc') /\ svc'.notified BY <1>1, <2>1, <2>6 DEF Changed, Service
    <2> QED BY <2>7 DEF Proper, Final, Still, Dark, Resting
  <1>5. CASE CommitOutputs
    <2> DEFINE idle == [Disarm(Enter(svc)) EXCEPT
                          !.configBusy = FALSE, !.outputFault = FALSE,
                          !.stageEnabled = FALSE]
    <2>1. PICK halted \in Halted(StopForeground(idle, TRUE, TRUE)) :
            svc' = SelectBackground(halted, config.cues, svc.backgroundCue)
      BY <1>5 DEF CommitOutputs
    <2>2. idle \in Service
      <3>1. Disarm(Enter(svc)) \in Service BY <1>1, MarkType, DisarmType
      <3> HIDE DEF Disarm, Enter
      <3> QED BY <3>1, BoolFields, ZenonT(30)
    <2> HIDE DEF idle
    <2>3. Dark(halted) /\ halted.notified /\ Resting(halted) /\ DOMAIN halted = DOMAIN idle
      BY <2>2, StopsAnnounce
    <2> DEFINE t == SelectBackground(halted, config.cues, svc.backgroundCue)
    <2>4. /\ t.image = halted.image /\ t.pendingImage = halted.pendingImage
          /\ t.state = halted.state /\ t.notified = halted.notified
      <3>1. ASSUME NEW h, DOMAIN h = DOMAIN idle, NEW cues, NEW id
            PROVE  /\ SelectBackground(h, cues, id).notified = h.notified
                   /\ SelectBackground(h, cues, id).state = h.state
                   /\ SelectBackground(h, cues, id).image = h.image
                   /\ SelectBackground(h, cues, id).pendingImage = h.pendingImage
        <4> HIDE DEF Service
        <4> QED BY <2>2, <3>1, BackgroundLeaves
      <3>2. DOMAIN halted = DOMAIN idle BY <2>3
      <3> QED BY <3>1, <3>2
    <2> HIDE DEF t
    <2>5. svc' = t BY <2>1 DEF t
    <2> QED BY <2>3, <2>4, <2>5 DEF Proper, Final, Still, Dark, Resting
  <1>6. CASE CommitStage
    <2> DEFINE s == Enter(svc)
               cleared == [s EXCEPT !.backgroundOverride = NoCue]
               fallen == SelectBackground(cleared, config'.cues, config'.defaultBackground)
               again == SelectBackground(s, config.cues, svc.backgroundCue)
               chosen == IF config.defaultBackground # edit.default
                         THEN ClearBackgroundOverride(s, config')
                         ELSE IF edit.reselect
                         THEN SelectBackground(s, config.cues, svc.backgroundCue)
                         ELSE s
               Like(t) == /\ DOMAIN t = DOMAIN svc /\ t.stopEpoch = svc.stopEpoch
                          /\ t.state = svc.state /\ t.image = svc.image
                          /\ t.pendingImage = svc.pendingImage
    <2>1. svc' = (IF svc.closed THEN s ELSE Changed(ApplyScene(chosen, FALSE)))
      BY <1>6 DEF CommitStage
    <2>2. Like(s) /\ Like(cleared) BY <1>1 DEF Enter, Service
    <2> HIDE DEF s
    <2>3. chosen \in {s, fallen, again} BY DEF ClearBackgroundOverride
    <2> HIDE DEF cleared
    <2>4. Like(fallen) /\ Like(again) BY <1>1, <2>2, BackgroundLeaves
    <2> HIDE DEF fallen, again
    <2>5. Like(chosen) BY <2>2, <2>3, <2>4
    <2> HIDE DEF chosen
    <2>6. Like(Changed(ApplyScene(chosen, FALSE))) /\ Changed(ApplyScene(chosen, FALSE)).notified
      BY <1>1, <2>5 DEF Changed, ApplyScene, Service
    <2>7. Like(svc') /\ (~svc.closed => svc'.notified) BY <2>1, <2>2, <2>6
    <2> QED BY <2>7 DEF Proper, Final, Still, Dark, Resting
  <1>7. CASE CommitLoad
    <2> DEFINE e == Emptied(Enter(svc))
               t == SelectBackground(e, edit.cues, edit.default)
    <2>1. svc' = (IF svc.closed THEN e ELSE Changed(t))
      BY <1>7 DEF CommitLoad, Emptied
    <2>2. /\ Dark(e) /\ e.state = "stopped" /\ DOMAIN e = DOMAIN svc
      BY <1>1 DEF Emptied, ClearImage, ClearActive, Invalidate, Enter, Dark, Service
    <2> HIDE DEF e
    <2>3. Dark(t) /\ t.state = "stopped" /\ DOMAIN t = DOMAIN svc
      BY <1>1, <2>2, BackgroundLeaves DEF Dark
    <2> HIDE DEF t
    <2>4. Dark(Changed(t)) /\ Changed(t).state = "stopped" /\ Changed(t).notified
      BY <1>1, <2>3 DEF Changed, Dark, Service
    <2>5. Dark(svc') /\ svc'.state = "stopped" /\ (~svc.closed => svc'.notified)
      BY <2>1, <2>2, <2>4
    <2> QED BY <2>5 DEF Proper, Final, Still, Resting
  <1> QED BY <1>3, <1>4, <1>5, <1>6, <1>7 DEF Show

\* All steps.
LEMMA StepProper ==
  ASSUME PlaybackInv, [Next]_vars
  PROVE  Proper
  <1>1. CASE Commands
    <2>1. Final(svc, svc') /\ svc'.notified /\ svc'.now = svc.now + 1
      BY <1>1, PartsHold, CommandsAnnounced
    <2>2. svc.now \in Nat BY PartsHold DEF Service
    <2> QED BY <2>1, <2>2 DEF Proper
  <1>2. CASE UNCHANGED vars BY <1>2 DEF vars, Proper, Final, SameView, SamePlayback
  <1> QED BY <1>1, <1>2, PreparationProper, NativeProper, UpdateProper, StageProper,
             ShowProper DEF Next

\* In a state of the invariant, being quiet is being at rest with nothing on show.
LEMMA QuietIsStill ==
  ASSUME PlaybackInv
  PROVE  Quiet <=> Still(svc)
  <1>1. Quiet => Still(svc) BY DEF Quiet, Still, Dark, Resting
  <1>2. ASSUME Still(svc) PROVE Quiet
    <2>1. Resting(svc) /\ svc.image = NoCue /\ svc.pendingImage = NoCue
      BY <1>2 DEF Still, Dark
    <2>2. LiveImages = {} BY <2>1, WorkMatches DEF WorkMatchesState
    <2>3. LiveLoads = {} BY <2>1 DEF LiveLoads, Resting
    <2> QED BY <2>1, <2>2, <2>3, PartsHold DEF Quiet, Resting
  <1> QED BY <1>1, <1>2

\* Whatever ends in stopping or error under a new epoch has stopped the source,
\* the image and every preparation of them: STOP, Close, Escape, a failure.
THEOREM StopFinal == Spec => StopIsFinal
  <1>1. ASSUME PlaybackInv, (Quiet <=> Still(svc))', [Next]_vars
        PROVE  svc'.stopEpoch # svc.stopEpoch /\ svc'.state \in {"stopping", "error"}
                 => Quiet'
    <2>1. Final(svc, svc') BY <1>1, StepProper DEF Proper
    <2> QED BY <1>1, <2>1 DEF Final, Still, Dark, Resting
  <1>2. PlaybackInv => (Quiet <=> Still(svc)) BY QuietIsStill
  <1> QED BY <1>1, <1>2, PlaybackHolds, PTL DEF Spec, StopIsFinal

\* From there no late preparation, native event, edit or Stage call brings
\* anything back: only a new external input does.
THEOREM QuietStays == Spec => StaysQuiet
  <1>1. ASSUME PlaybackInv, (Quiet <=> Still(svc))', [Next]_vars
        PROVE  Quiet /\ svc'.now = svc.now => Quiet'
    <2>1. Still(svc) /\ svc'.now = svc.now => Still(svc') BY <1>1, StepProper DEF Proper
    <2>2. Quiet <=> Still(svc) BY <1>1, QuietIsStill
    <2> QED BY <1>1, <2>1, <2>2
  <1>2. PlaybackInv => (Quiet <=> Still(svc)) BY QuietIsStill
  <1> QED BY <1>1, <1>2, PlaybackHolds, PTL DEF Spec, StaysQuiet

\* STOP, Close, failures and Escape are final, and stay so.
THEOREM StopsHold == Spec => StopHolds
  BY StopFinal, QuietStays, PTL DEF StopHolds

\* The renderer's scene names the source that plays: every step that gives it a
\* source or takes it away applies a scene, and no other step touches either.
Names(s) == s.foreground.id # 0 => s.scene.foregroundID = s.foreground.id

\* A new scene always asks for the source.
LEMMA ScenesAsk ==
  ASSUME NEW u \in Service, NEW s, DOMAIN s = DOMAIN u, NEW hard
  PROVE  Names(ApplyScene(s, hard)) /\ Names(Changed(ApplyScene(s, hard)))
  BY DEF Names, ApplyScene, DesiredScene, Changed, Service

\* A background leaves the source alone.
LEMMA BackgroundsAsk ==
  ASSUME NEW u \in Service, NEW s, DOMAIN s = DOMAIN u, NEW cues, NEW id
  PROVE  LET t == SelectBackground(s, cues, id) IN
         /\ t.foreground.id = s.foreground.id /\ (Names(s) => Names(t))
         /\ Changed(t).foreground.id = t.foreground.id /\ (Names(t) => Names(Changed(t)))
  <1> USE DEF Names, Service
  <1>1. CASE id = NoCue BY <1>1 DEF SelectBackground, ApplyScene, DesiredScene, Changed
  <1>2. CASE id # NoCue BY <1>2 DEF SelectBackground, Changed
  <1> QED BY <1>1, <1>2

\* The helpers.
LEMMA HelpersAsk ==
  ASSUME NEW s \in Service, Names(s)
  PROVE  /\ Names(Enter(s)) /\ Names(Input(s)) /\ Names(Changed(s)) /\ Names(Disarm(s))
         /\ \A hard \in BOOLEAN : \A t \in Halted(StopForeground(s, TRUE, hard)) :
              t.foreground.id = 0
         /\ Fail(s).foreground.id = 0
         /\ \A paused : Names(SetPaused(s, paused))
  <1> USE DEF Names, Service
  <1>1. /\ Names(Enter(s)) /\ Names(Input(s)) /\ Names(Changed(s)) /\ Names(Disarm(s))
    BY DEF Enter, Input, Changed, Disarm
  <1>2. ASSUME NEW hard \in BOOLEAN, NEW t \in Halted(StopForeground(s, TRUE, hard))
        PROVE  t.foreground.id = 0
    <2> DEFINE h == StopForeground(s, TRUE, hard)
    <2>1. h.foreground.id = 0 /\ DOMAIN h = DOMAIN s
      BY DEF StopForeground, Changed, ApplyScene, ClearImage, ClearActive, Invalidate, NoSource
    <2> HIDE DEF h
    <2>2. t = h \/ t = [h EXCEPT !.state = "error"] BY DEF Halted, h
    <2> QED BY <2>1, <2>2
  <1>3. Fail(s).foreground.id = 0
    BY DEF Fail, Changed, ApplyScene, ClearImage, ClearActive, Invalidate, Disarm, NoSource
  <1>4. ASSUME NEW paused PROVE Names(SetPaused(s, paused))
    <2> DEFINE asked == [s EXCEPT !.paused = paused, !.transportRevision = @ + 1]
               given == [asked EXCEPT !.foreground.paused = paused,
                                      !.foreground.transportRevision = asked.transportRevision]
    <2>1. Names(asked) /\ DOMAIN asked = DOMAIN s /\ DOMAIN given = DOMAIN s OBVIOUS
    <2>2. Names(Changed(asked)) BY <2>1 DEF Changed
    <2> HIDE DEF asked, given
    <2>3. Names(Changed(ApplyScene(given, FALSE)))
      <3> HIDE DEF Service
      <3> QED BY <2>1, ScenesAsk
    <2> QED BY <2>2, <2>3 DEF SetPaused, asked, given
  <1> QED BY <1>1, <1>2, <1>3, <1>4

LEMMA CommandsAsk ==
  ASSUME svc \in Service, Names(svc), Commands
  PROVE  Names(svc')
  <1> USE DEF Service
  <1>0. Input(svc) \in Service /\ Names(Input(svc)) BY MarkType, HelpersAsk
  <1>1. CASE SetMasterVolume BY <1>0, <1>1, ScenesAsk DEF SetMasterVolume
  <1>2. CASE PauseOrResume
    <2> HIDE DEF Service
    <2> QED BY <1>0, <1>2, HelpersAsk DEF PauseOrResume
  <1>3. CASE Seek BY <1>3 DEF Seek, SetPosition, Changed, ApplyScene, DesiredScene, Input, Names
  <1>4. CASE PressImageAgain
    BY <1>4 DEF PressImageAgain, StopImage, StopForeground, Changed, ApplyScene, DesiredScene,
                ClearImage, ClearActive, Invalidate, Input, NoSource, Names
  <1>5. CASE PressForegroundAgain
    <2> HIDE DEF Service
    <2> QED BY <1>0, <1>5, HelpersAsk DEF PressForegroundAgain
  <1>6. ASSUME NEW cue \in CueRef, NEW cues, NEW id,
               svc' = Changed(SelectBackground([Input(svc) EXCEPT !.backgroundOverride = cue],
                                               cues, id))
        PROVE  Names(svc')
    <2> DEFINE u == [Input(svc) EXCEPT !.backgroundOverride = cue]
               v == SelectBackground(u, cues, id)
    <2>1. u \in Service /\ Names(u)
      <3>1. u \in Service
        <4> HIDE DEF Service
        <4> QED BY <1>0, CueFields
      <3>2. u.foreground = Input(svc).foreground /\ u.scene = Input(svc).scene BY <1>0
      <3> HIDE DEF u
      <3> QED BY <1>0, <3>1, <3>2 DEF Names
    <2> HIDE DEF u
    <2>2. Names(v) /\ (Names(v) => Names(Changed(v)))
      <3> HIDE DEF Service
      <3> QED BY <2>1, BackgroundsAsk
    <2> QED BY <1>6, <2>2 DEF u
  <1>7. CASE PressBackgroundAgain
    BY <1>6, <1>7 DEF PressBackgroundAgain, ClearBackgroundOverride, CueRef
  <1>8. CASE PressBackground BY <1>6, <1>8 DEF PressBackground, CueRef
  <1>9. CASE PressImage
    BY <1>9 DEF PressImage, SelectImage, Changed, ClearImage, Input, Names
  <1>10. CASE PressForeground
    BY <1>10 DEF PressForeground, SelectForeground, SendLoad, Changed, ClearImage, Invalidate,
                 Input, Names
  <1>11. CASE Stop BY <1>0, <1>11, HelpersAsk DEF Stop, Names
  <1>12. CASE EmergencyStop
    <2> DEFINE d == Disarm(Input(svc))
               u == [d EXCEPT !.stageEnabled = FALSE]
    <2>1. svc' \in Halted(StopForeground(u, TRUE, TRUE)) BY <1>12 DEF EmergencyStop
    <2>2. d \in Service /\ Names(d)
      <3> HIDE DEF Service
      <3> QED BY <1>0, DisarmType, HelpersAsk
    <2> HIDE DEF d
    <2>3. u \in Service
      <3> HIDE DEF Service
      <3> QED BY <2>2, BoolFields
    <2>4. Names(u) BY <2>2 DEF Names
    <2> HIDE DEF u
    <2> QED BY <2>1, <2>3, <2>4, HelpersAsk DEF Names
  <1>13. CASE Close
    BY <1>13 DEF Close, StopForeground, Changed, ApplyScene, ClearImage, ClearActive,
                 Invalidate, Disarm, Input, NoSource, Names
  <1> QED BY <1>1, <1>2, <1>3, <1>4, <1>5, <1>7, <1>8, <1>9, <1>10, <1>11, <1>12, <1>13
          DEF Commands

LEMMA PreparationAsks ==
  ASSUME svc \in Service, Names(svc), Preparation
  PROVE  Names(svc')
  <1> USE DEF Service
  <1>1. CASE TakeLoad \/ TakeImage \/ TakeBackground
    BY <1>1 DEF TakeLoad, TakeImage, TakeBackground, Names
  <1>2. CASE DropLoad \/ DropImage \/ DropBackground
    BY <1>2 DEF DropLoad, DropImage, DropBackground
  <1>3. CASE FinishLoad
    <2> DEFINE s == Enter(svc)
    <2>1. \/ svc' = Fail(s)
          \/ svc' = CommitAsImage(s, loader)
          \/ \E kind \in Kinds : svc' = CommitForeground(s, loader, kind)
      BY <1>3 DEF FinishLoad, Findings, Kinds
    <2>2. s \in Service /\ Names(s) BY MarkType, HelpersAsk
    <2> HIDE DEF s
    <2>3. CASE svc' = Fail(s) BY <2>2, <2>3, HelpersAsk DEF Names
    <2>4. CASE svc' = CommitAsImage(s, loader)
      BY <2>2, <2>4 DEF CommitAsImage, Arm, Changed, ApplyScene, DesiredScene, Names
    <2>5. CASE \E kind \in Kinds : svc' = CommitForeground(s, loader, kind)
      BY <2>2, <2>5 DEF CommitForeground, Arm, Changed, ApplyScene, DesiredScene, Names
    <2> QED BY <2>1, <2>3, <2>4, <2>5
  <1>4. CASE FinishImage
    BY <1>4 DEF FinishImage, CommitVisual, Arm, Changed, ApplyScene, DesiredScene, Enter, Names
  <1>5. CASE FinishBackground
    BY <1>5 DEF FinishBackground, Changed, ApplyScene, DesiredScene, Enter, Names
  <1> QED BY <1>1, <1>2, <1>3, <1>4, <1>5 DEF Preparation

LEMMA NativeAsks ==
  ASSUME svc \in Service, Names(svc), Native
  PROVE  Names(svc')
  <1>1. PICK s \in {Enter(svc), Input(svc)}, e \in Event : svc' = NativeEvent(s, e)
    <2>1. CASE NativeReport BY <2>1, ReportsAreEvents DEF NativeReport
    <2>2. CASE NativeFailure BY <2>2, ReportsAreEvents DEF NativeFailure
    <2>3. CASE NativeEscape
      <3> DEFINE e == [kind |-> "escape", generation |-> svc.scene.generation,
                       transportRevision |-> 0, sceneRevision |-> 0,
                       stageEnabled |-> FALSE]
      <3>1. svc' = NativeEvent(Input(svc), e) BY <2>3 DEF NativeEscape
      <3>2. e \in Event BY DEF Event, Service, Scene
      <3> QED BY <3>1, <3>2
    <2> QED BY <2>1, <2>2, <2>3 DEF Native
  <1>2. s \in Service /\ Names(s) BY MarkType, HelpersAsk
  <1> DEFINE u == [s EXCEPT !.outputFault = TRUE]
             n == NoteStage(s, e)
             v == [n EXCEPT !.outputFault = TRUE]
  <1>3. u \in Service /\ n \in Service
    <2>1. e.stageEnabled \in BOOLEAN /\ (s.stageEnablePending /\ ~e.stageEnabled) \in BOOLEAN
      BY DEF Event
    <2> QED BY <1>2, <2>1, BoolFields, ZenonT(30) DEF NoteStage
  <1>4. Names(u) /\ Names(n) BY <1>2 DEF NoteStage, Service, Names
  <1> HIDE DEF n, u
  <1>5. v \in Service BY <1>3, BoolFields
  <1> HIDE DEF v
  <1>6. Names(Fail(s)) /\ Names(Fail(u)) /\ Names(Fail(n)) /\ Names(Fail(v))
    <2>1. ASSUME NEW w \in Service PROVE Names(Fail(w))
      BY <2>1 DEF Fail, Changed, ApplyScene, ClearImage, ClearActive, Invalidate, Disarm,
                  NoSource, Names, Service
    <2> QED BY <1>2, <1>3, <1>5, <2>1
  <1>7. Names(Follow(n, e))
    <2>1. CASE e.kind \in {"playing", "paused"}
      <3> DEFINE w == [n EXCEPT !.state = e.kind, !.seekPending = FALSE,
                                !.foreground.seekPending = FALSE]
      <3>1. Names(Changed(w)) BY <1>3, <1>4 DEF Changed, Service, Source, Names
      <3>2. Follow(n, e) \in {n, Changed(w)} BY <2>1 DEF Follow
      <3> QED BY <1>4, <3>1, <3>2
    <2>2. CASE e.kind \in {"progress", "stopped"}
      BY <1>3, <1>4, <2>2 DEF Follow, Changed, Service, Names
    <2>3. CASE e.kind = "ended"
      BY <1>3, <1>4, <2>3 DEF Follow, Changed, ApplyScene, ClearActive, NoSource, Service, Names
    <2>4. CASE e.kind = "error" BY <1>6, <2>4 DEF Follow
    <2>5. CASE e.kind = "device-lost" BY <1>6, <2>5 DEF Follow, v
    <2>6. CASE e.kind \notin {"playing", "paused", "progress", "stopped", "ended", "error",
                             "device-lost"}
      BY <1>4, <2>6 DEF Follow
    <2> QED BY <2>1, <2>2, <2>3, <2>4, <2>5, <2>6
  <1>8. /\ Names(Changed(s)) /\ Names(Escape(s))
        /\ \A flag \in BOOLEAN :
             Names(Changed([s EXCEPT !.stageEnabled = flag, !.stageEnablePending = FALSE]))
    <2>1. Names(Changed(s)) BY <1>2, HelpersAsk
    <2>2. Names(Escape(s))
      BY <1>2 DEF Escape, StopForeground, Changed, ApplyScene, ClearImage, ClearActive,
                  Invalidate, Disarm, NoSource, Service, Names
    <2>3. ASSUME NEW flag \in BOOLEAN
          PROVE Names(Changed([s EXCEPT !.stageEnabled = flag, !.stageEnablePending = FALSE]))
      BY <1>2 DEF Changed, Service, Names
    <2> QED BY <2>1, <2>2, <2>3
  <1>9. e.stageEnabled \in BOOLEAN BY DEF Event
  <1> HIDE DEF Names
  <1>10. Names(NativeEvent(s, e))
    BY <1>2, <1>6, <1>7, <1>8, <1>9 DEF NativeEvent, n, u
  <1> QED BY <1>1, <1>10

LEMMA StageAsks ==
  ASSUME svc \in Service, Names(svc), Update \/ Stage
  PROVE  Names(svc')
  <1> USE DEF Names, Service
  <1>1. CASE ReserveUpdate BY <1>1 DEF ReserveUpdate, Changed, Invalidate, Input
  <1>2. CASE ReleaseUpdate BY <1>2 DEF ReleaseUpdate, Changed, Enter
  <1>3. CASE StageOff BY <1>3 DEF StageOff, Changed, ApplyScene, DesiredScene, Disarm, Input
  <1>4. CASE StageOnBegin BY <1>4 DEF StageOnBegin, Input
  <1>5. CASE StageOnEnd BY <1>5 DEF StageOnEnd, Changed, ApplyScene, DesiredScene, Enter
  <1>6. CASE StageOnRefused BY <1>6 DEF StageOnRefused
  <1> QED BY <1>1, <1>2, <1>3, <1>4, <1>5, <1>6 DEF Update, Stage

LEMMA ShowAsks ==
  ASSUME svc \in Service, Names(svc), Show
  PROVE  Names(svc')
  <1>0. /\ Enter(svc) \in Service /\ Names(Enter(svc)) /\ DOMAIN Enter(svc) = DOMAIN svc
        /\ Enter(svc).foreground = svc.foreground /\ Enter(svc).scene = svc.scene
    <2>1. Enter(svc) \in Service BY MarkType
    <2> QED BY <2>1, HelpersAsk DEF Enter, Service
  <1>1. CASE BeginPlaylist \/ BeginStage \/ BeginLoad \/ ConfigureOutputs
    BY <1>1 DEF BeginPlaylist, BeginStage, BeginLoad, Begin, ConfigureOutputs, Input, Names,
                Service
  <1>2. CASE PreparePlaylist BY <1>2 DEF PreparePlaylist, Enter, Names, Service
  <1>3. CASE PrepareStage \/ PrepareLoad \/ Refuse
    BY <1>3 DEF PrepareStage, PrepareLoad, Refuse, Enter, Names, Service
  <1>4. CASE SaveFailed BY <1>4 DEF SaveFailed, Enter, Names, Service
  <1>5. CASE CommitPlaylist
    <2> DEFINE idle == [Enter(svc) EXCEPT !.removing = {}]
               cleared == [idle EXCEPT !.backgroundOverride = NoCue]
               chosen == SelectBackground(cleared, EditedConfig.cues,
                                          EditedConfig.defaultBackground)
               settled == IF LosesBackground
                          THEN ClearBackgroundOverride(idle, EditedConfig) ELSE idle
               rescaled == IF edit.rescale /\ ~svc.closed /\ settled.sceneRevision # 0
                           THEN ApplyScene(settled, FALSE) ELSE settled
               Like(t) == Names(t) /\ DOMAIN t = DOMAIN svc
    <2>1. svc' = Changed(rescaled) BY <1>5 DEF CommitPlaylist
    <2>2. Like(idle) /\ Like(cleared) BY <1>0 DEF Enter, Names, Service
    <2> HIDE DEF idle
    <2>3. settled \in {idle, chosen} BY DEF ClearBackgroundOverride
    <2> HIDE DEF cleared
    <2>4. Like(chosen)
      <3>1. DOMAIN chosen = DOMAIN svc BY <2>2, BackgroundLeaves
      <3> QED BY <2>2, <3>1, BackgroundsAsk
    <2> HIDE DEF chosen
    <2>5. Like(settled) BY <2>2, <2>3, <2>4
    <2> HIDE DEF settled
    <2>6. Like(rescaled) BY <2>5, ScenesAsk DEF ApplyScene
    <2> HIDE DEF rescaled
    <2> QED BY <2>1, <2>6 DEF Changed, Names, Service
  <1>6. CASE CommitOutputs
    <2> DEFINE idle == [Disarm(Enter(svc)) EXCEPT
                          !.configBusy = FALSE, !.outputFault = FALSE,
                          !.stageEnabled = FALSE]
    <2>1. PICK halted \in Halted(StopForeground(idle, TRUE, TRUE)) :
            svc' = SelectBackground(halted, config.cues, svc.backgroundCue)
      BY <1>6 DEF CommitOutputs
    <2>2. idle \in Service
      <3>1. Disarm(Enter(svc)) \in Service BY <1>0, DisarmType
      <3> HIDE DEF Disarm, Enter
      <3> QED BY <3>1, BoolFields, ZenonT(30)
    <2>3. Names(idle) BY <1>0 DEF Disarm, Names, Service
    <2> HIDE DEF idle
    <2>4. halted.foreground.id = 0 /\ DOMAIN halted = DOMAIN idle
      BY <2>2, <2>3, HelpersAsk, StopsAnnounce
    <2> QED BY <2>1, <2>2, <2>4, BackgroundsAsk DEF Names
  <1>7. CASE CommitStage
    <2> DEFINE s == Enter(svc)
               cleared == [s EXCEPT !.backgroundOverride = NoCue]
               fallen == SelectBackground(cleared, config'.cues, config'.defaultBackground)
               again == SelectBackground(s, config.cues, svc.backgroundCue)
               chosen == IF config.defaultBackground # edit.default
                         THEN ClearBackgroundOverride(s, config')
                         ELSE IF edit.reselect
                         THEN SelectBackground(s, config.cues, svc.backgroundCue)
                         ELSE s
    <2>1. svc' = (IF svc.closed THEN s ELSE Changed(ApplyScene(chosen, FALSE)))
      BY <1>7 DEF CommitStage
    <2>2. DOMAIN s = DOMAIN svc /\ DOMAIN cleared = DOMAIN svc BY <1>0
    <2> HIDE DEF s
    <2>3. chosen \in {s, fallen, again} BY DEF ClearBackgroundOverride
    <2> HIDE DEF cleared
    <2>4. DOMAIN fallen = DOMAIN svc /\ DOMAIN again = DOMAIN svc BY <2>2, BackgroundLeaves
    <2> HIDE DEF fallen, again
    <2>5. DOMAIN chosen = DOMAIN svc BY <2>2, <2>3, <2>4
    <2> HIDE DEF chosen
    <2>6. Names(Changed(ApplyScene(chosen, FALSE))) BY <2>5, ScenesAsk
    <2> QED BY <1>0, <2>1, <2>6 DEF s
  <1>8. CASE CommitLoad
    <2> DEFINE e == Emptied(Enter(svc))
               t == SelectBackground(e, edit.cues, edit.default)
    <2>1. svc' = (IF svc.closed THEN e ELSE Changed(t))
      BY <1>8 DEF CommitLoad, Emptied
    <2>2. e.foreground.id = 0 /\ DOMAIN e = DOMAIN svc
      BY DEF Emptied, ClearImage, ClearActive, Invalidate, Enter, NoSource, Service
    <2> HIDE DEF e
    <2> QED BY <2>1, <2>2, BackgroundsAsk DEF Names
  <1> QED BY <1>1, <1>2, <1>3, <1>4, <1>5, <1>6, <1>7, <1>8 DEF Show

LEMMA NamesHold == Spec => []Names(svc)
  <1>1. Init => Names(svc)
    BY DEF Init, InitialService, SelectBackground, ApplyScene, NoSource, Names
  <1>2. ASSUME PlaybackInv, Names(svc), [Next]_vars PROVE Names(svc)'
    <2>1. svc \in Service BY <1>2, PartsHold
    <2>2. CASE UNCHANGED vars BY <1>2, <2>2 DEF vars, Names
    <2>3. Names(svc')
      BY <1>2, <2>1, <2>2, CommandsAsk, PreparationAsks, NativeAsks, StageAsks, ShowAsks
         DEF Next
    <2> QED BY <2>3
  <1> QED BY <1>1, <1>2, PlaybackHolds, PTL DEF Spec

\* A report that is passed over in silence changes the flag only while a cue is
\* loading or after a failure: what a source that plays can report is always
\* announced, nothing that rests has one, and the renderer does not say "stopped"
\* of a scene that has a source.
LEMMA PassedOver ==
  ASSUME PlaybackInv, Names(svc), NativeReport, ~svc.closed, ~svc'.notified,
         svc'.stageEnabled # svc.stageEnabled
  PROVE  svc.state \in {"loading", "error"}
  <1> DEFINE s == Enter(svc)
  <1>1. svc \in Service /\ LoadsAgree(svc, loader) /\ Settled(svc, imageWorker, edit)
    BY PartsHold DEF PlaybackInv, ReservationInv, WorkAgrees
  <1>2. /\ s \in Service /\ s.closed = svc.closed /\ s.state = svc.state
        /\ s.foreground = svc.foreground /\ s.generation = svc.generation
        /\ s.paused = svc.paused /\ s.stageEnabled = svc.stageEnabled
    BY <1>1, MarkType DEF Enter, Service
  <1>3. PICK e \in SourceReports \cup SceneReports : svc' = NativeEvent(s, e)
    BY DEF NativeReport
  <1>4. e \in Event BY <1>1, <1>3, ReportsAreEvents DEF NativeReport
  <1> HIDE DEF s
  <1> DEFINE n == NoteStage(s, e)
  <1>5. /\ n \in Service /\ n.state = s.state /\ n.paused = s.paused
        /\ DOMAIN n = DOMAIN s
    <2>1. e.stageEnabled \in BOOLEAN /\ (s.stageEnablePending /\ ~e.stageEnabled) \in BOOLEAN
      BY <1>4 DEF Event
    <2>2. n \in Service BY <1>2, <2>1, BoolFields, ZenonT(30) DEF NoteStage
    <2> QED BY <1>2, <2>2 DEF NoteStage, Service
  <1> HIDE DEF n
  <1>6. e.kind \in {"playing", "paused", "progress", "ended", "stopped", "stage",
                    "background-error"}
    BY <1>3 DEF SourceReports, SceneReports, Reports
  <1>7. svc' = Follow(n, e) /\ Fresh(s, e) /\ e.kind \notin {"stage", "background-error"}
    <2>1. \A flag \in BOOLEAN :
            Changed([s EXCEPT !.stageEnabled = flag, !.stageEnablePending = FALSE]).notified
      BY <1>2 DEF Changed, Service
    <2>2. e.stageEnabled \in BOOLEAN BY <1>4 DEF Event
    <2>3. CASE e.kind \in {"stage", "background-error"}
      BY <1>2, <1>3, <2>1, <2>2, <2>3 DEF NativeEvent, Lost, GlobalError
    <2>4. CASE e.kind \notin {"stage", "background-error"}
      BY <1>2, <1>3, <1>6, <2>4 DEF NativeEvent, Lost, GlobalError, n
    <2> QED BY <2>3, <2>4
  <1>8. CASE svc.state \in {"playing", "paused"}
    <2>1. svc.foreground.id # 0 /\ svc.foreground.paused = svc.paused
      BY <1>1, <1>8 DEF LoadsAgree
    <2>2. svc.scene.foregroundID # 0 BY <2>1 DEF Names
    <2>3. e.kind \in {IF svc.paused THEN "paused" ELSE "playing", "progress", "ended"}
      BY <1>3, <1>7, <2>1, <2>2 DEF SourceReports, SceneReports, Reports
    <2>4. Follow(n, e).notified
      <3>1. svc.paused \in BOOLEAN BY <1>1 DEF Service
      <3>2. CASE e.kind \in {"playing", "paused"}
        BY <1>2, <1>5, <1>8, <2>3, <3>1, <3>2 DEF Follow, Changed, Service
      <3>3. CASE e.kind = "progress"
        BY <1>2, <1>5, <1>8, <3>3 DEF Follow, Changed, Service
      <3>4. CASE e.kind = "ended"
        BY <1>2, <1>5, <1>8, <3>4 DEF Follow, Changed, ApplyScene, ClearActive, Service
      <3> QED BY <2>3, <3>2, <3>3, <3>4
    <2> QED BY <1>7, <2>4
  <1>9. CASE svc.state \in {"stopped", "stopping"}
    <2>1. svc.foreground.id = 0 /\ svc.generation # 0
      BY <1>1, <1>9 DEF Settled, Resting
    <2>2. e.generation = svc.generation
      BY <1>2, <1>7, <1>9 DEF Fresh, Expected
    <2>3. e \notin SourceReports BY <2>1, <2>2 DEF SourceReports, Reports
    <2>4. e.kind = "stopped" BY <1>3, <1>7, <2>3 DEF SceneReports, Reports
    <2>5. Follow(n, e).notified
      BY <1>2, <1>5, <1>9, <2>4 DEF Follow, Changed, Service
    <2> QED BY <1>7, <2>5
  <1> QED BY <1>1, <1>8, <1>9 DEF Service, Phases

\* Every change controllers can see is announced by changedLocked, in every
\* critical section of an open service, but for what a report says of the stage
\* alone while a cue is loading or after a failure (service.go:673-732).
THEOREM ChangesNotified == Spec => ChangesAreNotified
  <1>1. ASSUME PlaybackInv, Names(svc), [Next]_vars
        PROVE  View' # View /\ ~svc.closed => svc'.notified \/ FlagOnly
    <2>1. SUFFICES ASSUME View' # View, ~svc.closed, ~svc'.notified PROVE FlagOnly
      OBVIOUS
    <2>2. \/ config' = config /\ SameView(svc, svc')
          \/ NativeReport /\ config' = config /\ SamePlayback(svc, svc')
      BY <1>1, <2>1, StepProper DEF Proper
    <2>3. NativeReport /\ config' = config /\ SamePlayback(svc, svc')
      BY <2>1, <2>2 DEF SameView, SamePlayback, View, PlaybackView
    <2>4. PlaybackView' = PlaybackView BY <2>3 DEF SamePlayback, PlaybackView
    <2>5. svc'.stageEnabled # svc.stageEnabled BY <2>1, <2>4 DEF View
    <2>6. svc.state \in {"loading", "error"} BY <1>1, <2>1, <2>3, <2>5, PassedOver
    <2> QED BY <2>3, <2>4, <2>6 DEF FlagOnly
  <1> QED BY <1>1, PlaybackHolds, NamesHold, PTL DEF Spec, ChangesAreNotified
=============================================================================
