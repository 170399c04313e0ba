--------------------------- MODULE PlaybackLemmas ---------------------------
(***************************************************************************)
(* What the helpers of ServiceState.tla do to the strengthening PlaybackInv *)
(* of Coordinator.tla: one lemma for each of its parts, with one step for  *)
(* each helper that writes what the part reads.  PlaybackProofs.tla puts   *)
(* the parts together action by action.                                    *)
(***************************************************************************)
EXTENDS CoordinatorProofs

\* s and t agree on the named fields
Same(s, t, fields) == \A f \in fields : t[f] = s[f]

\* the fields each part of the invariant reads
LoadFields == {"state", "generation", "transportRevision", "activeCue", "paused",
               "seekPending", "foreground", "loads", "closed"}
ImageFields == {"visualSequence", "visualLoads", "pendingImage", "closed"}
BackgroundFields == {"backgroundSequence", "backgroundLoads", "backgroundCue"}
StageFields == {"now", "offAt", "stageDesired", "armedAt", "stageSerial", "loads",
                "visualLoads"}
SelectionFields == {"imageCue", "pendingImage", "backgroundCue", "backgroundOverride",
                    "state", "activeCue", "removing", "closed"}
SceneFields == {"sceneRevision", "scene", "closed", "state", "foreground", "generation",
                "pendingImage", "backgroundSequence", "backgroundLoads", "image",
                "background"}

\* The service as a playlist load leaves it (LoadPlaylist), before the new
\* default background is selected.
Emptied(s) ==
  [ClearImage(ClearActive(Invalidate(s))) EXCEPT
     !.configBusy = FALSE, !.stopEpoch = @ + 1, !.foreground = NoSource,
     !.background = NoCue, !.backgroundOverride = NoCue,
     !.state = "stopped", !.stageSerial = @ + 1]

\* What an event that passes Fresh does (the switch in nativeEvent): a source
\* acknowledges its newest intent, or ends; a phase comes to rest.
Acked(s, kind) ==
  Changed([s EXCEPT !.state = kind, !.seekPending = FALSE, !.foreground.seekPending = FALSE])
Ended(s) ==
  Changed(ApplyScene([ClearActive(s) EXCEPT !.foreground = NoSource, !.state = "stopped"],
                     FALSE))
Rested(s, phase) == [s EXCEPT !.state = phase]

\* What a native source may report: under its own identity, and under its own
\* newest revision only with the pause intent that revision carried.
Truthful(s, e) ==
  /\ e.kind \in {"playing", "paused", "progress", "ended"} =>
       e.generation \in {0, s.foreground.id}
  /\ e.kind \in {"playing", "paused"} =>
       /\ e.transportRevision \in {0, s.foreground.transportRevision}
       /\ s.foreground.paused = (e.kind = "paused")

\* Each part depends on the fields it reads and on nothing else.
LEMMA PartsRead ==
  ASSUME NEW s, NEW t
  PROVE  /\ Same(s, t, LoadFields) => \A w : LoadsAgree(s, w) => LoadsAgree(t, w)
         /\ Same(s, t, ImageFields) => \A w : ImagesAgree(s, w) => ImagesAgree(t, w)
         /\ Same(s, t, BackgroundFields) =>
              \A w : BackgroundsAgree(s, w) => BackgroundsAgree(t, w)
         /\ Same(s, t, StageFields) =>
              \A l, i, calls : OffHonoured(s, l, i, calls) => OffHonoured(t, l, i, calls)
         /\ Same(s, t, SelectionFields) =>
              \A show, op : SelectionsAgree(s, show, op) => SelectionsAgree(t, show, op)
         /\ Same(s, t, SceneFields) => \A w : SceneAgrees(s, w) => SceneAgrees(t, w)
  <1> USE DEF Same
  <1>1. Same(s, t, LoadFields) => \A w : LoadsAgree(s, w) => LoadsAgree(t, w)
    BY DEF LoadFields, LoadsAgree, Resting
  <1>2. Same(s, t, ImageFields) => \A w : ImagesAgree(s, w) => ImagesAgree(t, w)
    BY DEF ImageFields, ImagesAgree
  <1>3. Same(s, t, BackgroundFields) =>
          \A w : BackgroundsAgree(s, w) => BackgroundsAgree(t, w)
    BY DEF BackgroundFields, BackgroundsAgree, BackgroundPending
  <1>4. Same(s, t, StageFields) =>
          \A l, i, calls : OffHonoured(s, l, i, calls) => OffHonoured(t, l, i, calls)
    BY DEF StageFields, OffHonoured, Honours
  <1>5. Same(s, t, SelectionFields) =>
          \A show, op : SelectionsAgree(s, show, op) => SelectionsAgree(t, show, op)
    BY DEF SelectionFields, SelectionsAgree
  <1>6. Same(s, t, SceneFields) => \A w : SceneAgrees(s, w) => SceneAgrees(t, w)
    BY DEF SceneFields, SceneAgrees, Shown, BackgroundPending
  <1> QED BY <1>1, <1>2, <1>3, <1>4, <1>5, <1>6

\* The foreground part, through every helper that writes what it reads.
LEMMA LoadsKept ==
  ASSUME NEW s \in Service, NEW w \in Job, LoadsAgree(s, w), s.generation # 0,
         Resting(s) => s.foreground.id = 0 /\ s.activeCue = NoCue
  PROVE  /\ \A image, hard \in BOOLEAN : LoadsAgree(StopForeground(s, image, hard), w)
         /\ LoadsAgree(Fail(s), w) /\ LoadsAgree(StopImage(s), w)
         /\ LoadsAgree(Emptied(s), w)
         /\ Resting(s) => LoadsAgree(Invalidate(s), w)
         /\ \A paused \in BOOLEAN : LoadsAgree(SetPaused(s, paused), w)
         /\ CanSeek(s) => LoadsAgree(SetPosition(s), w)
         /\ \A cue \in CueRef : ~s.closed => LoadsAgree(SelectForeground(s, cue), w)
  <1> USE DEF LoadsAgree, Service, Job, Source, Resting
  <1>1. ASSUME NEW image \in BOOLEAN, NEW hard \in BOOLEAN
        PROVE  LoadsAgree(StopForeground(s, image, hard), w)
    BY DEF StopForeground, Changed, ApplyScene, ClearImage, ClearActive, Invalidate,
           NoSource
  <1>2. LoadsAgree(Fail(s), w)
    <2> DEFINE halted == [ClearActive(Invalidate(s)) EXCEPT
                            !.stopEpoch = @ + 1, !.foreground = NoSource]
               dark == [Disarm(ClearImage(halted)) EXCEPT
                          !.stageEnablePending = FALSE, !.stageEnabled = FALSE,
                          !.state = "error"]
               t == Changed(ApplyScene(dark, TRUE))
    <2>1. /\ halted.generation = s.generation + 1 /\ halted.loads = NoJob
          /\ halted.foreground = NoSource /\ DOMAIN halted = DOMAIN s
      BY DEF ClearActive, Invalidate
    <2> HIDE DEF halted
    <2>2. /\ dark.generation = s.generation + 1 /\ dark.loads = NoJob
          /\ dark.foreground = NoSource /\ dark.state = "error" /\ DOMAIN dark = DOMAIN s
      BY <2>1 DEF Disarm, ClearImage
    <2> HIDE DEF dark
    <2>3. /\ t.generation = s.generation + 1 /\ t.loads = NoJob
          /\ t.foreground = NoSource /\ t.state = "error"
      BY <2>2 DEF Changed, ApplyScene
    <2> HIDE DEF t
    <2>4. LoadsAgree(t, w) BY <2>3 DEF NoSource
    <2>5. Fail(s) = t BY Zenon DEF Fail, t, dark, halted
    <2> QED BY <2>4, <2>5
  <1>3. LoadsAgree(StopImage(s), w)
    <2>1. CASE s.foreground.kind = "video"
      <3>1. StopImage(s) = StopForeground(ClearImage(s), FALSE, FALSE)
        BY <2>1, Zenon DEF StopImage
      <3> QED BY <3>1 DEF StopForeground, Changed, ApplyScene, ClearImage, ClearActive,
                          Invalidate, NoSource
    <2>2. CASE s.foreground.kind # "video"
      <3>1. StopImage(s) =
            Changed(ApplyScene([ClearImage(s) EXCEPT !.stopEpoch = @ + 1], FALSE))
        BY <2>2, Zenon DEF StopImage
      <3> QED BY <3>1 DEF Changed, ApplyScene, ClearImage
    <2> QED BY <2>1, <2>2
  <1>4. LoadsAgree(Emptied(s), w)
    BY DEF Emptied, ClearImage, ClearActive, Invalidate, NoSource
  <1>5. Resting(s) => LoadsAgree(Invalidate(s), w)
    BY DEF Invalidate
  <1>6. ASSUME NEW paused \in BOOLEAN PROVE LoadsAgree(SetPaused(s, paused), w)
    <2> DEFINE t == SetPaused(s, paused)
    <2>1. /\ t.state = s.state /\ t.generation = s.generation /\ t.loads = s.loads
          /\ t.activeCue = s.activeCue /\ t.seekPending = s.seekPending
          /\ t.closed = s.closed /\ t.foreground.id = s.foreground.id
          /\ t.foreground.cue = s.foreground.cue
          /\ t.foreground.seekPending = s.foreground.seekPending
      BY DEF SetPaused, Changed, ApplyScene
    <2>2. t.transportRevision \in {s.transportRevision, s.transportRevision + 1}
      BY DEF SetPaused, Changed, ApplyScene
    <2>3. \/ t = s
          \/ /\ s.foreground.id # s.generation
             /\ s.state = "loading" \/ s.foreground.cue # s.activeCue
          \/ /\ t.foreground.paused = t.paused
             /\ t.foreground.transportRevision = t.transportRevision
      BY DEF SetPaused, Changed, ApplyScene
    <2> HIDE DEF t
    <2>4. LoadsAgree(t, w) BY <2>1, <2>2, <2>3
    <2> QED BY <2>4 DEF t
  <1>7. CanSeek(s) => LoadsAgree(SetPosition(s), w)
    <2> DEFINE t == SetPosition(s)
    <2>1. /\ t.state = s.state /\ t.generation = s.generation /\ t.loads = s.loads
          /\ t.activeCue = s.activeCue /\ t.paused = s.paused /\ t.closed = s.closed
          /\ t.transportRevision = s.transportRevision + 1 /\ t.seekPending
      BY DEF SetPosition, Changed, ApplyScene
    <2>2. /\ t.foreground.id = s.foreground.id /\ t.foreground.cue = s.foreground.cue
          /\ t.foreground.paused = s.foreground.paused /\ t.foreground.seekPending
          /\ t.foreground.transportRevision = s.transportRevision + 1
      BY ZenonT(40) DEF SetPosition, Changed, ApplyScene
    <2> HIDE DEF t
    <2>3. CanSeek(s) => LoadsAgree(t, w) BY <2>1, <2>2 DEF CanSeek
    <2> QED BY <2>3 DEF t
  <1>8. ASSUME NEW cue \in CueRef, ~s.closed PROVE LoadsAgree(SelectForeground(s, cue), w)
    BY <1>8 DEF SelectForeground, SendLoad, Changed, ClearImage, Invalidate, NoJob
  <1> QED BY <1>1, <1>2, <1>3, <1>4, <1>5, <1>6, <1>7, <1>8

\* The load worker takes a job, drops one nobody wants, or commits one.
LEMMA LoadsWorked ==
  ASSUME NEW s \in Service, NEW w \in Job, LoadsAgree(s, w), s.generation # 0,
         s.foreground.id = 0 => s.foreground.cue = NoCue
  PROVE  /\ w = NoJob /\ s.loads # NoJob =>
              LoadsAgree([s EXCEPT !.loads = NoJob], s.loads)
         /\ w.tag # s.generation \/ s.state # "loading" => LoadsAgree(s, NoJob)
         /\ w.tag = s.generation /\ s.state = "loading" =>
              /\ LoadsAgree(CommitAsImage(s, w), NoJob)
              /\ \A kind \in Kinds : LoadsAgree(CommitForeground(s, w, kind), NoJob)
  <1> USE DEF LoadsAgree, Service, Job, Source, Resting
  <1>0. NoJob.tag = 0 /\ NoJob \in Job BY NoJobType DEF NoJob
  <1>1. w = NoJob /\ s.loads # NoJob => LoadsAgree([s EXCEPT !.loads = NoJob], s.loads)
    BY <1>0
  <1>2. w.tag # s.generation \/ s.state # "loading" => LoadsAgree(s, NoJob)
    BY <1>0
  <1>3. ASSUME w.tag = s.generation, s.state = "loading"
        PROVE  LoadsAgree(CommitAsImage(s, w), NoJob)
    <2> DEFINE t == CommitAsImage(s, w)
    <2>1. /\ t.generation = s.generation /\ t.loads = s.loads /\ t.closed = s.closed
          /\ t.transportRevision = s.transportRevision
          /\ t.activeCue = s.foreground.cue /\ t.paused = s.foreground.paused
          /\ t.seekPending = s.foreground.seekPending
      BY DEF CommitAsImage, Arm, Changed, ApplyScene
    <2>2. t.state = IF s.foreground.id = 0 THEN "stopped"
                    ELSE IF s.foreground.paused THEN "paused" ELSE "playing"
      BY DEF CommitAsImage, Arm, Changed, ApplyScene
    <2>3. /\ t.foreground.id = s.foreground.id /\ t.foreground.cue = s.foreground.cue
          /\ t.foreground.paused = s.foreground.paused
          /\ t.foreground.seekPending = s.foreground.seekPending
          /\ t.foreground.transportRevision = s.transportRevision
      BY DEF CommitAsImage, Arm, Changed, ApplyScene
    <2> HIDE DEF t
    <2>4. LoadsAgree(t, NoJob) BY <1>0, <1>3, <2>1, <2>2, <2>3
    <2> QED BY <2>4 DEF t
  <1>4. ASSUME w.tag = s.generation, s.state = "loading", NEW kind \in Kinds
        PROVE  LoadsAgree(CommitForeground(s, w, kind), NoJob)
    BY <1>0, <1>4 DEF CommitForeground, Arm, Changed, ApplyScene
  <1> QED BY <1>1, <1>2, <1>3, <1>4

\* ... and through what the renderer's events do.
LEMMA LoadsFollow ==
  ASSUME NEW s \in Service, NEW w \in Job, LoadsAgree(s, w), s.generation # 0,
         Resting(s) => s.foreground.id = 0 /\ s.activeCue = NoCue
  PROVE  /\ s.state # "loading" \/ s.foreground.id = s.generation =>
              LoadsAgree(Ended(s), w)
         /\ \A phase \in {"stopped", "stopping", "error"} :
              Resting(s) => LoadsAgree(Rested(s, phase), w)
         /\ \A e \in Event :
              /\ e.kind \in {"playing", "paused"} /\ Fresh(s, e) /\ Truthful(s, e)
              /\ s.state \in {"loading", "playing", "paused"}
              /\ (e.kind = "paused") = s.paused
              => LoadsAgree(Acked(s, e.kind), w)
  <1> USE DEF LoadsAgree, Service, Job, Source, Resting
  <1>1. s.state # "loading" \/ s.foreground.id = s.generation => LoadsAgree(Ended(s), w)
    BY DEF Ended, Changed, ApplyScene, ClearActive, NoSource
  <1>2. ASSUME NEW phase \in {"stopped", "stopping", "error"}, Resting(s)
        PROVE  LoadsAgree(Rested(s, phase), w)
    BY <1>2 DEF Rested
  <1>3. ASSUME NEW e \in Event, e.kind \in {"playing", "paused"}, Fresh(s, e),
               Truthful(s, e), s.state \in {"loading", "playing", "paused"},
               (e.kind = "paused") = s.paused
        PROVE  LoadsAgree(Acked(s, e.kind), w)
    <2>1. /\ e.transportRevision = s.transportRevision
          /\ e.generation = Expected(s)
      BY <1>3 DEF Fresh
    <2>2. s.foreground.paused = s.paused BY <1>3 DEF Truthful
    <2>3. s.foreground.id # 0 /\ s.activeCue = s.foreground.cue
      BY <1>3, <2>1 DEF Truthful, Expected
    <2>4. s.foreground.transportRevision = s.transportRevision
      BY <1>3, <2>1 DEF Truthful, Expected
    <2> DEFINE t == Acked(s, e.kind)
    <2>5. /\ t.state = e.kind /\ t.seekPending = FALSE /\ t.generation = s.generation
          /\ t.loads = s.loads /\ t.activeCue = s.activeCue /\ t.paused = s.paused
          /\ t.closed = s.closed /\ t.transportRevision = s.transportRevision
          /\ t.foreground.id = s.foreground.id /\ t.foreground.cue = s.foreground.cue
          /\ t.foreground.paused = s.foreground.paused
          /\ t.foreground.seekPending = FALSE
          /\ t.foreground.transportRevision = s.foreground.transportRevision
      BY DEF Acked, Changed
    <2>6. s.foreground.id = s.generation \/ s.state # "loading"
      BY <1>3, <2>1 DEF Truthful, Expected
    <2>7. s.loads = NoJob BY <2>6
    <2> HIDE DEF t
    <2>8. LoadsAgree(t, w) BY <1>3, <2>2, <2>3, <2>4, <2>5, <2>7
    <2> QED BY <2>8 DEF t
  <1> QED BY <1>1, <1>2, <1>3

\* The image part, through every helper that writes what it reads.
LEMMA ImagesKept ==
  ASSUME NEW s \in Service, NEW w \in Job, ImagesAgree(s, w), ImagesCounted(s, w)
  PROVE  /\ \A hard \in BOOLEAN : ImagesAgree(StopForeground(s, TRUE, hard), w)
         /\ ImagesAgree(Fail(s), w) /\ ImagesAgree(StopImage(s), w)
         /\ ImagesAgree(Emptied(s), w)
         /\ \A cue : ImagesAgree(SelectForeground(s, cue), w)
         /\ \A cue \in Cues : ~s.closed => ImagesAgree(SelectImage(s, cue), w)
         /\ s.pendingImage = NoCue => ImagesAgree([s EXCEPT !.closed = TRUE], w)
  <1> USE DEF ImagesAgree, ImagesCounted, Service, Job
  <1>1. ASSUME NEW hard \in BOOLEAN PROVE ImagesAgree(StopForeground(s, TRUE, hard), w)
    BY DEF StopForeground, Changed, ApplyScene, ClearImage, ClearActive, Invalidate
  <1>2. ImagesAgree(Fail(s), w)
    BY DEF Fail, Changed, ApplyScene, ClearImage, ClearActive, Invalidate, Disarm
  <1>3. ImagesAgree(StopImage(s), w)
    BY DEF StopImage, StopForeground, Changed, ApplyScene, ClearImage, ClearActive,
           Invalidate
  <1>4. ImagesAgree(Emptied(s), w) BY DEF Emptied, ClearImage, ClearActive, Invalidate
  <1>5. ASSUME NEW cue PROVE ImagesAgree(SelectForeground(s, cue), w)
    BY DEF SelectForeground, SendLoad, Changed, ClearImage, Invalidate
  <1>6. ASSUME NEW cue \in Cues, ~s.closed PROVE ImagesAgree(SelectImage(s, cue), w)
    BY <1>6, CueAssumption DEF SelectImage, ClearImage, NoJob
  <1>7. s.pendingImage = NoCue => ImagesAgree([s EXCEPT !.closed = TRUE], w)
    OBVIOUS
  <1> QED BY <1>1, <1>2, <1>3, <1>4, <1>5, <1>6, <1>7

\* The image worker takes a job, drops one nobody wants, commits one or fails.
LEMMA ImagesWorked ==
  ASSUME NEW s \in Service, NEW w \in Job, ImagesAgree(s, w), ImagesCounted(s, w)
  PROVE  /\ w = NoJob /\ s.visualLoads # NoJob =>
              ImagesAgree([s EXCEPT !.visualLoads = NoJob], s.visualLoads)
         /\ w.tag # s.visualSequence \/ s.closed => ImagesAgree(s, NoJob)
         /\ w # NoJob /\ w.tag = s.visualSequence =>
              /\ ImagesAgree(CommitVisual(s, w), NoJob)
              /\ ImagesAgree(Changed(ApplyScene([s EXCEPT !.pendingImage = NoCue], FALSE)),
                             NoJob)
  <1> USE DEF ImagesAgree, ImagesCounted, Service, Job
  <1>1. w = NoJob /\ s.visualLoads # NoJob =>
          ImagesAgree([s EXCEPT !.visualLoads = NoJob], s.visualLoads)
    OBVIOUS
  <1>2. w.tag # s.visualSequence \/ s.closed => ImagesAgree(s, NoJob)
    BY DEF NoJob
  <1>3. w # NoJob /\ w.tag = s.visualSequence =>
          /\ ImagesAgree(CommitVisual(s, w), NoJob)
          /\ ImagesAgree(Changed(ApplyScene([s EXCEPT !.pendingImage = NoCue], FALSE)), NoJob)
    BY DEF CommitVisual, Arm, Changed, ApplyScene
  <1> QED BY <1>1, <1>2, <1>3

\* The background part: a new selection, and what the background worker does.
LEMMA BackgroundsKept ==
  ASSUME NEW s \in Service, NEW w \in Job, BackgroundsAgree(s, w)
  PROVE  /\ \A cues, id : BackgroundsAgree(SelectBackground(s, cues, id), w)
         /\ w = NoJob /\ s.backgroundLoads # NoJob =>
              BackgroundsAgree([s EXCEPT !.backgroundLoads = NoJob], s.backgroundLoads)
         /\ BackgroundsAgree(s, NoJob)
  <1> USE DEF BackgroundsAgree, BackgroundPending, Service, Job
  <1>1. ASSUME NEW cues, NEW id PROVE BackgroundsAgree(SelectBackground(s, cues, id), w)
    BY DEF SelectBackground, ApplyScene, NoJob
  <1>2. w = NoJob /\ s.backgroundLoads # NoJob =>
          BackgroundsAgree([s EXCEPT !.backgroundLoads = NoJob], s.backgroundLoads)
    OBVIOUS
  <1>3. BackgroundsAgree(s, NoJob) BY DEF NoJob
  <1> QED BY <1>1, <1>2, <1>3

\* The stage part: every stop and every withdrawal of the stage leaves requests
\* behind it that can no longer show it.
LEMMA OffKept ==
  ASSUME NEW s \in Service, NEW l \in Job, NEW i \in Job, NEW calls \in StageCalls,
         OffHonoured(s, l, i, calls)
  PROVE  /\ OffHonoured(Input(s), l, i, calls) /\ Input(s).offAt < Input(s).now
         /\ \A image, hard \in BOOLEAN :
              OffHonoured(StopForeground(s, image, hard), l, i, calls)
         /\ OffHonoured(Disarm(s), l, i, calls) /\ OffHonoured(Fail(s), l, i, calls)
         /\ OffHonoured(StopImage(s), l, i, calls)
         /\ OffHonoured(Emptied(s), l, i, calls)
         /\ OffHonoured(Invalidate(s), l, i, calls)
         /\ \A cue \in CueRef : s.offAt < s.now =>
              /\ OffHonoured(SelectForeground(s, cue), l, i, calls)
              /\ OffHonoured(SelectImage(s, cue), l, i, calls)
  <1> USE DEF OffHonoured, Honours, Service, Job, StageCalls
  <1>1. OffHonoured(Input(s), l, i, calls) /\ Input(s).offAt < Input(s).now
    BY DEF Input
  <1>2. ASSUME NEW image \in BOOLEAN, NEW hard \in BOOLEAN
        PROVE  OffHonoured(StopForeground(s, image, hard), l, i, calls)
    BY DEF StopForeground, Changed, ApplyScene, ClearImage, ClearActive, Invalidate
  <1>3. OffHonoured(Disarm(s), l, i, calls) BY DEF Disarm
  <1>4. OffHonoured(Fail(s), l, i, calls)
    BY DEF Fail, Changed, ApplyScene, ClearImage, ClearActive, Invalidate, Disarm
  <1>5. OffHonoured(StopImage(s), l, i, calls)
    BY DEF StopImage, StopForeground, Changed, ApplyScene, ClearImage, ClearActive,
           Invalidate
  <1>6. OffHonoured(Emptied(s), l, i, calls)
    BY DEF Emptied, ClearImage, ClearActive, Invalidate
  <1>7. OffHonoured(Invalidate(s), l, i, calls) BY DEF Invalidate
  <1>8. ASSUME NEW cue \in CueRef, s.offAt < s.now
        PROVE  OffHonoured(SelectForeground(s, cue), l, i, calls)
    BY <1>8 DEF SelectForeground, SendLoad, Changed, ClearImage, Invalidate
  <1>9. ASSUME NEW cue \in CueRef, s.offAt < s.now
        PROVE  OffHonoured(SelectImage(s, cue), l, i, calls)
    BY <1>9 DEF SelectImage, ClearImage
  <1> QED BY <1>1, <1>2, <1>3, <1>4, <1>5, <1>6, <1>7, <1>8, <1>9

\* A finished preparation or Stage call shows the stage only under a serial that
\* nothing has given up since.
LEMMA OffWorked ==
  ASSUME NEW s \in Service, NEW l \in Job, NEW i \in Job, NEW calls \in StageCalls,
         OffHonoured(s, l, i, calls)
  PROVE  /\ OffHonoured(s, NoJob, i, calls) /\ OffHonoured(s, l, NoJob, calls)
         /\ OffHonoured([s EXCEPT !.loads = NoJob], s.loads, i, calls)
         /\ OffHonoured([s EXCEPT !.visualLoads = NoJob], l, s.visualLoads, calls)
         /\ l # NoJob =>
              /\ OffHonoured(CommitAsImage(s, l), NoJob, i, calls)
              /\ \A kind \in Kinds : OffHonoured(CommitForeground(s, l, kind), NoJob, i, calls)
         /\ i # NoJob => OffHonoured(CommitVisual(s, i), l, NoJob, calls)
         /\ s.offAt < s.now =>
              OffHonoured([s EXCEPT !.stageSerial = @ + 1], l, i,
                          calls \cup {[serial |-> s.stageSerial + 1, at |-> s.now]})
         /\ \A call \in calls :
              /\ OffHonoured(s, l, i, calls \ {call})
              /\ call.serial = s.stageSerial =>
                   OffHonoured([s EXCEPT !.stageDesired = TRUE, !.armedAt = call.at],
                               l, i, calls \ {call})
  <1> USE DEF OffHonoured, Honours, Service, Job, StageCalls
  <1>1. OffHonoured(s, NoJob, i, calls) /\ OffHonoured(s, l, NoJob, calls)
    OBVIOUS
  <1>2. OffHonoured([s EXCEPT !.loads = NoJob], s.loads, i, calls) OBVIOUS
  <1>3. OffHonoured([s EXCEPT !.visualLoads = NoJob], l, s.visualLoads, calls)
    OBVIOUS
  <1>4. l # NoJob => OffHonoured(CommitAsImage(s, l), NoJob, i, calls)
    BY DEF CommitAsImage, Arm, Changed, ApplyScene
  <1>5. ASSUME l # NoJob, NEW kind \in Kinds
        PROVE  OffHonoured(CommitForeground(s, l, kind), NoJob, i, calls)
    BY <1>5 DEF CommitForeground, Arm, Changed, ApplyScene
  <1>6. i # NoJob => OffHonoured(CommitVisual(s, i), l, NoJob, calls)
    BY DEF CommitVisual, Arm, Changed, ApplyScene
  <1>7. s.offAt < s.now =>
          OffHonoured([s EXCEPT !.stageSerial = @ + 1], l, i,
                      calls \cup {[serial |-> s.stageSerial + 1, at |-> s.now]})
    OBVIOUS
  <1>8. ASSUME NEW call \in calls
        PROVE  /\ OffHonoured(s, l, i, calls \ {call})
               /\ call.serial = s.stageSerial =>
                    OffHonoured([s EXCEPT !.stageDesired = TRUE, !.armedAt = call.at],
                                l, i, calls \ {call})
    OBVIOUS
  <1> QED BY <1>1, <1>2, <1>3, <1>4, <1>5, <1>6, <1>7, <1>8

\* The show part, through every helper that writes a selection.
LEMMA SelectionsKept ==
  ASSUME NEW s \in Service, NEW show \in Config, NEW op \in Edit,
         SelectionsAgree(s, show, op)
  PROVE  /\ \A image, hard \in BOOLEAN :
              SelectionsAgree(StopForeground(s, image, hard), show, op)
         /\ SelectionsAgree(Fail(s), show, op) /\ SelectionsAgree(StopImage(s), show, op)
         /\ \A cue \in show.cues \ s.removing :
              /\ SelectionsAgree(SelectForeground(s, cue), show, op)
              /\ SelectionsAgree(SelectImage(s, cue), show, op)
         /\ \A id : SelectionsAgree(SelectBackground(s, show.cues, id), show, op)
         /\ \A cue \in show.cues \cup {NoCue} :
              SelectionsAgree([s EXCEPT !.backgroundOverride = cue], show, op)
         /\ SelectionsAgree(Ended(s), show, op)
         /\ \A phase \in Phases \ {"loading"} :
              /\ SelectionsAgree(Rested(s, phase), show, op)
              /\ SelectionsAgree(Acked(s, phase), show, op)
         /\ SelectionsAgree([s EXCEPT !.closed = TRUE], show, op)
  <1> USE CueAssumption DEF SelectionsAgree, Service, Config
  <1>1. ASSUME NEW image \in BOOLEAN, NEW hard \in BOOLEAN
        PROVE  SelectionsAgree(StopForeground(s, image, hard), show, op)
    BY DEF StopForeground, Changed, ApplyScene, ClearImage, ClearActive, Invalidate
  <1>2. SelectionsAgree(Fail(s), show, op)
    BY DEF Fail, Changed, ApplyScene, ClearImage, ClearActive, Invalidate, Disarm
  <1>3. SelectionsAgree(StopImage(s), show, op)
    BY SMTT(30) DEF StopImage, StopForeground, Changed, ApplyScene, ClearImage, ClearActive,
           Invalidate
  <1>4. ASSUME NEW cue \in show.cues \ s.removing
        PROVE  SelectionsAgree(SelectForeground(s, cue), show, op)
    BY DEF SelectForeground, SendLoad, Changed, ClearImage, Invalidate
  <1>5. ASSUME NEW cue \in show.cues \ s.removing
        PROVE  SelectionsAgree(SelectImage(s, cue), show, op)
    BY DEF SelectImage, ClearImage
  <1>6. ASSUME NEW id PROVE SelectionsAgree(SelectBackground(s, show.cues, id), show, op)
    BY DEF SelectBackground, ApplyScene
  <1>7. ASSUME NEW cue \in show.cues \cup {NoCue}
        PROVE  SelectionsAgree([s EXCEPT !.backgroundOverride = cue], show, op)
    OBVIOUS
  <1>8. SelectionsAgree(Ended(s), show, op)
    BY DEF Ended, Changed, ApplyScene, ClearActive
  <1>9. ASSUME NEW phase \in Phases \ {"loading"}
        PROVE  /\ SelectionsAgree(Rested(s, phase), show, op)
               /\ SelectionsAgree(Acked(s, phase), show, op)
    BY DEF Rested, Acked, Changed
  <1>10. SelectionsAgree([s EXCEPT !.closed = TRUE], show, op)
    OBVIOUS
  <1> QED BY <1>1, <1>2, <1>3, <1>4, <1>5, <1>6, <1>7, <1>8, <1>9, <1>10

\* A committed preparation shows a cue that was selected, so it still exists.
LEMMA SelectionsWorked ==
  ASSUME NEW s \in Service, NEW show \in Config, NEW op \in Edit, NEW w \in Job,
         SelectionsAgree(s, show, op)
  PROVE  /\ s.state = "loading" /\ w.cue = s.activeCue =>
              SelectionsAgree(CommitAsImage(s, w), show, op)
         /\ w.cue = s.pendingImage => SelectionsAgree(CommitVisual(s, w), show, op)
         /\ SelectionsAgree([s EXCEPT !.pendingImage = NoCue], show, op)
         /\ \A finished \in Edit : ~finished.saving => SelectionsAgree(s, show, finished)
         /\ \A known \in Config :
              /\ known.cues = show.cues /\ known.defaultBackground = show.defaultBackground
              => SelectionsAgree(s, known, op)
  <1> USE CueAssumption DEF SelectionsAgree, Service, Config
  <1>1. s.state = "loading" /\ w.cue = s.activeCue =>
          SelectionsAgree(CommitAsImage(s, w), show, op)
    BY DEF CommitAsImage, Arm, Changed, ApplyScene
  <1>2. w.cue = s.pendingImage => SelectionsAgree(CommitVisual(s, w), show, op)
    BY DEF CommitVisual, Arm, Changed, ApplyScene
  <1>3. SelectionsAgree([s EXCEPT !.pendingImage = NoCue], show, op) OBVIOUS
  <1>4. ASSUME NEW finished \in Edit, ~finished.saving
        PROVE  SelectionsAgree(s, show, finished)
    BY <1>4
  <1>5. ASSUME NEW known \in Config, known.cues = show.cues,
               known.defaultBackground = show.defaultBackground
        PROVE  SelectionsAgree(s, known, op)
    BY <1>5
  <1> QED BY <1>1, <1>2, <1>3, <1>4, <1>5

\* A scene that was applied agrees with the service, whatever changed before.
LEMMA SceneApplied ==
  ASSUME NEW s \in Service, NEW x, DOMAIN x = DOMAIN s, NEW hard \in BOOLEAN, NEW w
  PROVE  /\ SceneAgrees(ApplyScene(x, hard), w)
         /\ SceneAgrees(Changed(ApplyScene(x, hard)), w)
  BY DEF SceneAgrees, Shown, DesiredScene, ApplyScene, Changed, Service

\* The scene part: every helper that changes what is on stage asks the renderer
\* for it, or leaves a preparation pending that will.
LEMMA SceneAsked ==
  ASSUME NEW s \in Service, NEW w \in Job
  PROVE  /\ \A hard \in BOOLEAN : /\ SceneAgrees(ApplyScene(s, hard), w)
                                  /\ SceneAgrees(Changed(ApplyScene(s, hard)), w)
         /\ \A image, hard \in BOOLEAN : SceneAgrees(StopForeground(s, image, hard), w)
         /\ SceneAgrees(Fail(s), w) /\ SceneAgrees(StopImage(s), w)
         /\ SceneAgrees(SetPosition(s), w) /\ SceneAgrees(Ended(s), w)
         /\ \A cue \in Cues : SceneAgrees(SelectImage(s, cue), w)
         /\ \A cue : s.foreground.id <= s.generation =>
              SceneAgrees(SelectForeground(s, cue), w)
         /\ \A job \in Job : /\ SceneAgrees(CommitAsImage(s, job), w)
                            /\ SceneAgrees(CommitVisual(s, job), w)
         /\ \A job \in Job, kind \in Kinds : SceneAgrees(CommitForeground(s, job, kind), w)
         /\ \A cues : \A id \in cues \cup {NoCue} :
              SceneAgrees(SelectBackground(s, cues, id), w)
  <1>1. ASSUME NEW hard \in BOOLEAN
        PROVE  /\ SceneAgrees(ApplyScene(s, hard), w)
               /\ SceneAgrees(Changed(ApplyScene(s, hard)), w)
    BY SceneApplied
  <1>2. ASSUME NEW x \in Service, NEW image \in BOOLEAN, NEW hard \in BOOLEAN
        PROVE  SceneAgrees(StopForeground(x, image, hard), w)
    BY SMTT(30) DEF StopForeground, ClearImage, ClearActive, Invalidate, NoSource, SceneAgrees,
           Shown, DesiredScene, ApplyScene, Changed, Service
  <1>3. SceneAgrees(Fail(s), w)
    <2> DEFINE halted == [ClearActive(Invalidate(s)) EXCEPT
                            !.stopEpoch = @ + 1, !.foreground = NoSource]
               dark == [Disarm(ClearImage(halted)) EXCEPT
                          !.stageEnablePending = FALSE, !.stageEnabled = FALSE,
                          !.state = "error"]
    <2>1. DOMAIN dark = DOMAIN s BY DEF Disarm, ClearImage, ClearActive, Invalidate
    <2>2. Fail(s) = Changed(ApplyScene(dark, TRUE)) BY Zenon DEF Fail
    <2> HIDE DEF dark
    <2> QED BY <2>1, <2>2, SceneApplied
  <1>4. SceneAgrees(StopImage(s), w)
    <2>1. CASE s.foreground.kind = "video"
      <3>1. StopImage(s) = StopForeground(ClearImage(s), FALSE, FALSE)
        BY <2>1, Zenon DEF StopImage
      <3> QED BY <3>1, <1>2, ClearImageType
    <2>2. CASE s.foreground.kind # "video"
      <3>1. StopImage(s) =
            Changed(ApplyScene([ClearImage(s) EXCEPT !.stopEpoch = @ + 1], FALSE))
        BY <2>2, Zenon DEF StopImage
      <3>2. DOMAIN [ClearImage(s) EXCEPT !.stopEpoch = @ + 1] = DOMAIN s BY DEF ClearImage
      <3> QED BY <3>1, <3>2, SceneApplied
    <2> QED BY <2>1, <2>2
  <1> USE DEF SceneAgrees, Shown, DesiredScene, ApplyScene, Changed, Service, Source
  <1>5. SceneAgrees(SetPosition(s), w) BY DEF SetPosition
  <1>6. SceneAgrees(Ended(s), w) BY DEF Ended, ClearActive, NoSource
  <1>7. ASSUME NEW cue \in Cues PROVE SceneAgrees(SelectImage(s, cue), w)
    BY CueAssumption DEF SelectImage, ClearImage
  <1>8. ASSUME NEW cue, s.foreground.id <= s.generation
        PROVE  SceneAgrees(SelectForeground(s, cue), w)
    BY <1>8 DEF SelectForeground, SendLoad, ClearImage, Invalidate
  <1>9. ASSUME NEW job \in Job
        PROVE  SceneAgrees(CommitAsImage(s, job), w) /\ SceneAgrees(CommitVisual(s, job), w)
    <2>1. SceneAgrees(CommitAsImage(s, job), w)
      <3> HIDE DEF SceneAgrees, Shown, DesiredScene, ApplyScene, Changed, Service, Source
      <3>1. PICK r : /\ CommitAsImage(s, job) = Changed(ApplyScene(Arm(r, job), FALSE))
                     /\ DOMAIN r = DOMAIN s
        <4> DEFINE r == [s EXCEPT
                !.activeCue = s.foreground.cue,
                !.state = IF s.foreground.id = 0 THEN "stopped"
                          ELSE IF s.foreground.paused THEN "paused" ELSE "playing",
                !.paused = s.foreground.paused,
                !.seekPending = s.foreground.seekPending,
                !.foreground.transportRevision = s.transportRevision,
                !.image = job.cue, !.imageCue = job.cue]
        <4>1. CommitAsImage(s, job) = Changed(ApplyScene(Arm(r, job), FALSE))
          BY Zenon DEF CommitAsImage
        <4>2. DOMAIN r = DOMAIN s BY Zenon
        <4> HIDE DEF r
        <4> QED BY <4>1, <4>2
      <3>2. DOMAIN Arm(r, job) = DOMAIN s BY <3>1, Zenon DEF Arm
      <3> QED BY <3>1, <3>2, SceneApplied
    <2>2. SceneAgrees(CommitVisual(s, job), w) BY DEF CommitVisual, Arm
    <2> QED BY <2>1, <2>2
  <1>10. ASSUME NEW job \in Job, NEW kind \in Kinds
         PROVE  SceneAgrees(CommitForeground(s, job, kind), w)
    BY DEF CommitForeground, Arm
  <1>11. ASSUME NEW cues, NEW id \in cues \cup {NoCue}
         PROVE  SceneAgrees(SelectBackground(s, cues, id), w)
    <2>1. CASE id = NoCue BY <2>1 DEF SelectBackground
    <2>2. CASE id # NoCue
      BY <2>2 DEF SelectBackground, BackgroundPending, NoJob
    <2> QED BY <2>1, <2>2
  <1> QED BY <1>1, <1>2, <1>3, <1>4, <1>5, <1>6, <1>7, <1>8, <1>9, <1>10, <1>11

\* What asks for no new scene changes nothing that is on stage.
LEMMA SceneKept ==
  ASSUME NEW s \in Service, NEW w \in Job, SceneAgrees(s, w)
  PROVE  /\ \A paused \in BOOLEAN : SceneAgrees(SetPaused(s, paused), w)
         /\ Resting(s) => SceneAgrees(Invalidate(s), w)
         /\ \A kind : s.state # "loading" \/ s.foreground.id = s.generation =>
              SceneAgrees(Acked(s, kind), w)
         /\ \A phase : s.state # "loading" => SceneAgrees(Rested(s, phase), w)
         /\ w = NoJob =>
              SceneAgrees([s EXCEPT !.backgroundLoads = NoJob], s.backgroundLoads)
                \/ s.backgroundLoads.tag # s.backgroundSequence
         /\ w.tag # s.backgroundSequence => SceneAgrees(s, NoJob)
         /\ SceneAgrees([s EXCEPT !.closed = TRUE], w)
         /\ s.closed => SceneAgrees(s, NoJob)
  <1>1. ASSUME NEW paused \in BOOLEAN PROVE SceneAgrees(SetPaused(s, paused), w)
    <2>1. CASE s.paused = paused BY <2>1 DEF SetPaused
    <2>2. CASE /\ s.paused # paused
               /\ \/ s.foreground.id = s.generation
                  \/ s.state # "loading" /\ s.foreground.cue = s.activeCue
      <3> DEFINE asked == [s EXCEPT !.paused = paused, !.transportRevision = @ + 1]
                 x == [asked EXCEPT !.foreground.paused = paused,
                                    !.foreground.transportRevision = asked.transportRevision]
      <3>1. SetPaused(s, paused) = Changed(ApplyScene(x, FALSE))
        BY <2>2, Zenon DEF SetPaused
      <3>2. DOMAIN x = DOMAIN s OBVIOUS
      <3> HIDE DEF x
      <3> QED BY <3>1, <3>2, SceneApplied
    <2>3. CASE /\ s.paused # paused
               /\ ~(\/ s.foreground.id = s.generation
                    \/ s.state # "loading" /\ s.foreground.cue = s.activeCue)
      BY <2>3 DEF SetPaused, Changed, SceneAgrees, Shown, BackgroundPending, Service
    <2> QED BY <2>1, <2>2, <2>3
  <1> USE DEF SceneAgrees, Shown, BackgroundPending, Service, Source, Job
  <1>2. Resting(s) => SceneAgrees(Invalidate(s), w) BY DEF Resting, Invalidate
  <1>3. ASSUME NEW kind, s.state # "loading" \/ s.foreground.id = s.generation
        PROVE  SceneAgrees(Acked(s, kind), w)
    BY <1>3 DEF Acked, Changed
  <1>4. ASSUME NEW phase, s.state # "loading" PROVE SceneAgrees(Rested(s, phase), w)
    BY <1>4 DEF Rested
  <1>5. w = NoJob =>
          \/ SceneAgrees([s EXCEPT !.backgroundLoads = NoJob], s.backgroundLoads)
          \/ s.backgroundLoads.tag # s.backgroundSequence
    OBVIOUS
  <1>6. w.tag # s.backgroundSequence => SceneAgrees(s, NoJob) BY DEF NoJob
  <1>7. SceneAgrees([s EXCEPT !.closed = TRUE], w) OBVIOUS
  <1>8. s.closed => SceneAgrees(s, NoJob) OBVIOUS
  <1> QED BY <1>1, <1>2, <1>3, <1>4, <1>5, <1>6, <1>7, <1>8

\* What no helper in this list writes is what the other parts read.
LEMMA HelpersLeave ==
  ASSUME NEW s \in Service
  PROVE  /\ \A hard \in BOOLEAN : Same(s, ApplyScene(s, hard),
              LoadFields \cup ImageFields \cup BackgroundFields \cup StageFields
                \cup SelectionFields)
         /\ Same(s, Disarm(s), LoadFields \cup ImageFields \cup BackgroundFields
                                \cup SelectionFields \cup SceneFields)
         /\ Same(s, Invalidate(s), ImageFields \cup BackgroundFields \cup SelectionFields)
         /\ \A image, hard \in BOOLEAN :
              Same(s, StopForeground(s, image, hard), BackgroundFields \cup {"closed"})
         /\ Same(s, Fail(s), BackgroundFields) /\ Same(s, StopImage(s), BackgroundFields)
         /\ \A paused \in BOOLEAN :
              Same(s, SetPaused(s, paused),
                   ImageFields \cup BackgroundFields \cup StageFields \cup SelectionFields)
         /\ Same(s, SetPosition(s),
                 ImageFields \cup BackgroundFields \cup StageFields \cup SelectionFields)
         /\ \A cue : Same(s, SelectForeground(s, cue), BackgroundFields)
         /\ \A cue : Same(s, SelectImage(s, cue), LoadFields \cup BackgroundFields)
         /\ \A cues, id :
              Same(s, SelectBackground(s, cues, id), LoadFields \cup ImageFields \cup StageFields)
         /\ Same(s, Ended(s), ImageFields \cup BackgroundFields \cup StageFields)
         /\ \A kind : /\ Same(s, Rested(s, kind),
                               ImageFields \cup BackgroundFields \cup StageFields)
                      /\ Same(s, Acked(s, kind),
                               ImageFields \cup BackgroundFields \cup StageFields)
         /\ \A job : Same(s, CommitAsImage(s, job), ImageFields \cup BackgroundFields)
         /\ \A job, kind : Same(s, CommitForeground(s, job, kind),
                                ImageFields \cup BackgroundFields \cup SelectionFields)
         /\ \A job : Same(s, CommitVisual(s, job), LoadFields \cup BackgroundFields)
  <1> USE DEF Service
  <1>1. ASSUME NEW hard \in BOOLEAN
        PROVE  Same(s, ApplyScene(s, hard),
                    LoadFields \cup ImageFields \cup BackgroundFields \cup StageFields
                      \cup SelectionFields)
    BY DEF ApplyScene,
           Same, LoadFields, ImageFields, BackgroundFields, StageFields, SelectionFields
  <1>2. Same(s, Disarm(s), LoadFields \cup ImageFields \cup BackgroundFields
                           \cup SelectionFields \cup SceneFields)
    BY DEF Disarm,
           Same, LoadFields, ImageFields, BackgroundFields, SelectionFields, SceneFields
  <1>3. Same(s, Invalidate(s), ImageFields \cup BackgroundFields \cup SelectionFields)
    BY DEF Invalidate,
           Same, ImageFields, BackgroundFields, SelectionFields
  <1>4. ASSUME NEW image \in BOOLEAN, NEW hard \in BOOLEAN
        PROVE  Same(s, StopForeground(s, image, hard), BackgroundFields \cup {"closed"})
    <2> DEFINE t == StopForeground(s, image, hard)
    <2>1. /\ t.backgroundSequence = s.backgroundSequence
          /\ t.backgroundLoads = s.backgroundLoads
          /\ t.backgroundCue = s.backgroundCue /\ t.closed = s.closed
      BY DEF StopForeground, Changed, ApplyScene, ClearImage, ClearActive, Invalidate
    <2> HIDE DEF t
    <2>2. Same(s, t, BackgroundFields \cup {"closed"})
      BY <2>1 DEF Same, BackgroundFields
    <2> QED BY <2>2 DEF t
  <1>5. Same(s, Fail(s), BackgroundFields)
    <2> DEFINE t == Fail(s)
    <2>1. /\ t.backgroundSequence = s.backgroundSequence
          /\ t.backgroundLoads = s.backgroundLoads
          /\ t.backgroundCue = s.backgroundCue
      BY DEF Fail, Changed, ApplyScene, ClearImage, ClearActive, Invalidate, Disarm
    <2> HIDE DEF t
    <2>2. Same(s, t, BackgroundFields)
      BY <2>1 DEF Same, BackgroundFields
    <2> QED BY <2>2 DEF t
  <1>6. Same(s, StopImage(s), BackgroundFields)
    <2> DEFINE t == StopImage(s)
    <2>1. /\ t.backgroundSequence = s.backgroundSequence
          /\ t.backgroundLoads = s.backgroundLoads
          /\ t.backgroundCue = s.backgroundCue
      BY DEF StopImage, StopForeground, Changed, ApplyScene, ClearImage, ClearActive,
             Invalidate
    <2> HIDE DEF t
    <2>2. Same(s, t, BackgroundFields)
      BY <2>1 DEF Same, BackgroundFields
    <2> QED BY <2>2 DEF t
  <1>7. ASSUME NEW paused \in BOOLEAN
        PROVE  Same(s, SetPaused(s, paused),
                    ImageFields \cup BackgroundFields \cup StageFields \cup SelectionFields)
    BY ZenonT(40) DEF SetPaused, Changed, ApplyScene,
           Same, ImageFields, BackgroundFields, StageFields, SelectionFields
  <1>8. Same(s, SetPosition(s),
             ImageFields \cup BackgroundFields \cup StageFields \cup SelectionFields)
    <2> DEFINE t == SetPosition(s)
    <2>1. /\ t.backgroundSequence = s.backgroundSequence
          /\ t.backgroundLoads = s.backgroundLoads
          /\ t.backgroundCue = s.backgroundCue /\ t.visualSequence = s.visualSequence
          /\ t.visualLoads = s.visualLoads /\ t.pendingImage = s.pendingImage
          /\ t.closed = s.closed /\ t.now = s.now /\ t.offAt = s.offAt
          /\ t.stageDesired = s.stageDesired /\ t.armedAt = s.armedAt
          /\ t.stageSerial = s.stageSerial /\ t.loads = s.loads
          /\ t.imageCue = s.imageCue /\ t.backgroundOverride = s.backgroundOverride
          /\ t.state = s.state /\ t.activeCue = s.activeCue /\ t.removing = s.removing
      BY DEF SetPosition, Changed, ApplyScene
    <2> HIDE DEF t
    <2>2. Same(s, t, ImageFields \cup BackgroundFields \cup StageFields \cup SelectionFields)
      BY <2>1 DEF Same, ImageFields, BackgroundFields, StageFields, SelectionFields
    <2> QED BY <2>2 DEF t
  <1>9. ASSUME NEW cue
        PROVE  /\ Same(s, SelectForeground(s, cue), BackgroundFields)
               /\ Same(s, SelectImage(s, cue), LoadFields \cup BackgroundFields)
    BY DEF SelectForeground, SelectImage, SendLoad, Changed, ClearImage, Invalidate,
           Same, LoadFields, BackgroundFields
  <1>10. ASSUME NEW cues, NEW id
         PROVE  Same(s, SelectBackground(s, cues, id),
                     LoadFields \cup ImageFields \cup StageFields)
    BY ZenonT(40) DEF SelectBackground, ApplyScene,
           Same, LoadFields, ImageFields, StageFields
  <1>11. Same(s, Ended(s), ImageFields \cup BackgroundFields \cup StageFields)
    BY DEF Ended, Changed, ApplyScene, ClearActive,
           Same, ImageFields, BackgroundFields, StageFields
  <1>12. ASSUME NEW kind
         PROVE  /\ Same(s, Rested(s, kind), ImageFields \cup BackgroundFields \cup StageFields)
                /\ Same(s, Acked(s, kind), ImageFields \cup BackgroundFields \cup StageFields)
    BY DEF Rested, Acked, Changed,
           Same, ImageFields, BackgroundFields, StageFields
  <1>13. ASSUME NEW job
         PROVE  /\ Same(s, CommitAsImage(s, job), ImageFields \cup BackgroundFields)
                /\ Same(s, CommitVisual(s, job), LoadFields \cup BackgroundFields)
    BY DEF CommitAsImage, CommitVisual, Arm, Changed, ApplyScene,
           Same, LoadFields, ImageFields, BackgroundFields
  <1>14. ASSUME NEW job, NEW kind
         PROVE  Same(s, CommitForeground(s, job, kind),
                     ImageFields \cup BackgroundFields \cup SelectionFields)
    <2> DEFINE t == CommitForeground(s, job, kind)
    <2>1. /\ t.backgroundSequence = s.backgroundSequence
          /\ t.backgroundLoads = s.backgroundLoads
          /\ t.backgroundCue = s.backgroundCue /\ t.visualSequence = s.visualSequence
          /\ t.visualLoads = s.visualLoads /\ t.pendingImage = s.pendingImage
          /\ t.closed = s.closed /\ t.imageCue = s.imageCue
          /\ t.backgroundOverride = s.backgroundOverride /\ t.state = s.state
          /\ t.activeCue = s.activeCue /\ t.removing = s.removing
      BY DEF CommitForeground, Arm, Changed, ApplyScene
    <2> HIDE DEF t
    <2>2. Same(s, t, ImageFields \cup BackgroundFields \cup SelectionFields)
      BY <2>1 DEF Same, ImageFields, BackgroundFields, SelectionFields
    <2> QED BY <2>2 DEF t
  <1> QED BY <1>1, <1>2, <1>3, <1>4, <1>5, <1>6, <1>7, <1>8, <1>9, <1>10, <1>11, <1>12,
             <1>13, <1>14

\* No helper ever sends to a mailbox that holds a job: each drains it first.
LEMMA NothingBlocks ==
  ASSUME NEW s \in Service, ~s.wedged
  PROVE  /\ \A hard \in BOOLEAN : ~ApplyScene(s, hard).wedged
         /\ ~Disarm(s).wedged /\ ~Invalidate(s).wedged /\ ~Emptied(s).wedged
         /\ \A image, hard \in BOOLEAN : ~StopForeground(s, image, hard).wedged
         /\ ~Fail(s).wedged /\ ~StopImage(s).wedged
         /\ \A paused \in BOOLEAN : ~SetPaused(s, paused).wedged
         /\ ~SetPosition(s).wedged
         /\ \A cue : ~SelectForeground(s, cue).wedged /\ ~SelectImage(s, cue).wedged
         /\ \A cues, id : ~SelectBackground(s, cues, id).wedged
         /\ ~Ended(s).wedged
         /\ \A kind : ~Rested(s, kind).wedged /\ ~Acked(s, kind).wedged
         /\ \A job : ~CommitAsImage(s, job).wedged /\ ~CommitVisual(s, job).wedged
         /\ \A job, kind : ~CommitForeground(s, job, kind).wedged
  <1> USE DEF Service, Changed, ApplyScene
  <1>1. \A hard \in BOOLEAN : ~ApplyScene(s, hard).wedged OBVIOUS
  <1>2. ~Disarm(s).wedged /\ ~Invalidate(s).wedged /\ ~Emptied(s).wedged
    BY DEF Disarm, Invalidate, Emptied, ClearImage, ClearActive
  <1>3. \A image, hard \in BOOLEAN : ~StopForeground(s, image, hard).wedged
    BY DEF StopForeground, ClearImage, ClearActive, Invalidate
  <1>4. ~Fail(s).wedged BY DEF Fail, ClearImage, ClearActive, Invalidate, Disarm
  <1>5. ~StopImage(s).wedged
    BY DEF StopImage, StopForeground, ClearImage, ClearActive, Invalidate
  <1>6. \A paused \in BOOLEAN : ~SetPaused(s, paused).wedged BY DEF SetPaused
  <1>7. ~SetPosition(s).wedged BY DEF SetPosition
  <1>8. \A cue : ~SelectForeground(s, cue).wedged
    BY DEF SelectForeground, SendLoad, ClearImage, Invalidate
  <1>9. \A cue : ~SelectImage(s, cue).wedged BY DEF SelectImage, ClearImage
  <1>10. \A cues, id : ~SelectBackground(s, cues, id).wedged BY DEF SelectBackground
  <1>11. ~Ended(s).wedged BY DEF Ended, ClearActive
  <1>12. \A kind : ~Rested(s, kind).wedged /\ ~Acked(s, kind).wedged
    BY DEF Rested, Acked
  <1>13. \A job : ~CommitAsImage(s, job).wedged /\ ~CommitVisual(s, job).wedged
    BY DEF CommitAsImage, CommitVisual, Arm
  <1>14. \A job, kind : ~CommitForeground(s, job, kind).wedged
    BY DEF CommitForeground, Arm
  <1> QED BY <1>1, <1>2, <1>3, <1>4, <1>5, <1>6, <1>7, <1>8, <1>9, <1>10, <1>11, <1>12,
             <1>13, <1>14

\* Marking a critical section disturbs no part.
LEMMA MarksAgree ==
  ASSUME NEW s \in Service, NEW l \in Job, NEW i \in Job, NEW b \in Job,
         NEW calls \in StageCalls, WorkAgrees(s, l, i, b, calls)
  PROVE  /\ WorkAgrees(Enter(s), l, i, b, calls) /\ WorkAgrees(Changed(s), l, i, b, calls)
         /\ WorkAgrees(Input(s), l, i, b, calls) /\ Input(s).offAt < Input(s).now
  <1> DEFINE Kind(t) == /\ Same(s, t, LoadFields) /\ Same(s, t, ImageFields)
                        /\ Same(s, t, BackgroundFields) /\ Same(s, t, SceneFields)
                        /\ t.wedged = s.wedged
  <1>1. Kind(Enter(s)) /\ Kind(Changed(s)) /\ Kind(Input(s))
    BY DEF Service, Same, Enter, Changed, Input, LoadFields, ImageFields, BackgroundFields,
           SceneFields
  <1>2. Same(s, Enter(s), StageFields) /\ Same(s, Changed(s), StageFields)
    BY DEF Service, Same, Enter, Changed, StageFields
  <1>3. ASSUME NEW t, Kind(t), OffHonoured(t, l, i, calls)
        PROVE  WorkAgrees(t, l, i, b, calls)
    BY <1>3, PartsRead DEF WorkAgrees
  <1> HIDE DEF Kind
  <1>4. /\ OffHonoured(Enter(s), l, i, calls) /\ OffHonoured(Changed(s), l, i, calls)
        /\ OffHonoured(Input(s), l, i, calls) /\ Input(s).offAt < Input(s).now
    BY <1>2, PartsRead, OffKept DEF WorkAgrees
  <1> QED BY <1>1, <1>3, <1>4

\* A part that reads no field that was written is kept.
LEMMA SameSubset ==
  ASSUME NEW s, NEW t, NEW fields, Same(s, t, fields)
  PROVE  \A fewer \in SUBSET fields : Same(s, t, fewer)
  BY DEF Same

\* All parts together, through each helper: commands and stops.
LEMMA WorkKept ==
  ASSUME NEW s \in Service, NEW l \in Job, NEW i \in Job, NEW b \in Job,
         NEW calls \in StageCalls, NEW op, Settled(s, i, op),
         WorkAgrees(s, l, i, b, calls)
  PROVE  /\ \A hard \in BOOLEAN : WorkAgrees(ApplyScene(s, hard), l, i, b, calls)
         /\ WorkAgrees(Disarm(s), l, i, b, calls)
         /\ Resting(s) => WorkAgrees(Invalidate(s), l, i, b, calls)
         /\ \A hard \in BOOLEAN : WorkAgrees(StopForeground(s, TRUE, hard), l, i, b, calls)
         /\ WorkAgrees(Fail(s), l, i, b, calls)
         /\ WorkAgrees(StopImage(s), l, i, b, calls)
         /\ \A paused \in BOOLEAN : WorkAgrees(SetPaused(s, paused), l, i, b, calls)
         /\ CanSeek(s) => WorkAgrees(SetPosition(s), l, i, b, calls)
         /\ \A cue \in Cues : ~s.closed /\ s.offAt < s.now =>
              /\ WorkAgrees(SelectForeground(s, cue), l, i, b, calls)
              /\ WorkAgrees(SelectImage(s, cue), l, i, b, calls)
         /\ \A cues, id : id \in cues \cup {NoCue} \/ s.closed =>
              WorkAgrees(SelectBackground(s, cues, id), l, i, b, calls)
         /\ s.state # "loading" \/ s.foreground.id = s.generation =>
              WorkAgrees(Ended(s), l, i, b, calls)
         /\ \A phase \in {"stopped", "stopping", "error"} :
              Resting(s) => WorkAgrees(Rested(s, phase), l, i, b, calls)
         /\ Resting(s) /\ s.pendingImage = NoCue =>
              WorkAgrees([s EXCEPT !.closed = TRUE], l, i, b, calls)
  <1>1. /\ s.generation # 0 /\ ImagesCounted(s, i)
        /\ Resting(s) => s.foreground.id = 0 /\ s.activeCue = NoCue
    BY DEF Settled
  <1>2. /\ ~s.wedged /\ LoadsAgree(s, l) /\ ImagesAgree(s, i) /\ BackgroundsAgree(s, b)
        /\ OffHonoured(s, l, i, calls) /\ SceneAgrees(s, b)
    BY DEF WorkAgrees
  <1>0. s.foreground.id <= s.generation BY <1>2 DEF LoadsAgree
  <1>3. ASSUME NEW t, ~t.wedged, LoadsAgree(t, l), ImagesAgree(t, i),
               BackgroundsAgree(t, b), OffHonoured(t, l, i, calls), SceneAgrees(t, b)
        PROVE  WorkAgrees(t, l, i, b, calls)
    BY <1>3 DEF WorkAgrees
  <1>4. ASSUME NEW hard \in BOOLEAN
        PROVE  WorkAgrees(ApplyScene(s, hard), l, i, b, calls)
    <2> DEFINE t == ApplyScene(s, hard)
    <2>1. /\ Same(s, t, LoadFields)
          /\ Same(s, t, ImageFields)
          /\ Same(s, t, BackgroundFields)
          /\ Same(s, t, StageFields)
      BY HelpersLeave, SameSubset
    <2>2. ~t.wedged BY <1>2, NothingBlocks
    <2>3. /\ SceneAgrees(t, b)
      BY <1>0, <1>1, <1>2, SceneAsked
    <2> HIDE DEF t
    <2>4. WorkAgrees(t, l, i, b, calls) BY <1>2, <1>3, <2>1, <2>2, <2>3, PartsRead
    <2> QED BY <2>4 DEF t
  <1>5. WorkAgrees(Disarm(s), l, i, b, calls)
    <2> DEFINE t == Disarm(s)
    <2>1. /\ Same(s, t, LoadFields)
          /\ Same(s, t, ImageFields)
          /\ Same(s, t, BackgroundFields)
          /\ Same(s, t, SceneFields)
      BY HelpersLeave, SameSubset
    <2>2. ~t.wedged BY <1>2, NothingBlocks
    <2>3. /\ OffHonoured(t, l, i, calls)
      BY <1>0, <1>1, <1>2, OffKept
    <2> HIDE DEF t
    <2>4. WorkAgrees(t, l, i, b, calls) BY <1>2, <1>3, <2>1, <2>2, <2>3, PartsRead
    <2> QED BY <2>4 DEF t
  <1>6. ASSUME Resting(s)
        PROVE  WorkAgrees(Invalidate(s), l, i, b, calls)
    <2> DEFINE t == Invalidate(s)
    <2>1. /\ Same(s, t, ImageFields)
          /\ Same(s, t, BackgroundFields)
      BY HelpersLeave, SameSubset
    <2>2. ~t.wedged BY <1>2, NothingBlocks
    <2>3. /\ LoadsAgree(t, l)
          /\ OffHonoured(t, l, i, calls)
          /\ SceneAgrees(t, b)
      BY <1>6, <1>0, <1>1, <1>2, LoadsKept, OffKept, SceneKept
    <2> HIDE DEF t
    <2>4. WorkAgrees(t, l, i, b, calls) BY <1>2, <1>3, <2>1, <2>2, <2>3, PartsRead
    <2> QED BY <2>4 DEF t
  <1>7. ASSUME NEW hard \in BOOLEAN
        PROVE  WorkAgrees(StopForeground(s, TRUE, hard), l, i, b, calls)
    <2> DEFINE t == StopForeground(s, TRUE, hard)
    <2>1. /\ Same(s, t, BackgroundFields)
      BY HelpersLeave, SameSubset
    <2>2. ~t.wedged BY <1>2, NothingBlocks
    <2>3. /\ LoadsAgree(t, l)
          /\ ImagesAgree(t, i)
          /\ OffHonoured(t, l, i, calls)
          /\ SceneAgrees(t, b)
      BY <1>0, <1>1, <1>2, LoadsKept, ImagesKept, OffKept, SceneAsked
    <2> HIDE DEF t
    <2>4. WorkAgrees(t, l, i, b, calls) BY <1>2, <1>3, <2>1, <2>2, <2>3, PartsRead
    <2> QED BY <2>4 DEF t
  <1>8. WorkAgrees(Fail(s), l, i, b, calls)
    <2> DEFINE t == Fail(s)
    <2>1. /\ Same(s, t, BackgroundFields)
      BY HelpersLeave, SameSubset
    <2>2. ~t.wedged BY <1>2, NothingBlocks
    <2>3. /\ LoadsAgree(t, l)
          /\ ImagesAgree(t, i)
          /\ OffHonoured(t, l, i, calls)
          /\ SceneAgrees(t, b)
      BY <1>0, <1>1, <1>2, LoadsKept, ImagesKept, OffKept, SceneAsked
    <2> HIDE DEF t
    <2>4. WorkAgrees(t, l, i, b, calls) BY <1>2, <1>3, <2>1, <2>2, <2>3, PartsRead
    <2> QED BY <2>4 DEF t
  <1>9. WorkAgrees(StopImage(s), l, i, b, calls)
    <2> DEFINE t == StopImage(s)
    <2>1. /\ Same(s, t, BackgroundFields)
      BY HelpersLeave, SameSubset
    <2>2. ~t.wedged BY <1>2, NothingBlocks
    <2>3. /\ LoadsAgree(t, l)
          /\ ImagesAgree(t, i)
          /\ OffHonoured(t, l, i, calls)
          /\ SceneAgrees(t, b)
      BY <1>0, <1>1, <1>2, LoadsKept, ImagesKept, OffKept, SceneAsked
    <2> HIDE DEF t
    <2>4. WorkAgrees(t, l, i, b, calls) BY <1>2, <1>3, <2>1, <2>2, <2>3, PartsRead
    <2> QED BY <2>4 DEF t
  <1>10. ASSUME NEW paused \in BOOLEAN
        PROVE  WorkAgrees(SetPaused(s, paused), l, i, b, calls)
    <2> DEFINE t == SetPaused(s, paused)
    <2>1. /\ Same(s, t, ImageFields)
          /\ Same(s, t, BackgroundFields)
          /\ Same(s, t, StageFields)
      BY HelpersLeave, SameSubset
    <2>2. ~t.wedged BY <1>2, NothingBlocks
    <2>3. /\ LoadsAgree(t, l)
          /\ SceneAgrees(t, b)
      BY <1>0, <1>1, <1>2, LoadsKept, SceneKept
    <2> HIDE DEF t
    <2>4. WorkAgrees(t, l, i, b, calls) BY <1>2, <1>3, <2>1, <2>2, <2>3, PartsRead
    <2> QED BY <2>4 DEF t
  <1>11. ASSUME CanSeek(s)
        PROVE  WorkAgrees(SetPosition(s), l, i, b, calls)
    <2> DEFINE t == SetPosition(s)
    <2>1. /\ Same(s, t, ImageFields)
          /\ Same(s, t, BackgroundFields)
          /\ Same(s, t, StageFields)
      BY HelpersLeave, SameSubset
    <2>2. ~t.wedged BY <1>2, NothingBlocks
    <2>3. /\ LoadsAgree(t, l)
          /\ SceneAgrees(t, b)
      BY <1>11, <1>0, <1>1, <1>2, LoadsKept, SceneAsked
    <2> HIDE DEF t
    <2>4. WorkAgrees(t, l, i, b, calls) BY <1>2, <1>3, <2>1, <2>2, <2>3, PartsRead
    <2> QED BY <2>4 DEF t
  <1>12. ASSUME NEW cue \in Cues, ~s.closed, s.offAt < s.now
        PROVE  WorkAgrees(SelectForeground(s, cue), l, i, b, calls)
    <2> DEFINE t == SelectForeground(s, cue)
    <2>1. /\ Same(s, t, BackgroundFields)
      BY HelpersLeave, SameSubset
    <2>2. ~t.wedged BY <1>2, NothingBlocks
    <2>3. /\ LoadsAgree(t, l)
          /\ ImagesAgree(t, i)
          /\ OffHonoured(t, l, i, calls)
          /\ SceneAgrees(t, b)
      BY <1>12, <1>0, <1>1, <1>2, LoadsKept, ImagesKept, OffKept, SceneAsked DEF CueRef
    <2> HIDE DEF t
    <2>4. WorkAgrees(t, l, i, b, calls) BY <1>2, <1>3, <2>1, <2>2, <2>3, PartsRead
    <2> QED BY <2>4 DEF t
  <1>13. ASSUME NEW cue \in Cues, ~s.closed, s.offAt < s.now
        PROVE  WorkAgrees(SelectImage(s, cue), l, i, b, calls)
    <2> DEFINE t == SelectImage(s, cue)
    <2>1. /\ Same(s, t, LoadFields)
          /\ Same(s, t, BackgroundFields)
      BY HelpersLeave, SameSubset
    <2>2. ~t.wedged BY <1>2, NothingBlocks
    <2>3. /\ ImagesAgree(t, i)
          /\ OffHonoured(t, l, i, calls)
          /\ SceneAgrees(t, b)
      BY <1>13, <1>0, <1>1, <1>2, ImagesKept, OffKept, SceneAsked DEF CueRef
    <2> HIDE DEF t
    <2>4. WorkAgrees(t, l, i, b, calls) BY <1>2, <1>3, <2>1, <2>2, <2>3, PartsRead
    <2> QED BY <2>4 DEF t
  <1>14. ASSUME NEW cues, NEW id, id \in cues \cup {NoCue} \/ s.closed
        PROVE  WorkAgrees(SelectBackground(s, cues, id), l, i, b, calls)
    <2> DEFINE t == SelectBackground(s, cues, id)
    <2>1. /\ Same(s, t, LoadFields)
          /\ Same(s, t, ImageFields)
          /\ Same(s, t, StageFields)
      BY HelpersLeave, SameSubset
    <2>2. ~t.wedged BY <1>2, NothingBlocks
    <2>3. BackgroundsAgree(t, b) BY <1>2, BackgroundsKept
    <2>4. s.closed => SceneAgrees(t, b)
      BY <2>1 DEF SceneAgrees, Same, LoadFields
    <2>5. SceneAgrees(t, b) BY <1>14, <2>4, SceneAsked
    <2> HIDE DEF t
    <2>6. WorkAgrees(t, l, i, b, calls) BY <1>2, <1>3, <2>1, <2>2, <2>3, <2>5, PartsRead
    <2> QED BY <2>6 DEF t
  <1>15. ASSUME s.state # "loading" \/ s.foreground.id = s.generation
        PROVE  WorkAgrees(Ended(s), l, i, b, calls)
    <2> DEFINE t == Ended(s)
    <2>1. /\ Same(s, t, ImageFields)
          /\ Same(s, t, BackgroundFields)
          /\ Same(s, t, StageFields)
      BY HelpersLeave, SameSubset
    <2>2. ~t.wedged BY <1>2, NothingBlocks
    <2>3. /\ LoadsAgree(t, l)
          /\ SceneAgrees(t, b)
      BY <1>15, <1>0, <1>1, <1>2, LoadsFollow, SceneAsked
    <2> HIDE DEF t
    <2>4. WorkAgrees(t, l, i, b, calls) BY <1>2, <1>3, <2>1, <2>2, <2>3, PartsRead
    <2> QED BY <2>4 DEF t
  <1>16. ASSUME NEW phase \in {"stopped", "stopping", "error"}, Resting(s)
        PROVE  WorkAgrees(Rested(s, phase), l, i, b, calls)
    <2> DEFINE t == Rested(s, phase)
    <2>1. /\ Same(s, t, ImageFields)
          /\ Same(s, t, BackgroundFields)
          /\ Same(s, t, StageFields)
      BY HelpersLeave, SameSubset
    <2>2. ~t.wedged BY <1>2, NothingBlocks
    <2>3. /\ LoadsAgree(t, l)
          /\ SceneAgrees(t, b)
      BY <1>16, <1>0, <1>1, <1>2, LoadsFollow, SceneKept DEF Resting
    <2> HIDE DEF t
    <2>4. WorkAgrees(t, l, i, b, calls) BY <1>2, <1>3, <2>1, <2>2, <2>3, PartsRead
    <2> QED BY <2>4 DEF t
  <1>17. ASSUME Resting(s), s.pendingImage = NoCue
         PROVE  WorkAgrees([s EXCEPT !.closed = TRUE], l, i, b, calls)
    <2> DEFINE t == [s EXCEPT !.closed = TRUE]
    <2>1. Same(s, t, BackgroundFields) /\ Same(s, t, StageFields) /\ t.wedged = s.wedged
      BY DEF Service, Same, BackgroundFields, StageFields
    <2>2. LoadsAgree(t, l) BY <1>2, <1>17 DEF LoadsAgree, Resting, Service
    <2>3. ImagesAgree(t, i) /\ SceneAgrees(t, b)
      BY <1>1, <1>2, <1>17, ImagesKept, SceneKept
    <2> HIDE DEF t
    <2>4. WorkAgrees(t, l, i, b, calls) BY <1>2, <1>3, <2>1, <2>2, <2>3, PartsRead
    <2> QED BY <2>4 DEF t
  <1> QED BY <1>4, <1>5, <1>6, <1>7, <1>8, <1>9, <1>10, <1>11, <1>12, <1>13, <1>14, <1>15,
             <1>16, <1>17

\* All parts together, through what the preparation workers do.
LEMMA WorkDone ==
  ASSUME NEW s \in Service, NEW l \in Job, NEW i \in Job, NEW b \in Job,
         NEW calls \in StageCalls, NEW op, Settled(s, i, op),
         WorkAgrees(s, l, i, b, calls)
  PROVE  /\ l = NoJob /\ s.loads # NoJob =>
              WorkAgrees([s EXCEPT !.loads = NoJob], s.loads, i, b, calls)
         /\ l.tag # s.generation \/ s.state # "loading" =>
              WorkAgrees(s, NoJob, i, b, calls)
         /\ l # NoJob /\ l.tag = s.generation /\ s.state = "loading" =>
              /\ WorkAgrees(CommitAsImage(s, l), NoJob, i, b, calls)
              /\ \A kind \in Kinds :
                   WorkAgrees(CommitForeground(s, l, kind), NoJob, i, b, calls)
         /\ i = NoJob /\ s.visualLoads # NoJob =>
              WorkAgrees([s EXCEPT !.visualLoads = NoJob], l, s.visualLoads, b, calls)
         /\ i.tag # s.visualSequence \/ s.closed => WorkAgrees(s, l, NoJob, b, calls)
         /\ i # NoJob /\ i.tag = s.visualSequence =>
              /\ WorkAgrees(CommitVisual(s, i), l, NoJob, b, calls)
              /\ WorkAgrees(Changed(ApplyScene([s EXCEPT !.pendingImage = NoCue], FALSE)),
                            l, NoJob, b, calls)
         /\ b = NoJob /\ s.backgroundLoads # NoJob =>
              WorkAgrees([s EXCEPT !.backgroundLoads = NoJob], l, i, s.backgroundLoads, calls)
         /\ b.tag # s.backgroundSequence \/ s.closed => WorkAgrees(s, l, i, NoJob, calls)
         /\ \A cue : WorkAgrees(Changed(ApplyScene([s EXCEPT !.background = cue], FALSE)),
                               l, i, NoJob, calls)
  <1>1. /\ s.generation # 0 /\ ImagesCounted(s, i)
        /\ s.foreground.id = 0 => s.foreground.cue = NoCue
    BY DEF Settled
  <1>2. /\ ~s.wedged /\ LoadsAgree(s, l) /\ ImagesAgree(s, i) /\ BackgroundsAgree(s, b)
        /\ OffHonoured(s, l, i, calls) /\ SceneAgrees(s, b)
    BY DEF WorkAgrees
  <1>3. ASSUME l = NoJob, s.loads # NoJob
        PROVE  WorkAgrees([s EXCEPT !.loads = NoJob], s.loads, i, b, calls)
    <2> DEFINE t == [s EXCEPT !.loads = NoJob]
    <2>1. /\ Same(s, t, ImageFields) /\ Same(s, t, BackgroundFields)
          /\ Same(s, t, SceneFields) /\ t.wedged = s.wedged
      BY DEF Service, Same, ImageFields, BackgroundFields, SceneFields
    <2>2. LoadsAgree(t, s.loads) /\ OffHonoured(t, s.loads, i, calls)
      BY <1>1, <1>2, <1>3, LoadsWorked, OffWorked
    <2> HIDE DEF t
    <2>3. WorkAgrees(t, s.loads, i, b, calls)
      BY <1>2, <2>1, <2>2, PartsRead DEF WorkAgrees
    <2> QED BY <2>3 DEF t
  <1>4. ASSUME l.tag # s.generation \/ s.state # "loading"
        PROVE  WorkAgrees(s, NoJob, i, b, calls)
    BY <1>1, <1>2, <1>4, LoadsWorked, OffWorked DEF WorkAgrees
  <1>5. ASSUME l # NoJob, l.tag = s.generation, s.state = "loading"
        PROVE  WorkAgrees(CommitAsImage(s, l), NoJob, i, b, calls)
    <2> DEFINE t == CommitAsImage(s, l)
    <2>1. Same(s, t, ImageFields) /\ Same(s, t, BackgroundFields)
      BY HelpersLeave, SameSubset
    <2>2. ~t.wedged BY <1>2, NothingBlocks
    <2>3. LoadsAgree(t, NoJob) /\ OffHonoured(t, NoJob, i, calls) /\ SceneAgrees(t, b)
      BY <1>1, <1>2, <1>5, LoadsWorked, OffWorked, SceneAsked
    <2> HIDE DEF t
    <2>4. WorkAgrees(t, NoJob, i, b, calls)
      BY <1>2, <2>1, <2>2, <2>3, PartsRead DEF WorkAgrees
    <2> QED BY <2>4 DEF t
  <1>6. ASSUME l # NoJob, l.tag = s.generation, s.state = "loading", NEW kind \in Kinds
        PROVE  WorkAgrees(CommitForeground(s, l, kind), NoJob, i, b, calls)
    <2> DEFINE t == CommitForeground(s, l, kind)
    <2>1. Same(s, t, ImageFields) /\ Same(s, t, BackgroundFields)
      BY HelpersLeave, SameSubset
    <2>2. ~t.wedged BY <1>2, NothingBlocks
    <2>3. LoadsAgree(t, NoJob) /\ OffHonoured(t, NoJob, i, calls) /\ SceneAgrees(t, b)
      BY <1>1, <1>2, <1>6, LoadsWorked, OffWorked, SceneAsked
    <2> HIDE DEF t
    <2>4. WorkAgrees(t, NoJob, i, b, calls)
      BY <1>2, <2>1, <2>2, <2>3, PartsRead DEF WorkAgrees
    <2> QED BY <2>4 DEF t
  <1>7. ASSUME i = NoJob, s.visualLoads # NoJob
        PROVE  WorkAgrees([s EXCEPT !.visualLoads = NoJob], l, s.visualLoads, b, calls)
    <2> DEFINE t == [s EXCEPT !.visualLoads = NoJob]
    <2>1. /\ Same(s, t, LoadFields) /\ Same(s, t, BackgroundFields)
          /\ Same(s, t, SceneFields) /\ t.wedged = s.wedged
      BY DEF Service, Same, LoadFields, BackgroundFields, SceneFields
    <2>2. ImagesAgree(t, s.visualLoads) /\ OffHonoured(t, l, s.visualLoads, calls)
      BY <1>1, <1>2, <1>7, ImagesWorked, OffWorked
    <2> HIDE DEF t
    <2>3. WorkAgrees(t, l, s.visualLoads, b, calls)
      BY <1>2, <2>1, <2>2, PartsRead DEF WorkAgrees
    <2> QED BY <2>3 DEF t
  <1>8. ASSUME i.tag # s.visualSequence \/ s.closed
        PROVE  WorkAgrees(s, l, NoJob, b, calls)
    BY <1>1, <1>2, <1>8, ImagesWorked, OffWorked DEF WorkAgrees
  <1>9. ASSUME i # NoJob, i.tag = s.visualSequence
        PROVE  WorkAgrees(CommitVisual(s, i), l, NoJob, b, calls)
    <2> DEFINE t == CommitVisual(s, i)
    <2>1. Same(s, t, LoadFields) /\ Same(s, t, BackgroundFields)
      BY HelpersLeave, SameSubset
    <2>2. ~t.wedged BY <1>2, NothingBlocks
    <2>3. ImagesAgree(t, NoJob) /\ OffHonoured(t, l, NoJob, calls) /\ SceneAgrees(t, b)
      BY <1>1, <1>2, <1>9, ImagesWorked, OffWorked, SceneAsked
    <2> HIDE DEF t
    <2>4. WorkAgrees(t, l, NoJob, b, calls)
      BY <1>2, <2>1, <2>2, <2>3, PartsRead DEF WorkAgrees
    <2> QED BY <2>4 DEF t
  <1>10. ASSUME i # NoJob, i.tag = s.visualSequence
         PROVE  WorkAgrees(Changed(ApplyScene([s EXCEPT !.pendingImage = NoCue], FALSE)),
                           l, NoJob, b, calls)
    <2> DEFINE x == [s EXCEPT !.pendingImage = NoCue]
               t == Changed(ApplyScene(x, FALSE))
    <2>1. /\ Same(s, t, LoadFields) /\ Same(s, t, BackgroundFields)
          /\ Same(s, t, StageFields) /\ t.wedged = s.wedged
      BY DEF Service, Same, LoadFields, BackgroundFields, StageFields, Changed, ApplyScene
    <2>2. ImagesAgree(t, NoJob) BY <1>1, <1>2, <1>10, ImagesWorked
    <2>3. OffHonoured(s, l, NoJob, calls) BY <1>2, OffWorked
    <2>4. DOMAIN x = DOMAIN s OBVIOUS
    <2> HIDE DEF x
    <2>5. SceneAgrees(t, b) BY <2>4, SceneApplied
    <2> HIDE DEF t
    <2>6. WorkAgrees(t, l, NoJob, b, calls)
      BY <1>2, <2>1, <2>2, <2>3, <2>5, PartsRead DEF WorkAgrees
    <2> QED BY <2>6 DEF t, x
  <1>11. ASSUME b = NoJob, s.backgroundLoads # NoJob
         PROVE  WorkAgrees([s EXCEPT !.backgroundLoads = NoJob], l, i, s.backgroundLoads,
                           calls)
    <2> DEFINE t == [s EXCEPT !.backgroundLoads = NoJob]
    <2>1. /\ Same(s, t, LoadFields) /\ Same(s, t, ImageFields)
          /\ Same(s, t, StageFields) /\ t.wedged = s.wedged
      BY DEF Service, Same, LoadFields, ImageFields, StageFields
    <2>2. s.backgroundLoads.tag = s.backgroundSequence
      BY <1>2, <1>11 DEF BackgroundsAgree
    <2>3. BackgroundsAgree(t, s.backgroundLoads) /\ SceneAgrees(t, s.backgroundLoads)
      BY <1>2, <1>11, <2>2, BackgroundsKept, SceneKept
    <2> HIDE DEF t
    <2>4. WorkAgrees(t, l, i, s.backgroundLoads, calls)
      BY <1>2, <2>1, <2>3, PartsRead DEF WorkAgrees
    <2> QED BY <2>4 DEF t
  <1>12. ASSUME b.tag # s.backgroundSequence \/ s.closed
         PROVE  WorkAgrees(s, l, i, NoJob, calls)
    BY <1>2, <1>12, BackgroundsKept, SceneKept DEF WorkAgrees
  <1>13. ASSUME NEW cue
         PROVE  WorkAgrees(Changed(ApplyScene([s EXCEPT !.background = cue], FALSE)),
                           l, i, NoJob, calls)
    <2> DEFINE x == [s EXCEPT !.background = cue]
               t == Changed(ApplyScene(x, FALSE))
    <2>1. /\ Same(s, t, LoadFields) /\ Same(s, t, ImageFields)
          /\ Same(s, t, BackgroundFields) /\ Same(s, t, StageFields)
          /\ t.wedged = s.wedged
      BY DEF Service, Same, LoadFields, ImageFields, BackgroundFields, StageFields, Changed,
             ApplyScene
    <2>2. BackgroundsAgree(s, NoJob) BY <1>2, BackgroundsKept
    <2>3. DOMAIN x = DOMAIN s OBVIOUS
    <2> HIDE DEF x
    <2>4. SceneAgrees(t, NoJob) BY <2>3, SceneApplied
    <2> HIDE DEF t
    <2>5. WorkAgrees(t, l, i, NoJob, calls)
      BY <1>2, <2>1, <2>2, <2>4, PartsRead DEF WorkAgrees
    <2> QED BY <2>5 DEF t, x
  <1> QED BY <1>3, <1>4, <1>5, <1>6, <1>7, <1>8, <1>9, <1>10, <1>11, <1>12, <1>13

=============================================================================
