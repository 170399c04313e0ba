-------------------------- MODULE HandoverLemmas ---------------------------
(***************************************************************************)
(* The service's side of StageSystem.tla: every critical section hands     *)
(* over in order (Follows), and hears a sound event of the renderer as     *)
(* Coordinator hears a report of its own (Heard); and it hands over its    *)
(* own scene, or changes nothing the reports depend on (Calm).             *)
(***************************************************************************)
EXTENDS StageSystem, PlaybackProofs

\* A critical section that turns s into t never takes a number back, and starts
\* to wait only for a generation of its own.
Onward(s, t) ==
  /\ s.generation <= t.generation
  /\ Waits(t) => Waits(s) \/ s.generation < t.generation
  /\ \/ t.scene = s.scene
     \/ /\ s.scene.revision < t.scene.revision
        /\ s.scene.generation <= t.scene.generation
        /\ s.scene.transportRevision <= t.scene.transportRevision

\* A critical section hands over in order.
Follows(s, t) == HandedOver(s) => HandedOver(t) /\ Onward(s, t)

\* what these read of the service
Linked(s, t) ==
  /\ t.state = s.state /\ t.generation = s.generation
  /\ t.transportRevision = s.transportRevision /\ t.paused = s.paused
  /\ t.foreground = s.foreground /\ t.sceneRevision = s.sceneRevision
  /\ t.scene = s.scene /\ t.closed = s.closed /\ DOMAIN t = DOMAIN s

\* In u everything is in order but that it has not been handed over.
Asks(s, u, hard) ==
  /\ DOMAIN u = DOMAIN s /\ u.sceneRevision = s.sceneRevision
  /\ u.generation \in Nat /\ u.transportRevision \in Nat /\ u.foreground \in Source
  /\ s.generation <= u.generation /\ s.transportRevision <= u.transportRevision
  /\ u.foreground.id <= u.generation
  /\ u.foreground.id # 0 =>
       /\ ~hard /\ s.scene.transportRevision <= u.foreground.transportRevision
       /\ u.foreground.transportRevision <= u.transportRevision
  /\ u.state = "loading" /\ u.foreground.id = u.generation => u.foreground.paused = u.paused
  /\ Waits(u) => Waits(s) \/ s.generation < u.generation

-----------------------------------------------------------------------------
(* What every helper of a critical section does to the hand-over. *)

\* Follows reads nothing but what Linked names.
LEMMA LinkedFollows ==
  ASSUME NEW s, NEW t, NEW u, Linked(t, u)
  PROVE  Follows(s, t) => Follows(s, u)
  BY DEF Linked, Follows, HandedOver, Onward, Waits

\* Entering the critical section hands over nothing.
LEMMA FollowsItself ==
  ASSUME NEW s \in Service, NEW u, Linked(s, u)
  PROVE  Follows(s, u)
  BY DEF Linked, Follows, HandedOver, Onward, Waits, Service

\* One part of a critical section after another.
LEMMA FollowsOn ==
  ASSUME NEW s \in Service, NEW t, NEW u, Follows(s, t), Follows(t, u),
         t.generation \in Nat, u.generation \in Nat,
        t.scene \in Scene, u.scene \in Scene
  PROVE  Follows(s, u)
  BY DEF Follows, Onward, Service, Scene

\* applyScene hands over what was asked for, in order.
LEMMA AskedFollows ==
  ASSUME NEW s \in Service, NEW u, NEW hard \in BOOLEAN, HandedOver(s) => Asks(s, u, hard),
         DOMAIN u = DOMAIN s
  PROVE  Follows(s, ApplyScene(u, hard))
  <1> DEFINE t == ApplyScene(u, hard)
             scene == DesiredScene(u, hard)
  <1>1. /\ t.state = u.state /\ t.generation = u.generation
        /\ t.transportRevision = u.transportRevision /\ t.paused = u.paused
        /\ t.foreground = u.foreground /\ t.sceneRevision = u.sceneRevision + 1
        /\ t.scene = scene /\ t.closed = u.closed
    BY DEF ApplyScene, Service
  <1>2. /\ scene.revision = u.sceneRevision + 1 /\ scene.generation = u.generation
        /\ scene.foregroundID = u.foreground.id /\ scene.paused = u.foreground.paused
        /\ scene.hard = hard
        /\ scene.transportRevision = IF u.foreground.id = 0 THEN u.transportRevision
                                     ELSE u.foreground.transportRevision
    BY DEF DesiredScene
  <1>3. /\ s.sceneRevision \in Nat /\ s.generation \in Nat /\ s.transportRevision \in Nat
        /\ s.scene.revision \in Nat /\ s.scene.generation \in Nat
        /\ s.scene.transportRevision \in Nat
    BY DEF Service, Scene
  <1>4. HandedOver(s) => u.foreground.id \in Nat /\ u.foreground.transportRevision \in Nat
    BY DEF Asks, Source
  <1> HIDE DEF t, scene
  <1>5. ASSUME HandedOver(s) PROVE HandedOver(t)
    BY <1>1, <1>2, <1>3, <1>4, <1>5 DEF Asks, HandedOver
  <1>6. ASSUME HandedOver(s) PROVE Onward(s, t)
    BY <1>1, <1>2, <1>3, <1>4, <1>6 DEF Asks, HandedOver, Onward, Waits
  <1>7. Follows(s, t) BY <1>5, <1>6 DEF Follows
  <1> QED BY <1>7 DEF t

\* stopForeground withdraws the source before it hands over a scene without one.
LEMMA StopFollows ==
  ASSUME NEW s \in Service, NEW r, NEW clear \in BOOLEAN, NEW hard \in BOOLEAN, Linked(s, r)
  PROVE  Follows(s, StopForeground(r, clear, hard))
  <1> DEFINE halted == [ClearActive(Invalidate(r)) EXCEPT
                           !.stopEpoch = @ + 1, !.foreground = NoSource]
             cleared == IF clear THEN ClearImage(halted) ELSE halted
             u == [cleared EXCEPT !.state = "stopping"]
  <1>1. StopForeground(r, clear, hard) = Changed(ApplyScene(u, hard))
    BY DEF StopForeground
  <1>2. /\ DOMAIN halted = DOMAIN s /\ halted.sceneRevision = s.sceneRevision
        /\ halted.generation = s.generation + 1
        /\ halted.transportRevision = s.transportRevision + 1
        /\ halted.foreground = NoSource
    BY DEF Linked, ClearActive, Invalidate, Service
  <1> HIDE DEF halted
  <1>3. /\ DOMAIN cleared = DOMAIN s /\ cleared.sceneRevision = s.sceneRevision
        /\ cleared.generation = s.generation + 1
        /\ cleared.transportRevision = s.transportRevision + 1
        /\ cleared.foreground = NoSource
    BY <1>2 DEF ClearImage, Service
  <1> HIDE DEF cleared
  <1>4. /\ DOMAIN u = DOMAIN s /\ u.sceneRevision = s.sceneRevision
        /\ u.generation = s.generation + 1
        /\ u.transportRevision = s.transportRevision + 1
        /\ u.foreground = NoSource /\ u.state = "stopping"
    BY <1>3 DEF Service
  <1> HIDE DEF u
  <1>5. s.generation \in Nat /\ s.transportRevision \in Nat BY DEF Service
  <1>6. NoSource.id = 0 BY DEF NoSource
  <1>7. Asks(s, u, hard) BY <1>4, <1>5, <1>6, NoSourceType DEF Asks, Waits
  <1>8. Follows(s, ApplyScene(u, hard)) BY <1>4, <1>7, AskedFollows
  <1>9. Linked(ApplyScene(u, hard), Changed(ApplyScene(u, hard)))
    BY <1>4 DEF Linked, Changed, ApplyScene, Service
  <1> QED BY <1>1, <1>8, <1>9, LinkedFollows

\* A scene of an unchanged selection is handed over in order.
LEMMA SameFollows ==
  ASSUME NEW s \in Service, NEW r, Linked(s, r)
  PROVE  Follows(s, r) /\ Follows(s, ApplyScene(r, FALSE)) /\ Follows(s, Changed(r))
         /\ Follows(s, Changed(ApplyScene(r, FALSE)))
  <1>1. HandedOver(s) => Asks(s, r, FALSE)
    BY DEF Linked, Asks, HandedOver, Waits, Service, Source, Scene
  <1>2. Follows(s, ApplyScene(r, FALSE)) BY <1>1, AskedFollows DEF Linked
  <1>3. Linked(r, Changed(r))
        /\ Linked(ApplyScene(r, FALSE), Changed(ApplyScene(r, FALSE)))
    BY DEF Linked, Changed, ApplyScene, Service
  <1>4. Follows(s, r) BY FollowsItself
  <1> QED BY <1>2, <1>3, <1>4, LinkedFollows

\* the foreground with the newest intent, and after a seek
Retimed(x, p, n) == [x EXCEPT !.paused = p, !.transportRevision = n]
Resought(x, n) ==
  [x EXCEPT !.transportRevision = n, !.seekRevision = @ + 1, !.seekPending = TRUE]

\* The foreground stays well formed.
LEMMA RetimedType ==
  ASSUME NEW x \in Source, NEW p \in BOOLEAN, NEW n \in Nat
  PROVE  LET y == Retimed(x, p, n) IN
         /\ y \in Source /\ y.id = x.id /\ y.paused = p /\ y.transportRevision = n
  <1>1. [x EXCEPT !.paused = p] \in Source BY SourceFields
  <1>2. Retimed(x, p, n) \in Source BY <1>1, SourceFields, Zenon DEF Retimed
  <1> QED BY <1>2 DEF Source, Retimed

\* The foreground stays well formed after a seek.
LEMMA ResoughtType ==
  ASSUME NEW x \in Source, NEW n \in Nat
  PROVE  LET y == Resought(x, n) IN
         /\ y \in Source /\ y.id = x.id /\ y.transportRevision = n
  <1>1. x.seekRevision + 1 \in Nat BY DEF Source
  <1> QED BY <1>1 DEF Source, Resought

\* setPaused changes the intent of the source and of the scene together.
LEMMA PauseFollows ==
  ASSUME NEW s \in Service, NEW r, Linked(s, r), NEW paused \in BOOLEAN
  PROVE  Follows(s, SetPaused(r, paused))
  <1> DEFINE asked == [r EXCEPT !.paused = paused, !.transportRevision = @ + 1]
             own == \/ r.foreground.id = r.generation
                    \/ r.state # "loading" /\ r.foreground.cue = r.activeCue
             u == [asked EXCEPT !.foreground.paused = paused,
                       !.foreground.transportRevision = asked.transportRevision]
  <1>1. CASE r.paused = paused BY <1>1, FollowsItself DEF SetPaused
  <1>2. CASE r.paused # paused /\ own
    <2>1. SetPaused(r, paused) = Changed(ApplyScene(u, FALSE)) BY <1>2 DEF SetPaused
    <2>8. DOMAIN u = DOMAIN s BY DEF Linked
    <2>2. /\ u.sceneRevision = s.sceneRevision
          /\ u.generation = s.generation /\ u.transportRevision = s.transportRevision + 1
          /\ u.state = s.state /\ u.paused = paused
      BY DEF Linked, Service
    <2>9. u.foreground = Retimed(s.foreground, paused, s.transportRevision + 1)
      BY DEF Linked, Service, Retimed
    <2> HIDE DEF u
    <2>6. s.foreground \in Source /\ s.transportRevision + 1 \in Nat BY DEF Service
    <2>7. /\ u.foreground \in Source /\ u.foreground.id = s.foreground.id
          /\ u.foreground.paused = paused
          /\ u.foreground.transportRevision = s.transportRevision + 1
      BY <2>6, <2>9, RetimedType
    <2>10. /\ s.generation \in Nat /\ s.transportRevision \in Nat
           /\ s.scene.transportRevision \in Nat /\ s.scene.generation \in Nat
           /\ s.foreground.id \in Nat
      BY DEF Service, Scene, Source
    <2>3. HandedOver(s) => Asks(s, u, FALSE)
      BY <2>2, <2>7, <2>8, <2>10 DEF Asks, HandedOver, Waits
    <2>4. Follows(s, ApplyScene(u, FALSE)) BY <2>3, <2>8, AskedFollows
    <2>5. Linked(ApplyScene(u, FALSE), Changed(ApplyScene(u, FALSE)))
      BY <2>8 DEF Linked, Changed, ApplyScene, Service
    <2> QED BY <2>1, <2>4, <2>5, LinkedFollows
  <1>3. CASE r.paused # paused /\ ~own
    <2>1. SetPaused(r, paused) = Changed(asked) BY <1>3 DEF SetPaused
    <2>2. s.foreground.id # s.generation BY <1>3 DEF Linked
    <2> DEFINE t == Changed(asked)
    <2>3. /\ t.state = s.state /\ t.generation = s.generation
          /\ t.transportRevision = s.transportRevision + 1
          /\ t.foreground = s.foreground /\ t.sceneRevision = s.sceneRevision
          /\ t.scene = s.scene /\ t.closed = s.closed
      BY DEF Linked, Changed, Service
    <2> HIDE DEF t
    <2>4. Follows(s, t)
      BY <2>2, <2>3 DEF Follows, HandedOver, Onward, Waits, Service, Scene
    <2> QED BY <2>1, <2>4 DEF t
  <1> QED BY <1>1, <1>2, <1>3

\* setPosition numbers the seek in the source and in the scene alike.
LEMMA SeekFollows ==
  ASSUME NEW s \in Service, NEW r, Linked(s, r)
  PROVE  s.state # "loading" => Follows(s, SetPosition(r))
  <1> DEFINE u == [r EXCEPT !.transportRevision = @ + 1, !.seekPending = TRUE,
              !.foreground.transportRevision = r.transportRevision + 1,
              !.foreground.seekRevision = @ + 1,
              !.foreground.seekPending = TRUE]
  <1> SUFFICES ASSUME s.state # "loading" PROVE Follows(s, SetPosition(r)) OBVIOUS
  <1>1. SetPosition(r) = Changed(ApplyScene(u, FALSE)) BY DEF SetPosition
  <1>8. DOMAIN u = DOMAIN s BY DEF Linked
  <1>2. /\ u.sceneRevision = s.sceneRevision
        /\ u.generation = s.generation /\ u.transportRevision = s.transportRevision + 1
        /\ u.state = s.state
    BY DEF Linked, Service
  <1>9. u.foreground = Resought(s.foreground, s.transportRevision + 1)
    BY DEF Linked, Service, Resought
  <1> HIDE DEF u
  <1>6. s.foreground \in Source /\ s.transportRevision + 1 \in Nat BY DEF Service
  <1>7. /\ u.foreground \in Source /\ u.foreground.id = s.foreground.id
        /\ u.foreground.transportRevision = s.transportRevision + 1
    BY <1>6, <1>9, ResoughtType
  <1>10. /\ s.generation \in Nat /\ s.transportRevision \in Nat
         /\ s.scene.transportRevision \in Nat /\ s.scene.generation \in Nat
         /\ s.foreground.id \in Nat
    BY DEF Service, Scene, Source
  <1>3. HandedOver(s) => Asks(s, u, FALSE)
    BY <1>2, <1>7, <1>8, <1>10 DEF Asks, HandedOver, Waits
  <1>4. Follows(s, ApplyScene(u, FALSE)) BY <1>3, <1>8, AskedFollows
  <1>5. Linked(ApplyScene(u, FALSE), Changed(ApplyScene(u, FALSE)))
    BY <1>8 DEF Linked, Changed, ApplyScene, Service
  <1> QED BY <1>1, <1>4, <1>5, LinkedFollows

\* Images leave the foreground's hand-over alone.
LEMMA ImageFollows ==
  ASSUME NEW s \in Service, NEW r, Linked(s, r), NEW cue
  PROVE  /\ Follows(s, StopImage(r)) /\ Follows(s, Changed(SelectImage(r, cue)))
         /\ Linked(s, SelectImage(r, cue))
  <1> DEFINE cleared == ClearImage(r)
             shown == [cleared EXCEPT !.stopEpoch = @ + 1]
  <1>1. Linked(s, cleared) BY DEF Linked, ClearImage, Service
  <1>2. StopImage(r) \in {StopForeground(cleared, FALSE, FALSE),
                          Changed(ApplyScene(shown, FALSE))}
    BY DEF StopImage
  <1>3. Linked(s, SelectImage(r, cue)) BY <1>1 DEF SelectImage, Linked, Service
  <1> HIDE DEF cleared
  <1>4. Linked(s, shown) BY <1>1 DEF Linked, Service
  <1> HIDE DEF shown
  <1> QED BY <1>1, <1>2, <1>3, <1>4, SameFollows, StopFollows

\* PLAY waits under a generation of its own.
LEMMA ForegroundFollows ==
  ASSUME NEW s \in Service, NEW r, Linked(s, r), NEW cue
  PROVE  Follows(s, SelectForeground(r, cue))
  <1> DEFINE t == SelectForeground(r, cue)
  <1>1. /\ t.state = "loading" /\ t.generation = s.generation + 1
        /\ t.transportRevision = s.transportRevision + 1
        /\ t.foreground = s.foreground /\ t.sceneRevision = s.sceneRevision
        /\ t.scene = s.scene /\ t.closed = s.closed
    BY DEF SelectForeground, SendLoad, Changed, ClearImage, Invalidate, Linked, Service
  <1> HIDE DEF t
  <1>2. Follows(s, t)
    BY <1>1 DEF Follows, HandedOver, Onward, Waits, Service, Scene, Source
  <1> QED BY <1>2 DEF t

\* A choice of background leaves the foreground's hand-over alone.
LEMMA BackgroundFollows ==
  ASSUME NEW s \in Service, NEW r, Linked(s, r), NEW cues, NEW id
  PROVE  Follows(s, SelectBackground(r, cues, id))
  <1> DEFINE drained == [r EXCEPT !.backgroundSequence = @ + 1, !.backgroundLoads = NoJob,
                           !.backgroundCue = id]
             black == [drained EXCEPT !.background = NoCue]
             gone == [drained EXCEPT !.background = NoCue, !.backgroundCue = NoCue]
             asked == [drained EXCEPT
                !.backgroundLoads = [tag |-> drained.backgroundSequence, cue |-> id,
                                     stageSerial |-> r.stageSerial, at |-> r.now],
                !.wedged = @ \/ drained.backgroundLoads # NoJob]
             t == SelectBackground(r, cues, id)
  <1>1. t \in {black, ApplyScene(black, FALSE), gone, asked}
    BY Zenon DEF SelectBackground
  <1>2. Linked(s, drained) BY DEF Linked, Service
  <1> HIDE DEF drained
  <1>3. Linked(s, black) BY <1>2 DEF Linked, Service
  <1>4. Linked(s, gone) BY <1>2 DEF Linked, Service
  <1>5. Linked(s, asked) BY <1>2 DEF Linked, Service
  <1> HIDE DEF black, gone, asked, t
  <1>6. Linked(s, t) \/ t = ApplyScene(black, FALSE) BY <1>1, <1>3, <1>4, <1>5
  <1>7. Follows(s, t) BY <1>3, <1>6, SameFollows
  <1> QED BY <1>7 DEF t

\* What follows from the section's entry follows from the state before it.
LEMMA LinkedStarts ==
  ASSUME NEW s, NEW r, NEW t, Linked(s, r), Follows(r, t)
  PROVE  Follows(s, t)
  BY DEF Linked, Follows, HandedOver, Onward, Waits

\* failAll withdraws the source and the stage in one scene.
LEMMA FailFollows ==
  ASSUME NEW s \in Service, NEW r, Linked(s, r)
  PROVE  Follows(s, Fail(r))
  <1> DEFINE halted == [ClearActive(Invalidate(r)) EXCEPT
                           !.stopEpoch = @ + 1, !.foreground = NoSource]
             cleared == Disarm(ClearImage(halted))
             u == [cleared EXCEPT !.stageEnablePending = FALSE, !.stageEnabled = FALSE,
                                  !.state = "error"]
  <1>1. Fail(r) = Changed(ApplyScene(u, TRUE))
    BY DEF Fail
  <1>2. /\ DOMAIN halted = DOMAIN s /\ halted.sceneRevision = s.sceneRevision
        /\ halted.generation = s.generation + 1
        /\ halted.transportRevision = s.transportRevision + 1
        /\ halted.foreground = NoSource
    BY DEF Linked, ClearActive, Invalidate, Service
  <1> HIDE DEF halted
  <1>3. /\ DOMAIN cleared = DOMAIN s /\ cleared.sceneRevision = s.sceneRevision
        /\ cleared.generation = s.generation + 1
        /\ cleared.transportRevision = s.transportRevision + 1
        /\ cleared.foreground = NoSource
    BY <1>2 DEF ClearImage, Disarm, Service
  <1> HIDE DEF cleared
  <1>4. /\ DOMAIN u = DOMAIN s /\ u.sceneRevision = s.sceneRevision
        /\ u.generation = s.generation + 1
        /\ u.transportRevision = s.transportRevision + 1
        /\ u.foreground = NoSource /\ u.state = "error"
    BY <1>3 DEF Service
  <1> HIDE DEF u
  <1>5. s.generation \in Nat /\ s.transportRevision \in Nat BY DEF Service
  <1>6. NoSource.id = 0 BY DEF NoSource
  <1>7. Asks(s, u, TRUE) BY <1>4, <1>5, <1>6, NoSourceType DEF Asks, Waits
  <1>8. Follows(s, ApplyScene(u, TRUE)) BY <1>4, <1>7, AskedFollows
  <1>9. Linked(ApplyScene(u, TRUE), Changed(ApplyScene(u, TRUE)))
    BY <1>4 DEF Linked, Changed, ApplyScene, Service
  <1> QED BY <1>1, <1>8, <1>9, LinkedFollows

\* Escape on the host stops hard.
LEMMA EscapeFollows ==
  ASSUME NEW s \in Service, NEW r, Linked(s, r)
  PROVE  Follows(s, Escape(r))
  <1> DEFINE d == Disarm(r)
             h == StopForeground(d, TRUE, TRUE)
             t == [h EXCEPT !.stageEnabled = FALSE]
  <1>1. Linked(s, d) BY DEF Linked, Disarm, Service
  <1> HIDE DEF d
  <1>2. Follows(s, h) BY <1>1, StopFollows
  <1>3. DOMAIN h = DOMAIN s
    BY <1>1 DEF Linked, StopForeground, Changed, ApplyScene, ClearImage, ClearActive, Invalidate
  <1>4. Escape(r) = Changed(t) BY DEF Escape, d
  <1> HIDE DEF h
  <1>5. Linked(h, Changed(t)) BY <1>3 DEF Linked, Changed, Service
  <1> QED BY <1>2, <1>4, <1>5, LinkedFollows

\* An acknowledgement hands over nothing that was not.
LEMMA AckedFollows ==
  ASSUME NEW s \in Service, NEW kind \in {"playing", "paused"}
  PROVE  Follows(s, Acked(s, kind))
  <1> DEFINE t == Acked(s, kind)
  <1>1. /\ t.state = kind /\ t.generation = s.generation
        /\ t.transportRevision = s.transportRevision
        /\ t.foreground = [s.foreground EXCEPT !.seekPending = FALSE]
        /\ t.sceneRevision = s.sceneRevision
        /\ t.scene = s.scene /\ t.closed = s.closed
    BY DEF Acked, Changed, Service
  <1>2. /\ t.foreground.id = s.foreground.id
        /\ t.foreground.paused = s.foreground.paused
        /\ t.foreground.transportRevision = s.foreground.transportRevision
    BY <1>1 DEF Service, Source
  <1> HIDE DEF t
  <1>3. Follows(s, t)
    BY <1>1, <1>2 DEF Follows, HandedOver, Onward, Waits, Service
  <1> QED BY <1>3 DEF t

\* A source that ended is handed over as none.
LEMMA EndedFollows ==
  ASSUME NEW s \in Service
  PROVE  Follows(s, Ended(s))
  <1> DEFINE u == [ClearActive(s) EXCEPT !.foreground = NoSource, !.state = "stopped"]
  <1>1. Ended(s) = Changed(ApplyScene(u, FALSE)) BY DEF Ended
  <1>4. /\ DOMAIN u = DOMAIN s /\ u.sceneRevision = s.sceneRevision
        /\ u.generation = s.generation
        /\ u.transportRevision = s.transportRevision
        /\ u.foreground = NoSource /\ u.state = "stopped"
    BY DEF ClearActive, Service
  <1> HIDE DEF u
  <1>5. s.generation \in Nat /\ s.transportRevision \in Nat BY DEF Service
  <1>6. NoSource.id = 0 BY DEF NoSource
  <1>7. Asks(s, u, FALSE) BY <1>4, <1>5, <1>6, NoSourceType DEF Asks, Waits
  <1>8. Follows(s, ApplyScene(u, FALSE)) BY <1>4, <1>7, AskedFollows
  <1>9. Linked(ApplyScene(u, FALSE), Changed(ApplyScene(u, FALSE)))
    BY <1>4 DEF Linked, Changed, ApplyScene, Service
  <1> QED BY <1>1, <1>8, <1>9, LinkedFollows

\* What confirms silence or a fault withdraws the source.
LEMMA RestedFollows ==
  ASSUME NEW s \in Service, NEW kind \in {"stopped", "error"}
  PROVE  Follows(s, Rested(s, kind)) /\ Follows(s, Changed(Rested(s, kind)))
  BY DEF Rested, Changed, Follows, HandedOver, Onward, Waits, Service

\* Whatever the service hears, it hands over in order.
LEMMA NativeEventFollows ==
  ASSUME NEW s \in Service, NEW e \in Event
  PROVE  Follows(s, NativeEvent(s, e))
  <1> DEFINE fault == [s EXCEPT !.outputFault = TRUE]
             noted == [s EXCEPT !.stageEnabled = e.stageEnabled,
                                  !.stageEnablePending = FALSE]
             u == NoteStage(s, e)
  <1>1. Linked(s, s) BY DEF Linked
  <1>2. Linked(s, fault) /\ Linked(s, noted) /\ Linked(s, u)
    BY DEF NoteStage, Linked, Service
  <1>3. u \in Service
    <2>1. e.stageEnabled \in BOOLEAN /\ (s.stageEnablePending /\ ~e.stageEnabled) \in BOOLEAN
      BY DEF Event
    <2> QED BY <2>1, BoolFields, ZenonT(30) DEF NoteStage
  <1>4. Linked(u, [u EXCEPT !.outputFault = TRUE])
    BY <1>3 DEF Linked, Service
  <1> HIDE DEF fault, noted, u
  <1>5. /\ Follows(s, s) /\ Follows(s, Changed(s)) /\ Follows(s, Changed(noted))
        /\ Follows(s, Fail(s)) /\ Follows(s, Fail(fault)) /\ Follows(s, Escape(s))
        /\ Follows(s, u)
    BY <1>1, <1>2, SameFollows, FailFollows, EscapeFollows
  <1>6. Follows(u, Follow(u, e))
    <2>1. Linked(u, u) BY DEF Linked
    <2>2. /\ Follows(u, Fail(u)) /\ Follows(u, Fail([u EXCEPT !.outputFault = TRUE]))
          /\ Follows(u, u) /\ Follows(u, Changed(u)) /\ Follows(u, Ended(u))
          /\ Follows(u, Changed(Rested(u, "stopped")))
          /\ e.kind \in {"playing", "paused"} => Follows(u, Acked(u, e.kind))
      BY <1>3, <1>4, <2>1, FailFollows, SameFollows, EndedFollows, RestedFollows, AckedFollows
    <2>3. CASE e.kind \in {"playing", "paused"}
      <3>1. Follow(u, e) \in {u, Acked(u, e.kind)} BY <2>3 DEF Follow, Acked
      <3> QED BY <2>2, <2>3, <3>1
    <2>4. CASE e.kind = "progress"
      <3>1. Follow(u, e) \in {u, Changed(u)} BY <2>4 DEF Follow
      <3> QED BY <2>2, <3>1
    <2>5. CASE e.kind = "ended"
      <3>1. Follow(u, e) \in {u, Ended(u)} BY <2>5 DEF Follow, Ended
      <3> QED BY <2>2, <3>1
    <2>6. CASE e.kind = "stopped"
      <3>1. Follow(u, e) \in {u, Changed(Rested(u, "stopped"))} BY <2>6 DEF Follow, Rested
      <3> QED BY <2>2, <3>1
    <2>7. CASE e.kind = "error"
      <3>1. Follow(u, e) = Fail(u) BY <2>7 DEF Follow
      <3> QED BY <2>2, <3>1
    <2>8. CASE e.kind = "device-lost"
      <3>1. Follow(u, e) = Fail([u EXCEPT !.outputFault = TRUE]) BY <2>8 DEF Follow
      <3> QED BY <2>2, <3>1
    <2>9. CASE e.kind \notin {"playing", "paused", "progress", "ended", "stopped", "error",
                           "device-lost"}
      <3>1. Follow(u, e) = u BY <2>9 DEF Follow
      <3> QED BY <2>2, <3>1
    <2> QED BY <2>3, <2>4, <2>5, <2>6, <2>7, <2>8, <2>9
  <1>7. Follows(s, Follow(u, e)) BY <1>2, <1>6, LinkedStarts
  <1>8. NativeEvent(s, e) \in {s, Changed(s), Escape(s), Changed(noted), Fail(fault), Fail(s),
                               Follow(u, e)}
    BY Zenon DEF NativeEvent, fault, noted, u
  <1> QED BY <1>5, <1>7, <1>8

\* the clock and the lock of the saved show, which helpers leave alone
Steady(s, t) == t.now = s.now /\ t.configBusy = s.configBusy /\ DOMAIN t = DOMAIN s

\* The helpers of the critical sections leave the clock and the lock alone.
LEMMA HelpersSteady ==
  ASSUME NEW s, DOMAIN s = DOMAIN InitialService
  PROVE  /\ \A hard \in BOOLEAN : Steady(s, ApplyScene(s, hard))
         /\ Steady(s, Changed(s)) /\ Steady(s, Disarm(s)) /\ Steady(s, Fail(s))
         /\ \A image, hard \in BOOLEAN : Steady(s, StopForeground(s, image, hard))
         /\ Steady(s, StopImage(s)) /\ Steady(s, Escape(s)) /\ Steady(s, Ended(s))
         /\ \A paused \in BOOLEAN : Steady(s, SetPaused(s, paused))
         /\ Steady(s, SetPosition(s))
         /\ \A cue : Steady(s, SelectForeground(s, cue)) /\ Steady(s, SelectImage(s, cue))
         /\ \A cues, id : Steady(s, SelectBackground(s, cues, id))
         /\ \A job : Steady(s, CommitAsImage(s, job)) /\ Steady(s, CommitVisual(s, job))
         /\ \A job, kind : Steady(s, CommitForeground(s, job, kind))
         /\ \A kind : Steady(s, Rested(s, kind)) /\ Steady(s, Acked(s, kind))
  <1> USE DEF Steady
  <1>a. {"now", "configBusy"} \subseteq DOMAIN s BY DEF InitialService
  <1>1. /\ \A hard \in BOOLEAN : Steady(s, ApplyScene(s, hard))
        /\ Steady(s, Changed(s)) /\ Steady(s, Disarm(s))
        /\ \A kind : Steady(s, Rested(s, kind)) /\ Steady(s, Acked(s, kind))
    BY <1>a DEF ApplyScene, Changed, Disarm, Rested, Acked
  <1>2. ASSUME NEW image \in BOOLEAN, NEW hard \in BOOLEAN
        PROVE Steady(s, StopForeground(s, image, hard))
    BY <1>a, ZenonT(60)
    DEF StopForeground, Changed, ApplyScene, ClearImage, ClearActive, Invalidate
  <1>3. Steady(s, Fail(s))
    <2> DEFINE halted == [ClearActive(Invalidate(s)) EXCEPT
                            !.stopEpoch = @ + 1, !.foreground = NoSource]
               gone == ClearImage(halted)
               dark == [Disarm(gone) EXCEPT !.stageEnablePending = FALSE,
                                            !.stageEnabled = FALSE, !.state = "error"]
    <2>1. Steady(s, halted) BY <1>a DEF ClearActive, Invalidate
    <2>2. Fail(s) = Changed(ApplyScene(dark, TRUE)) BY DEF Fail
    <2> HIDE DEF halted
    <2>3. Steady(s, gone) BY <1>a, <2>1 DEF ClearImage
    <2> HIDE DEF gone
    <2>4. Steady(s, dark) BY <1>a, <2>3 DEF Disarm
    <2> HIDE DEF dark
    <2> QED BY <1>a, <2>2, <2>4 DEF Changed, ApplyScene
  <1>4. Steady(s, StopImage(s))
    BY <1>a, ZenonT(60)
    DEF StopImage, StopForeground, Changed, ApplyScene, ClearImage, ClearActive,
             Invalidate
  <1>5. Steady(s, Escape(s))
    <2> DEFINE d == Disarm(s)
               h == StopForeground(d, TRUE, TRUE)
    <2>1. Steady(s, d) BY <1>a DEF Disarm
    <2>2. Escape(s) = Changed([h EXCEPT !.stageEnabled = FALSE]) BY DEF Escape
    <2> HIDE DEF d
    <2>3. Steady(s, h)
      BY <1>a, <2>1, ZenonT(60)
      DEF StopForeground, Changed, ApplyScene, ClearImage, ClearActive, Invalidate
    <2> HIDE DEF h
    <2> QED BY <1>a, <2>2, <2>3 DEF Changed
  <1>6. Steady(s, Ended(s)) BY <1>a DEF Ended, Changed, ApplyScene, ClearActive
  <1>7. \A paused \in BOOLEAN : Steady(s, SetPaused(s, paused))
    BY <1>a DEF SetPaused, Changed, ApplyScene
  <1>8. Steady(s, SetPosition(s)) BY <1>a DEF SetPosition, Changed, ApplyScene
  <1>9. \A cue : Steady(s, SelectForeground(s, cue)) /\ Steady(s, SelectImage(s, cue))
    BY <1>a, ZenonT(60)
    DEF SelectForeground, SelectImage, SendLoad, Changed, ClearImage, Invalidate
  <1>10. \A cues, id : Steady(s, SelectBackground(s, cues, id))
    BY <1>a DEF SelectBackground, ApplyScene
  <1>11. ASSUME NEW job PROVE Steady(s, CommitAsImage(s, job)) /\ Steady(s, CommitVisual(s, job))
    <2>1. Steady(s, CommitVisual(s, job))
      BY <1>a DEF CommitVisual, Arm, Changed, ApplyScene
    <2>2. Steady(s, CommitAsImage(s, job))
      BY <1>a DEF CommitAsImage, Arm, Changed, ApplyScene
    <2> QED BY <2>1, <2>2
  <1>12. \A job, kind : Steady(s, CommitForeground(s, job, kind))
    BY <1>a DEF CommitForeground, Arm, Changed, ApplyScene
  <1> QED BY <1>1, <1>2, <1>3, <1>4, <1>5, <1>6, <1>7, <1>8, <1>9, <1>10, <1>11, <1>12

\* A cue found to be a still picture restores the foreground's intent.
LEMMA CommitAsImageFollows ==
  ASSUME NEW s \in Service, NEW job
  PROVE  Follows(s, CommitAsImage(s, job))
  <1> DEFINE phase == IF s.foreground.id = 0 THEN "stopped"
                      ELSE IF s.foreground.paused THEN "paused" ELSE "playing"
             restored ==
               [s EXCEPT !.activeCue = s.foreground.cue, !.state = phase,
                         !.paused = s.foreground.paused,
                         !.seekPending = s.foreground.seekPending,
                         !.foreground.transportRevision = s.transportRevision,
                         !.image = job.cue, !.imageCue = job.cue]
             u == Arm(restored, job)
  <1>1. CommitAsImage(s, job) = Changed(ApplyScene(u, FALSE)) BY DEF CommitAsImage
  <1>2. /\ DOMAIN restored = DOMAIN s /\ restored.sceneRevision = s.sceneRevision
        /\ restored.generation = s.generation
        /\ restored.transportRevision = s.transportRevision
        /\ restored.foreground = Retimed(s.foreground, s.foreground.paused, s.transportRevision)
        /\ restored.state # "loading"
    <2>1. /\ DOMAIN restored = DOMAIN s /\ restored.sceneRevision = s.sceneRevision
          /\ restored.generation = s.generation
          /\ restored.transportRevision = s.transportRevision
          /\ restored.state # "loading"
          /\ restored.foreground = [s.foreground EXCEPT !.transportRevision = s.transportRevision]
      BY DEF Service
    <2>2. [s.foreground EXCEPT !.transportRevision = s.transportRevision]
            = Retimed(s.foreground, s.foreground.paused, s.transportRevision)
      BY DEF Retimed, Service, Source
    <2> QED BY <2>1, <2>2
  <1> HIDE DEF restored
  <1>3. /\ DOMAIN u = DOMAIN s /\ u.sceneRevision = s.sceneRevision
        /\ u.generation = s.generation
        /\ u.transportRevision = s.transportRevision
        /\ u.foreground = Retimed(s.foreground, s.foreground.paused, s.transportRevision)
        /\ u.state # "loading"
    BY <1>2 DEF Arm, Service
  <1> HIDE DEF u
  <1>4. s.foreground \in Source /\ s.transportRevision \in Nat /\ s.foreground.paused \in BOOLEAN
    BY DEF Service, Source
  <1>5. /\ u.foreground \in Source /\ u.foreground.id = s.foreground.id
        /\ u.foreground.transportRevision = s.transportRevision
    BY <1>3, <1>4, RetimedType
  <1>6. /\ s.generation \in Nat /\ s.transportRevision \in Nat
        /\ s.scene.transportRevision \in Nat /\ s.scene.generation \in Nat
        /\ s.foreground.id \in Nat
    BY DEF Service, Scene, Source
  <1>7. HandedOver(s) => Asks(s, u, FALSE)
    BY <1>3, <1>5, <1>6 DEF Asks, HandedOver, Waits
  <1>8. Follows(s, ApplyScene(u, FALSE)) BY <1>3, <1>7, AskedFollows
  <1>9. Linked(ApplyScene(u, FALSE), Changed(ApplyScene(u, FALSE)))
    BY <1>3 DEF Linked, Changed, ApplyScene, Service
  <1> QED BY <1>1, <1>8, <1>9, LinkedFollows

\* A source found ready becomes the foreground of its own generation.
LEMMA CommitForegroundFollows ==
  ASSUME NEW s \in Service, NEW job \in Job, job.tag = s.generation, NEW kind \in Kinds
  PROVE  Follows(s, CommitForeground(s, job, kind))
  <1> DEFINE source == [id |-> job.tag, cue |-> job.cue, kind |-> kind, paused |-> s.paused,
                        seekPending |-> FALSE, transportRevision |-> s.transportRevision,
                        seekRevision |-> 0]
             started == [s EXCEPT !.foreground = source]
             u == IF kind = "video" THEN Arm(started, job) ELSE started
  <1>1. CommitForeground(s, job, kind) = Changed(ApplyScene(u, FALSE))
    BY DEF CommitForeground
  <1>2. source \in Source BY DEF Source, Job, Service
  <1>3. /\ source.id = s.generation /\ source.paused = s.paused
        /\ source.transportRevision = s.transportRevision
    OBVIOUS
  <1> HIDE DEF source
  <1>4. /\ DOMAIN started = DOMAIN s /\ started.sceneRevision = s.sceneRevision
        /\ started.generation = s.generation
        /\ started.transportRevision = s.transportRevision
        /\ started.foreground = source
        /\ started.state = s.state /\ started.paused = s.paused
    BY DEF Service
  <1> HIDE DEF started
  <1>5. /\ DOMAIN u = DOMAIN s /\ u.sceneRevision = s.sceneRevision
        /\ u.generation = s.generation
        /\ u.transportRevision = s.transportRevision
        /\ u.foreground = source
        /\ u.state = s.state /\ u.paused = s.paused
    BY <1>4 DEF Arm, Service
  <1> HIDE DEF u
  <1>6. /\ s.generation \in Nat /\ s.transportRevision \in Nat
        /\ s.scene.transportRevision \in Nat
    BY DEF Service, Scene
  <1>7. HandedOver(s) => Asks(s, u, FALSE)
    BY <1>2, <1>3, <1>5, <1>6 DEF Asks, HandedOver, Waits
  <1>8. Follows(s, ApplyScene(u, FALSE)) BY <1>5, <1>7, AskedFollows
  <1>9. Linked(ApplyScene(u, FALSE), Changed(ApplyScene(u, FALSE)))
    BY <1>5 DEF Linked, Changed, ApplyScene, Service
  <1> QED BY <1>1, <1>8, <1>9, LinkedFollows

\* An image found ready leaves the foreground alone.
LEMMA CommitVisualFollows ==
  ASSUME NEW s \in Service, NEW r, Linked(s, r), NEW job
  PROVE  Follows(s, CommitVisual(r, job))
  <1> DEFINE shown == [r EXCEPT !.image = job.cue, !.imageCue = job.cue, !.pendingImage = NoCue]
             u == Arm(shown, job)
  <1>1. Linked(s, shown) BY DEF Linked, Service
  <1>2. CommitVisual(r, job) = Changed(ApplyScene(u, FALSE)) BY DEF CommitVisual
  <1> HIDE DEF shown
  <1>3. Linked(s, u) BY <1>1 DEF Linked, Arm, Service
  <1> HIDE DEF u
  <1> QED BY <1>2, <1>3, SameFollows

\* A critical section may go on after it has handed over.
LEMMA MoreFollows ==
  ASSUME NEW s \in Service, NEW t \in Service, Follows(s, t)
  PROVE  /\ Follows(s, Changed(t)) /\ Follows(s, ApplyScene(t, FALSE))
         /\ Follows(s, Changed(ApplyScene(t, FALSE)))
         /\ \A cues, id : id \in CueRef => Follows(s, SelectBackground(t, cues, id))
         /\ \A u \in Service : Follows(t, u) => Follows(s, u)
  <1>1. ASSUME NEW u \in Service, Follows(t, u) PROVE Follows(s, u)
    <2>1. t.generation \in Nat /\ u.generation \in Nat /\ t.scene \in Scene /\ u.scene \in Scene
      BY DEF Service
    <2> QED BY <1>1, <2>1, FollowsOn
  <1>2. Linked(t, t) BY DEF Linked
  <1>3. /\ Changed(t) \in Service /\ ApplyScene(t, FALSE) \in Service
        /\ Changed(ApplyScene(t, FALSE)) \in Service
    BY ApplySceneType, MarkType
  <1>4. /\ Follows(t, Changed(t)) /\ Follows(t, ApplyScene(t, FALSE))
        /\ Follows(t, Changed(ApplyScene(t, FALSE)))
    BY <1>2, SameFollows
  <1>5. ASSUME NEW cues, NEW id \in CueRef PROVE Follows(s, SelectBackground(t, cues, id))
    <2> DEFINE u == SelectBackground(t, cues, id)
    <2>1. u \in Service BY SelectBackgroundType
    <2>3. Follows(t, u) BY <1>2, BackgroundFollows
    <2> HIDE DEF u
    <2>4. Follows(s, u) BY <1>1, <2>1, <2>3
    <2> QED BY <2>4 DEF u
  <1> QED BY <1>1, <1>3, <1>4, <1>5

\* With no source a loaded show leaves nothing to hand over.
LEMMA EmptiedFollows ==
  ASSUME NEW s \in Service, NEW r, Linked(s, r), s.foreground.id = 0
  PROVE  Follows(s, Emptied(r))
  <1> DEFINE t == Emptied(r)
  <1>1. /\ t.state = "stopped" /\ t.generation = s.generation + 1
        /\ t.transportRevision = s.transportRevision + 1
        /\ t.foreground = NoSource /\ t.sceneRevision = s.sceneRevision
        /\ t.scene = s.scene /\ t.closed = s.closed
    BY DEF Emptied, ClearActive, ClearImage, Invalidate, Linked, Service
  <1> HIDE DEF t
  <1>2. NoSource.id = 0 BY DEF NoSource
  <1>3. Follows(s, t)
    BY <1>1, <1>2 DEF Follows, HandedOver, Onward, Waits, Service, Scene
  <1> QED BY <1>3 DEF t

\* a critical section that is an input of its own advances the clock
Ticks == svc'.now = svc.now \/ (svc.now < MaxInputs /\ svc'.now = svc.now + 1)

\* what every critical section of the service has to show
Advances == Follows(svc, svc') /\ Ticks /\ LoadRests(svc', edit')

-----------------------------------------------------------------------------
(* Every critical section of the service. *)

\* What the entry of a critical section changes, and what the invariant says there.
LEMMA EntryFacts ==
  ASSUME PlaybackInv
  PROVE  /\ svc \in Service /\ Enter(svc) \in Service /\ Input(svc) \in Service
         /\ DOMAIN svc = DOMAIN InitialService
         /\ DOMAIN Enter(svc) = DOMAIN InitialService
         /\ DOMAIN Input(svc) = DOMAIN InitialService
         /\ Linked(svc, svc) /\ Linked(svc, Enter(svc)) /\ Linked(svc, Input(svc))
         /\ Enter(svc).now = svc.now /\ Input(svc).now = svc.now + 1
         /\ Enter(svc).configBusy = svc.configBusy /\ Input(svc).configBusy = svc.configBusy
         /\ config \in Config /\ edit \in Edit /\ loader \in Job
         /\ Resting(svc) => svc.foreground.id = 0
  <1>1. /\ svc \in Service /\ config \in Config /\ edit \in Edit /\ loader \in Job
        /\ Resting(svc) => svc.foreground.id = 0
    BY DEF PlaybackInv, ReservationInv, TypeOK, Settled
  <1>2. Enter(svc) \in Service /\ Input(svc) \in Service BY <1>1, MarkType
  <1>3. DOMAIN svc = DOMAIN InitialService BY <1>1 DEF Service, InitialService
  <1>4. /\ Linked(svc, svc) /\ Linked(svc, Enter(svc)) /\ Linked(svc, Input(svc))
        /\ Enter(svc).now = svc.now /\ Input(svc).now = svc.now + 1
        /\ Enter(svc).configBusy = svc.configBusy /\ Input(svc).configBusy = svc.configBusy
    BY <1>1 DEF Enter, Input, Linked, Service
  <1> QED BY <1>1, <1>2, <1>3, <1>4 DEF Linked

\* What a critical section of the service shows that keeps the operation.
LEMMA Inputs ==
  ASSUME PlaybackInv, LoadRests(svc, edit), edit' = edit, InputLeft, Follows(svc, svc'),
         Steady(Input(svc), svc'),
         (svc.configBusy /\ Resting(svc)) => Resting(svc')
  PROVE  Advances
  <1>1. svc'.now = svc.now + 1 /\ svc'.configBusy = svc.configBusy
    BY EntryFacts DEF Steady
  <1> QED BY <1>1 DEF Advances, Ticks, InputLeft, LoadRests

\* One that is not.
LEMMA Turns ==
  ASSUME PlaybackInv, LoadRests(svc, edit), edit' = edit, Follows(svc, svc'),
         Steady(Enter(svc), svc') \/ Steady(svc, svc'),
         (svc.configBusy /\ Resting(svc)) => Resting(svc')
  PROVE  Advances
  <1>1. svc'.now = svc.now /\ svc'.configBusy = svc.configBusy
    BY EntryFacts DEF Steady
  <1> QED BY <1>1 DEF Advances, Ticks, LoadRests

\* Controller commands.
LEMMA CommandsAdvance ==
  ASSUME PlaybackInv, LoadRests(svc, edit), Commands
  PROVE  Advances
  <1> DEFINE s == Input(svc)
  <1>1. /\ svc \in Service /\ s \in Service /\ Linked(svc, s)
        /\ DOMAIN s = DOMAIN InitialService
        /\ config \in Config
    BY EntryFacts
  <1>a. s.state = svc.state BY <1>1 DEF Linked
  <1>2. Follows(svc, s) BY <1>1, FollowsItself
  <1>3. ASSUME CommandOnly PROVE edit' = edit BY <1>3 DEF CommandOnly
  <1> HIDE DEF s
  <1>4. CASE SetMasterVolume
    <2>1. InputLeft /\ CommandOnly /\ svc' = Changed(ApplyScene(s, FALSE))
      BY <1>4 DEF SetMasterVolume, Admitted, s
    <2>2. Follows(svc, svc') BY <1>1, <1>2, <2>1, MoreFollows
    <2> DEFINE t == ApplyScene(s, FALSE)
    <2>3. Steady(s, t) /\ t.state = s.state BY <1>1, HelpersSteady DEF ApplyScene, Service
    <2> HIDE DEF t
    <2>4. Steady(s, Changed(t)) /\ Changed(t).state = s.state
      BY <1>1, <2>3 DEF Changed, Steady, InitialService
    <2> QED BY <1>a, <1>3, <2>1, <2>2, <2>4, Inputs DEF t, s, Resting
  <1>5. CASE PauseOrResume
    <2>1. PICK paused \in BOOLEAN : InputLeft /\ CommandOnly /\ svc' = SetPaused(s, paused)
                                    /\ ~svc.configBusy
      BY <1>5 DEF PauseOrResume, Admitted, Unblocked, s
    <2>2. Follows(svc, svc') BY <1>1, <2>1, PauseFollows
    <2>3. Steady(s, svc') BY <1>1, <2>1, HelpersSteady
    <2> QED BY <1>3, <2>1, <2>2, <2>3, Inputs DEF s
  <1>6. CASE Seek
    <2>1. InputLeft /\ CommandOnly /\ svc' = SetPosition(s) /\ ~svc.configBusy
          /\ svc.state # "loading"
      BY <1>6 DEF Seek, Admitted, Unblocked, CanSeek, s
    <2>2. Follows(svc, svc') BY <1>1, <2>1, SeekFollows
    <2>3. Steady(s, svc') BY <1>1, <2>1, HelpersSteady
    <2> QED BY <1>3, <2>1, <2>2, <2>3, Inputs DEF s
  <1>7. CASE PressImageAgain
    <2>1. InputLeft /\ CommandOnly /\ svc' = StopImage(s) /\ ~svc.configBusy
      BY <1>7 DEF PressImageAgain, Pressed, Admitted, Unblocked, s
    <2>2. Follows(svc, svc') BY <1>1, <2>1, ImageFollows
    <2>3. Steady(s, svc') BY <1>1, <2>1, HelpersSteady
    <2> QED BY <1>3, <2>1, <2>2, <2>3, Inputs DEF s
  <1>8. CASE PressForegroundAgain
    <2>1. InputLeft /\ CommandOnly /\ svc' = SetPaused(s, ~svc.paused) /\ ~svc.configBusy
      BY <1>8 DEF PressForegroundAgain, Pressed, Admitted, Unblocked, s
    <2>2. (~svc.paused) \in BOOLEAN OBVIOUS
    <2>3. Follows(svc, svc') BY <1>1, <2>1, <2>2, PauseFollows
    <2>4. Steady(s, svc') BY <1>1, <2>1, <2>2, HelpersSteady
    <2> QED BY <1>3, <2>1, <2>3, <2>4, Inputs DEF s
  <1>9. CASE PressBackgroundAgain \/ PressBackground
    <2> DEFINE r == [s EXCEPT !.backgroundOverride = NoCue]
    <2>1. PICK v \in CueRef, id \in CueRef :
             /\ InputLeft /\ CommandOnly /\ ~svc.configBusy
             /\ svc' = Changed(SelectBackground([s EXCEPT !.backgroundOverride = v],
                                                config.cues, id))
      <3>1. config.defaultBackground \in CueRef /\ NoCue \in CueRef
        BY <1>1 DEF Config, CueRef
      <3>2. CASE PressBackgroundAgain
        BY <3>1, <3>2 DEF PressBackgroundAgain, Pressed, Admitted, Unblocked,
              ClearBackgroundOverride, s
      <3>3. CASE PressBackground
        BY <3>3 DEF PressBackground, Pressed, Admitted, Unblocked, CueRef, s
      <3> QED BY <1>9, <3>2, <3>3
    <2> DEFINE x == [s EXCEPT !.backgroundOverride = v]
               t == SelectBackground(x, config.cues, id)
    <2>2. x \in Service BY <1>1, CueFields
    <2>3. Linked(svc, x) BY <1>1 DEF Linked, Service
    <2>4. Steady(s, x) /\ DOMAIN x = DOMAIN InitialService
      BY <1>1 DEF Steady, InitialService
    <2> HIDE DEF x
    <2>5. t \in Service BY <2>2, SelectBackgroundType
    <2>6. Follows(svc, t) BY <1>1, <2>3, BackgroundFollows
    <2>7. Steady(x, t) BY <2>4, HelpersSteady
    <2> HIDE DEF t
    <2>8. Follows(svc, Changed(t)) BY <1>1, <2>5, <2>6, MoreFollows
    <2>9. Steady(t, Changed(t)) BY <2>4, <2>7, HelpersSteady DEF Steady
    <2>10. svc' = Changed(t) BY <2>1 DEF t, x
    <2>11. Steady(s, svc') BY <2>4, <2>7, <2>9, <2>10 DEF Steady
    <2> QED BY <1>3, <2>1, <2>8, <2>10, <2>11, Inputs DEF s
  <1>10. CASE PressImage
    <2>1. PICK cue \in Cues :
             InputLeft /\ CommandOnly /\ svc' = Changed(SelectImage(s, cue)) /\ ~svc.configBusy
      BY <1>10 DEF PressImage, Pressed, Admitted, Unblocked, s
    <2>2. Follows(svc, svc') BY <1>1, <2>1, ImageFollows
    <2> DEFINE t == SelectImage(s, cue)
    <2>3. Steady(s, t) BY <1>1, HelpersSteady
    <2> HIDE DEF t
    <2>4. Steady(t, Changed(t)) BY <1>1, <2>3, HelpersSteady DEF Steady
    <2>5. Steady(s, svc') BY <2>1, <2>3, <2>4 DEF Steady, t
    <2> QED BY <1>3, <2>1, <2>2, <2>5, Inputs DEF s
  <1>11. CASE PressForeground
    <2>1. PICK cue \in Cues :
             InputLeft /\ CommandOnly /\ svc' = SelectForeground(s, cue) /\ ~svc.configBusy
      BY <1>11 DEF PressForeground, Pressed, Admitted, Unblocked, s
    <2>2. Follows(svc, svc') BY <1>1, <2>1, ForegroundFollows
    <2>3. Steady(s, svc') BY <1>1, <2>1, HelpersSteady
    <2> QED BY <1>3, <2>1, <2>2, <2>3, Inputs DEF s
  <1>12. ASSUME NEW d \in Service, Linked(svc, d), Steady(s, d), NEW hard \in BOOLEAN
         PROVE  LET h == StopForeground(d, TRUE, hard) IN
                /\ h \in Service /\ Follows(svc, h) /\ Steady(s, h) /\ Resting(h)
                /\ h.closed = svc.closed
    <2>1. DOMAIN d = DOMAIN InitialService BY <1>1, <1>12 DEF Steady
    <2>2. Steady(d, StopForeground(d, TRUE, hard)) BY <2>1, HelpersSteady
    <2>3. Steady(s, StopForeground(d, TRUE, hard)) BY <1>12, <2>2 DEF Steady
    <2>4. Follows(svc, StopForeground(d, TRUE, hard)) BY <1>1, <1>12, StopFollows
    <2>5. Resting(StopForeground(d, TRUE, hard)) /\ StopForeground(d, TRUE, hard) \in Service
      BY <1>12, StopForegroundRests
    <2>6. StopForeground(d, TRUE, hard).closed = svc.closed
      BY <1>12 DEF Linked, StopForeground, Changed, ApplyScene, ClearImage, ClearActive,
                   Invalidate, Service
    <2> QED BY <2>3, <2>4, <2>5, <2>6
  <1>13. ASSUME NEW h \in Service, Follows(svc, h), Steady(s, h), Resting(h),
                InputLeft, CommandOnly, svc' \in Halted(h)
         PROVE  Advances
    <2> DEFINE e == Rested(h, "error")
    <2>1. svc' = h \/ svc' = e BY <1>13 DEF Halted, Rested
    <2>2. Follows(h, e) BY <1>13, RestedFollows
    <2>3. e \in Service BY <1>13, OtherFields DEF Rested, Phases
    <2>4. Follows(svc, e) BY <1>1, <1>13, <2>2, <2>3, MoreFollows
    <2>5. Steady(s, e)
      <3>1. DOMAIN h = DOMAIN InitialService BY <1>1, <1>13 DEF Steady
      <3>2. Steady(h, e) BY <3>1, HelpersSteady
      <3> HIDE DEF e
      <3> QED BY <1>13, <3>2 DEF Steady
    <2>6. Resting(e) BY <1>13 DEF Rested, Resting, Service
    <2> HIDE DEF e
    <2>7. Follows(svc, svc') /\ Steady(s, svc') /\ Resting(svc')
      BY <1>13, <2>1, <2>4, <2>5, <2>6
    <2> QED BY <1>3, <1>13, <2>7, Inputs DEF s
  <1>14. CASE Stop
    <2>1. InputLeft /\ CommandOnly /\ svc' \in Halted(StopForeground(s, TRUE, FALSE))
      BY <1>14 DEF Stop, s
    <2>2. Steady(s, s) BY DEF Steady
    <2> QED BY <1>1, <1>12, <1>13, <2>1, <2>2
  <1>15. /\ Disarm(s) \in Service /\ Linked(svc, Disarm(s)) /\ Steady(s, Disarm(s))
         /\ LET e == [Disarm(s) EXCEPT !.stageEnabled = FALSE] IN
            e \in Service /\ Linked(svc, e) /\ Steady(s, e)
    <2> DEFINE d == Disarm(s)
    <2>1. d \in Service BY <1>1, DisarmType
    <2>2. Linked(svc, d) BY <1>1 DEF Linked, Disarm, Service
    <2>3. Steady(s, d) BY <1>1, HelpersSteady
    <2> DEFINE e == [d EXCEPT !.stageEnabled = FALSE]
    <2> HIDE DEF d
    <2>4. e \in Service BY <2>1, BoolFields
    <2>5. Linked(svc, e) BY <2>1, <2>2 DEF Linked, Service
    <2>6. Steady(s, e) BY <2>1, <2>3 DEF Steady, Service
    <2> QED BY <2>1, <2>2, <2>3, <2>4, <2>5, <2>6 DEF d
  <1>16. CASE EmergencyStop
    <2> DEFINE e == [Disarm(s) EXCEPT !.stageEnabled = FALSE]
    <2>1. InputLeft /\ CommandOnly /\ svc' \in Halted(StopForeground(e, TRUE, TRUE))
      BY <1>16 DEF EmergencyStop, s
    <2>2. e \in Service /\ Linked(svc, e) /\ Steady(s, e) BY <1>15
    <2> HIDE DEF e
    <2> QED BY <1>1, <1>12, <1>13, <2>1, <2>2
  <1>17. CASE Close
    <2> DEFINE d == Disarm(s)
               h == StopForeground(d, TRUE, TRUE)
               t == [h EXCEPT !.closed = TRUE]
    <2>1. InputLeft /\ CommandOnly /\ svc' = t BY <1>17 DEF Close, s
    <2>2. d \in Service /\ Linked(svc, d) /\ Steady(s, d) BY <1>15
    <2>3. h.sceneRevision = svc.sceneRevision + 1 /\ svc.sceneRevision \in Nat
      <3>1. h.sceneRevision = d.sceneRevision + 1
        BY <2>2 DEF StopForeground, Changed, ApplyScene, ClearImage, ClearActive, Invalidate,
                    Service
      <3> QED BY <1>1, <2>2, <3>1 DEF Linked, Service
    <2> HIDE DEF d
    <2>4. h \in Service /\ Follows(svc, h) /\ Steady(s, h) /\ Resting(h) BY <1>12, <2>2
    <2> HIDE DEF h
    <2>5. /\ t.state = h.state /\ t.generation = h.generation
          /\ t.transportRevision = h.transportRevision /\ t.paused = h.paused
          /\ t.foreground = h.foreground /\ t.sceneRevision = h.sceneRevision
          /\ t.scene = h.scene /\ t.closed = TRUE /\ DOMAIN t = DOMAIN h
          /\ t.now = h.now /\ t.configBusy = h.configBusy
      BY <2>4 DEF Service
    <2> HIDE DEF t
    <2>6. Follows(svc, t)
      BY <2>3, <2>4, <2>5 DEF Follows, HandedOver, Onward, Waits
    <2>7. Steady(s, t) /\ Resting(t) BY <2>4, <2>5 DEF Steady, Resting
    <2> QED BY <1>3, <2>1, <2>6, <2>7, Inputs DEF s
  <1> QED BY <1>4, <1>5, <1>6, <1>7, <1>8, <1>9, <1>10, <1>11, <1>14, <1>16, <1>17 DEF Commands

\* The three workers.
LEMMA PreparationAdvances ==
  ASSUME PlaybackInv, LoadRests(svc, edit), Preparation
  PROVE  Advances
  <1> DEFINE s == Enter(svc)
  <1>1. /\ svc \in Service /\ s \in Service /\ Linked(svc, s) /\ Linked(svc, svc)
        /\ DOMAIN s = DOMAIN InitialService /\ config \in Config /\ loader \in Job
    BY EntryFacts
  <1>2. s.state = svc.state /\ s.generation = svc.generation BY <1>1 DEF Linked
  <1>3. edit' = edit
    BY DEF Preparation, TakeLoad, FinishLoad, DropLoad, TakeImage, FinishImage, DropImage,
           TakeBackground, FinishBackground, DropBackground
  <1> HIDE DEF s
  <1>4. CASE TakeLoad \/ TakeImage \/ TakeBackground \/ DropLoad \/ DropImage \/ DropBackground
    <2>1. /\ svc' \in {svc, [svc EXCEPT !.loads = NoJob], [svc EXCEPT !.visualLoads = NoJob],
                       [svc EXCEPT !.backgroundLoads = NoJob]}
      BY <1>4 DEF TakeLoad, TakeImage, TakeBackground, DropLoad, DropImage, DropBackground
    <2>2. Linked(svc, svc') /\ Steady(svc, svc') BY <1>1, <2>1 DEF Linked, Steady, Service
    <2>3. Follows(svc, svc') BY <1>1, <2>2, FollowsItself
    <2> QED BY <1>3, <2>2, <2>3, Turns DEF Linked, Resting
  <1>5. CASE FinishLoad
    <2>1. PICK found \in Findings, outputs \in BOOLEAN :
            /\ LoadIsCurrent(loader)
            /\ svc' = CASE found \notin Kinds \/ ~outputs -> Fail(s)
                        [] found = "image" /\ outputs -> CommitAsImage(s, loader)
                        [] found \in {"audio", "video"} /\ outputs ->
                             CommitForeground(s, loader, found)
      BY <1>5 DEF FinishLoad, s
    <2>2. ~Resting(svc) /\ loader.tag = s.generation
      BY <1>2, <2>1 DEF LoadIsCurrent, Resting
    <2>3. \/ svc' = Fail(s) \/ svc' = CommitAsImage(s, loader)
          \/ found \in Kinds /\ svc' = CommitForeground(s, loader, found)
      BY <2>1 DEF Kinds, Findings
    <2>4. Follows(svc, svc') /\ Steady(s, svc')
      <3>1. CASE svc' = Fail(s) BY <1>1, <3>1, FailFollows, HelpersSteady
      <3>2. CASE svc' = CommitAsImage(s, loader)
        <4>1. Follows(s, svc') BY <1>1, <3>2, CommitAsImageFollows
        <4>2. Follows(svc, svc') BY <1>1, <4>1, LinkedStarts
        <4> QED BY <1>1, <3>2, <4>2, HelpersSteady
      <3>3. CASE found \in Kinds /\ svc' = CommitForeground(s, loader, found)
        <4>1. Follows(s, svc') BY <1>1, <2>2, <3>3, CommitForegroundFollows
        <4>2. Follows(svc, svc') BY <1>1, <4>1, LinkedStarts
        <4> QED BY <1>1, <3>3, <4>2, HelpersSteady
      <3> QED BY <2>3, <3>1, <3>2, <3>3
    <2> QED BY <1>3, <2>2, <2>4, Turns DEF s
  <1>6. ASSUME NEW x, Linked(svc, x), Steady(s, x), svc' = Changed(ApplyScene(x, FALSE))
        PROVE  Advances
    <2> DEFINE y == ApplyScene(x, FALSE)
    <2>1. Follows(svc, svc') BY <1>1, <1>6, SameFollows
    <2>2. Steady(x, y) /\ y.state = x.state
      BY <1>1, <1>6, HelpersSteady DEF Steady, ApplyScene, InitialService
    <2> HIDE DEF y
    <2>3. Steady(y, Changed(y)) /\ Changed(y).state = y.state
      BY <1>1, <1>6, <2>2 DEF Steady, Changed, InitialService
    <2>4. Steady(s, svc') /\ svc'.state = svc.state
      BY <1>6, <2>2, <2>3 DEF Steady, Linked, y
    <2> QED BY <1>3, <2>1, <2>4, Turns DEF s, Resting
  <1>7. CASE FinishImage
    <2> DEFINE shown == [s EXCEPT !.image = imageWorker.cue, !.imageCue = imageWorker.cue,
                                  !.pendingImage = NoCue]
               armed == Arm(shown, imageWorker)
               rest == [s EXCEPT !.pendingImage = NoCue]
    <2>1. svc' \in {Changed(ApplyScene(armed, FALSE)), Changed(ApplyScene(rest, FALSE))}
      BY <1>7 DEF FinishImage, CommitVisual, s
    <2>2. Linked(svc, shown) /\ Steady(s, shown) BY <1>1 DEF Linked, Steady, Service
    <2>3. Linked(svc, rest) /\ Steady(s, rest) BY <1>1 DEF Linked, Steady, Service
    <2> HIDE DEF shown, rest
    <2>4. Linked(svc, armed) /\ Steady(s, armed)
      BY <1>1, <2>2 DEF Arm, Linked, Steady, Service
    <2> HIDE DEF armed
    <2> QED BY <1>6, <2>1, <2>3, <2>4
  <1>8. CASE FinishBackground
    <2>1. PICK cue : svc' = Changed(ApplyScene([s EXCEPT !.background = cue], FALSE))
      BY <1>8 DEF FinishBackground, s
    <2> DEFINE x == [s EXCEPT !.background = cue]
    <2>2. Linked(svc, x) /\ Steady(s, x) BY <1>1 DEF Linked, Steady, Service
    <2> HIDE DEF x
    <2> QED BY <1>6, <2>1, <2>2 DEF x
  <1> QED BY <1>4, <1>5, <1>7, <1>8 DEF Preparation

\* The update reservation.
LEMMA UpdateAdvances ==
  ASSUME PlaybackInv, LoadRests(svc, edit), Update
  PROVE  Advances
  <1>1. /\ svc \in Service /\ Input(svc) \in Service /\ Enter(svc) \in Service
        /\ Linked(svc, Enter(svc))
    BY EntryFacts
  <1>2. edit' = edit BY DEF Update, ReserveUpdate, ReleaseUpdate, CommandOnly
  <1>3. CASE ReserveUpdate
    <2>1. /\ InputLeft /\ svc.state = "stopped"
          /\ svc' = Changed([Invalidate(Input(svc)) EXCEPT !.stopEpoch = @ + 1,
                                                           !.updatePending = TRUE])
      BY <1>3 DEF ReserveUpdate
    <2>2. /\ svc'.state = "stopped" /\ svc'.generation = svc.generation + 1
          /\ svc'.transportRevision = svc.transportRevision + 1
          /\ svc'.foreground = svc.foreground /\ svc'.sceneRevision = svc.sceneRevision
          /\ svc'.scene = svc.scene /\ svc'.closed = svc.closed
      BY <1>1, <2>1 DEF Invalidate, Changed, Input, Service
    <2>3. Follows(svc, svc')
      BY <1>1, <2>2 DEF Follows, HandedOver, Onward, Waits, Service, Scene, Source
    <2>4. Steady(Input(svc), svc') BY <1>1, <2>1 DEF Steady, Invalidate, Changed, Input, Service
    <2> QED BY <1>2, <2>1, <2>2, <2>3, <2>4, Inputs DEF Resting
  <1>4. CASE ReleaseUpdate
    <2>1. svc' = Changed([Enter(svc) EXCEPT !.updatePending = FALSE]) BY <1>4 DEF ReleaseUpdate
    <2>2. Linked(svc, svc') /\ Steady(Enter(svc), svc')
      BY <1>1, <2>1 DEF Linked, Steady, Changed, Enter, Service
    <2>3. Follows(svc, svc') BY <1>1, <2>2, FollowsItself
    <2> QED BY <1>2, <2>2, <2>3, Turns DEF Linked, Resting
  <1> QED BY <1>3, <1>4 DEF Update

\* The stage.
LEMMA StageAdvances ==
  ASSUME PlaybackInv, LoadRests(svc, edit), Stage
  PROVE  Advances
  <1> DEFINE s == Input(svc)
             t == Enter(svc)
  <1>1. /\ svc \in Service /\ s \in Service /\ t \in Service /\ Linked(svc, svc)
        /\ Linked(svc, t) /\ Linked(svc, s)
    BY EntryFacts
  <1>2. edit' = edit
    BY DEF Stage, StageOff, StageOnBegin, StageOnEnd, StageOnRefused, CommandOnly
  <1> HIDE DEF s, t
  <1>3. CASE StageOff
    <2> DEFINE x == [Disarm(s) EXCEPT !.stageEnablePending = FALSE]
    <2>1. InputLeft /\ svc' = Changed(ApplyScene(x, FALSE)) BY <1>3 DEF StageOff, s
    <2>2. Linked(svc, x) /\ Steady(s, x) BY <1>1 DEF Disarm, Linked, Steady, Service
    <2> HIDE DEF x
    <2>3. Follows(svc, svc') BY <1>1, <2>1, <2>2, SameFollows
    <2>4. Steady(s, svc') /\ svc'.state = svc.state
      BY <1>1, <2>1, <2>2 DEF Linked, Steady, Changed, ApplyScene, Service
    <2> QED BY <1>2, <2>1, <2>3, <2>4, Inputs DEF Resting, s
  <1>4. CASE StageOnBegin
    <2>1. InputLeft /\ svc' = [s EXCEPT !.stageSerial = @ + 1] BY <1>4 DEF StageOnBegin, s
    <2>2. Linked(svc, svc') /\ Steady(s, svc') BY <1>1, <2>1 DEF Linked, Steady, Service
    <2>3. Follows(svc, svc') BY <1>1, <2>2, FollowsItself
    <2> QED BY <1>2, <2>1, <2>2, <2>3, Inputs DEF Linked, Resting, s
  <1>5. CASE StageOnEnd
    <2>1. PICK at : svc' = Changed([ApplyScene([t EXCEPT !.stageDesired = TRUE, !.armedAt = at],
                                               FALSE)
                                    EXCEPT !.stageEnablePending = TRUE])
      BY <1>5 DEF StageOnEnd, t
    <2> DEFINE x == [t EXCEPT !.stageDesired = TRUE, !.armedAt = at]
               y == ApplyScene(x, FALSE)
    <2>2. Linked(svc, x) /\ Steady(t, x) BY <1>1 DEF Linked, Steady, Service
    <2> HIDE DEF x
    <2>3. Follows(svc, y) BY <1>1, <2>2, SameFollows
    <2>4. /\ y.state = svc.state /\ DOMAIN y = DOMAIN svc /\ Steady(t, y)
      BY <1>1, <2>2 DEF Linked, Steady, ApplyScene, Service
    <2>5. svc' = Changed([y EXCEPT !.stageEnablePending = TRUE]) BY <2>1 DEF x
    <2> HIDE DEF y
    <2>6. Linked(y, svc') /\ Steady(y, svc')
      BY <1>1, <2>4, <2>5 DEF Linked, Steady, Changed, Service
    <2>7. Follows(svc, svc') BY <2>3, <2>6, LinkedFollows
    <2>8. Steady(t, svc') /\ svc'.state = svc.state BY <2>4, <2>6 DEF Linked, Steady
    <2> QED BY <1>2, <2>7, <2>8, Turns DEF Resting, t
  <1>6. CASE StageOnRefused
    <2>1. svc' = svc BY <1>6 DEF StageOnRefused
    <2>2. Follows(svc, svc') BY <1>1, <2>1, FollowsItself
    <2> QED BY <1>2, <2>1, <2>2, Turns DEF Steady
  <1> QED BY <1>3, <1>4, <1>5, <1>6 DEF Stage

\* An operation on the saved show.
LEMMA ShowAdvances ==
  ASSUME PlaybackInv, LoadRests(svc, edit), Show
  PROVE  Advances
  <1> DEFINE s == Enter(svc)
  <1>1. /\ svc \in Service /\ s \in Service /\ Input(svc) \in Service /\ Linked(svc, svc)
        /\ Linked(svc, s) /\ Linked(svc, Input(svc)) /\ DOMAIN s = DOMAIN InitialService
        /\ s.now = svc.now /\ Input(svc).now = svc.now + 1
        /\ config \in Config /\ edit \in Edit
        /\ Resting(svc) => svc.foreground.id = 0
    BY EntryFacts
  <1>2. NoEdit.op = "none" /\ ~NoEdit.saving BY DEF NoEdit
  <1> HIDE DEF s
  <1>3. ASSUME Follows(svc, svc'), svc'.now = svc.now, edit'.op # "load" \/ ~edit'.saving
        PROVE  Advances
    BY <1>3 DEF Advances, Ticks, LoadRests
  <1>4. ASSUME Linked(svc, svc'), edit'.op # "load" \/ ~edit'.saving,
               svc'.now = svc.now \/ (InputLeft /\ svc'.now = svc.now + 1)
        PROVE  Advances
    <2>1. Follows(svc, svc') BY <1>1, <1>4, FollowsItself
    <2> QED BY <1>4, <2>1 DEF Advances, Ticks, LoadRests, InputLeft
  <1>5. CASE Refuse \/ PrepareStage
    <2>1. svc' = svc /\ (edit'.op # "load" \/ ~edit'.saving)
      BY <1>1, <1>2, <1>5 DEF Refuse, PrepareStage, Edit
    <2> QED BY <1>1, <1>4, <2>1
  <1>6. CASE SaveFailed
    <2>1. edit' = NoEdit BY <1>6 DEF SaveFailed
    <2>2. Linked(svc, svc') /\ svc'.now = svc.now
      BY <1>1, <1>6 DEF SaveFailed, Linked, Service, s
    <2> QED BY <1>2, <1>4, <2>1, <2>2
  <1>7. CASE BeginPlaylist \/ BeginStage \/ BeginLoad
    <2>1. InputLeft /\ svc' = Input(svc) /\ ~edit'.saving
      BY <1>2, <1>7 DEF BeginPlaylist, BeginStage, BeginLoad, Begin, NoEdit
    <2> QED BY <1>1, <1>4, <2>1
  <1>8. CASE PreparePlaylist
    <2>1. PICK removing : svc' = [s EXCEPT !.removing = removing]
      BY <1>8 DEF PreparePlaylist, s
    <2>2. edit'.op # "load" BY <1>1, <1>8 DEF PreparePlaylist, Edit
    <2>3. Linked(svc, svc') /\ svc'.now = svc.now BY <1>1, <2>1 DEF Linked, Service
    <2> QED BY <1>4, <2>2, <2>3
  <1>9. CASE ConfigureOutputs
    <2>1. InputLeft /\ svc' = [Input(svc) EXCEPT !.configBusy = TRUE] BY <1>9 DEF ConfigureOutputs
    <2>2. edit'.op # "load" BY <1>9 DEF ConfigureOutputs, NoEdit
    <2>3. Linked(svc, svc') /\ svc'.now = svc.now + 1 BY <1>1, <2>1 DEF Linked, Service
    <2> QED BY <1>4, <2>1, <2>2, <2>3
  <1>10. CASE PrepareLoad
    <2>1. svc' = [s EXCEPT !.configBusy = TRUE] /\ Resting(svc)
      BY <1>10 DEF PrepareLoad, CanLoadPlaylist, Resting, s
    <2>2. Linked(svc, svc') /\ svc'.now = svc.now /\ svc'.configBusy
      BY <1>1, <2>1 DEF Linked, Service
    <2>3. Follows(svc, svc') BY <1>1, <2>2, FollowsItself
    <2> QED BY <2>1, <2>2, <2>3 DEF Advances, Ticks, LoadRests, Resting, Linked
  <1>11. ASSUME NEW r \in Service, NEW show \in Config, Linked(svc, r), r.now = svc.now
         PROVE  LET t == ClearBackgroundOverride(r, show) IN
                t \in Service /\ Follows(svc, t) /\ t.now = svc.now
    <2> DEFINE x == [r EXCEPT !.backgroundOverride = NoCue]
               t == SelectBackground(x, show.cues, show.defaultBackground)
    <2>1. NoCue \in CueRef /\ show.defaultBackground \in CueRef BY DEF Config, CueRef
    <2>2. x \in Service BY <2>1, CueFields
    <2>3. Linked(svc, x) /\ x.now = svc.now BY <1>11 DEF Linked, Service
    <2>4. DOMAIN x = DOMAIN InitialService BY <1>11 DEF Service, InitialService
    <2> HIDE DEF x
    <2>5. t \in Service BY <2>1, <2>2, SelectBackgroundType
    <2>6. Follows(svc, t) BY <1>1, <2>3, BackgroundFollows
    <2>7. t.now = svc.now BY <2>3, <2>4, HelpersSteady DEF Steady
    <2> HIDE DEF t
    <2> QED BY <2>5, <2>6, <2>7 DEF ClearBackgroundOverride, t, x
  <1>12. ASSUME NEW t \in Service, Follows(svc, t), t.now = svc.now
         PROVE  /\ ApplyScene(t, FALSE) \in Service
                /\ Follows(svc, Changed(t)) /\ Changed(t).now = svc.now
                /\ Follows(svc, Changed(ApplyScene(t, FALSE)))
                /\ Changed(ApplyScene(t, FALSE)).now = svc.now
    <2>1. Changed(t).now = svc.now /\ Changed(ApplyScene(t, FALSE)).now = svc.now
      BY <1>12 DEF Changed, ApplyScene, Service
    <2> QED BY <1>1, <1>12, <2>1, MoreFollows, ApplySceneType
  <1>13. CASE CommitPlaylist
    <2> DEFINE idle == [s EXCEPT !.removing = {}]
               settled == IF LosesBackground
                           THEN ClearBackgroundOverride(idle, EditedConfig) ELSE idle
    <2>1. svc' \in {Changed(settled), Changed(ApplyScene(settled, FALSE))} /\ edit' = NoEdit
      BY <1>13 DEF CommitPlaylist, s
    <2>2. EditedConfig \in Config BY <1>1, EditedType
    <2>3. idle \in Service BY <1>1, OtherFields
    <2>4. Linked(svc, idle) /\ idle.now = svc.now BY <1>1 DEF Linked, Service
    <2> HIDE DEF idle
    <2>5. Follows(svc, idle) BY <1>1, <2>4, FollowsItself
    <2>6. settled \in Service /\ Follows(svc, settled) /\ settled.now = svc.now
      BY <1>11, <2>2, <2>3, <2>4, <2>5
    <2> HIDE DEF settled
    <2> QED BY <1>2, <1>3, <1>12, <2>1, <2>6
  <1>14. CASE CommitOutputs
    <2> DEFINE dark == Disarm(s)
               idle == [dark EXCEPT
                    !.configBusy = FALSE, !.outputFault = FALSE, !.stageEnabled = FALSE]
               h == StopForeground(idle, TRUE, TRUE)
               broken == Rested(h, "error")
    <2>1. PICK halted : /\ halted \in {h, broken} /\ edit' = NoEdit
                        /\ svc' = SelectBackground(halted, config.cues, svc.backgroundCue)
      BY <1>14, Zenon DEF CommitOutputs, Halted, Rested, s
    <2>2. dark \in Service BY <1>1, DisarmType
    <2>3. Linked(svc, dark) /\ dark.now = svc.now BY <1>1 DEF Disarm, Linked, Service
    <2> HIDE DEF dark
    <2>4. idle \in Service BY <2>2, BoolFields, ZenonT(30)
    <2>5. Linked(svc, idle) /\ idle.now = svc.now /\ DOMAIN idle = DOMAIN InitialService
      BY <2>2, <2>3 DEF Linked, Service, InitialService
    <2> HIDE DEF idle
    <2>6. h \in Service /\ Follows(svc, h) BY <1>1, <2>4, <2>5, StopForegroundRests, StopFollows
    <2>7. h.now = svc.now /\ DOMAIN h = DOMAIN InitialService
      BY <2>5, HelpersSteady DEF Steady
    <2> HIDE DEF h
    <2>8. broken \in Service BY <2>6, OtherFields DEF Rested, Phases
    <2>9. Follows(h, broken) BY <2>6, RestedFollows
    <2>10. Follows(svc, broken) BY <1>1, <2>6, <2>8, <2>9, MoreFollows
    <2>11. broken.now = svc.now /\ DOMAIN broken = DOMAIN InitialService
      BY <2>7 DEF Rested, InitialService
    <2> HIDE DEF broken
    <2>12. /\ halted \in Service /\ Follows(svc, halted)
           /\ halted.now = svc.now /\ DOMAIN halted = DOMAIN InitialService
      BY <2>1, <2>6, <2>7, <2>8, <2>10, <2>11
    <2>13. svc.backgroundCue \in CueRef BY <1>1 DEF Service
    <2>14. Follows(svc, svc') BY <1>1, <2>1, <2>12, <2>13, MoreFollows
    <2>15. svc'.now = svc.now BY <2>1, <2>12, HelpersSteady DEF Steady
    <2> QED BY <1>2, <1>3, <2>1, <2>14, <2>15
  <1>15. CASE CommitStage
    <2> DEFINE show == [config EXCEPT !.defaultBackground = edit.default]
               chosen == IF config.defaultBackground # edit.default
                          THEN ClearBackgroundOverride(s, show)
                          ELSE IF edit.reselect
                          THEN SelectBackground(s, config.cues, svc.backgroundCue) ELSE s
    <2>1. svc' \in {s, Changed(ApplyScene(chosen, FALSE))} /\ edit' = NoEdit
      <3>1. config' = show BY <1>15 DEF CommitStage
      <3>2. svc' = IF svc.closed THEN s ELSE Changed(ApplyScene(
                     IF config.defaultBackground # edit.default
                          THEN ClearBackgroundOverride(s, config')
                          ELSE IF edit.reselect
                          THEN SelectBackground(s, config.cues, svc.backgroundCue) ELSE s, FALSE))
        BY <1>15, Zenon DEF CommitStage, s
      <3>3. edit' = NoEdit BY <1>15 DEF CommitStage
      <3> HIDE DEF show
      <3> QED BY <3>1, <3>2, <3>3
    <2>2. show \in Config BY <1>1 DEF Config, Edit
    <2> HIDE DEF show
    <2>3. Follows(svc, s) BY <1>1, FollowsItself
    <2>4. /\ ClearBackgroundOverride(s, show) \in Service
          /\ Follows(svc, ClearBackgroundOverride(s, show))
          /\ ClearBackgroundOverride(s, show).now = svc.now
      BY <1>1, <1>11, <2>2
    <2>5. svc.backgroundCue \in CueRef BY <1>1 DEF Service
    <2>6. LET t == SelectBackground(s, config.cues, svc.backgroundCue) IN
          t \in Service /\ Follows(svc, t) /\ t.now = svc.now
      BY <1>1, <2>5, SelectBackgroundType, BackgroundFollows, HelpersSteady DEF Steady
    <2>7. chosen \in Service /\ Follows(svc, chosen) /\ chosen.now = svc.now
      BY <1>1, <2>3, <2>4, <2>6
    <2> HIDE DEF chosen
    <2> QED BY <1>1, <1>2, <1>3, <1>12, <2>1, <2>3, <2>7
  <1>16. CASE CommitLoad
    <2> DEFINE x == Emptied(s)
    <2>1. /\ edit.op = "load" /\ edit.saving /\ edit' = NoEdit
          /\ svc' \in {x, Changed(SelectBackground(x, edit.cues, edit.default))}
      BY <1>16 DEF CommitLoad, Emptied, s
    <2>2. svc.foreground.id = 0 BY <1>1, <2>1 DEF LoadRests
    <2>3. Follows(svc, x) BY <1>1, <2>2, EmptiedFollows
    <2>4. x \in Service BY <1>1, EmptiedType
    <2>5. x.now = svc.now BY <1>1 DEF Emptied, ClearImage, ClearActive, Invalidate, Service
    <2>6. DOMAIN x = DOMAIN InitialService BY <2>4 DEF Service, InitialService
    <2> HIDE DEF x
    <2> DEFINE t == SelectBackground(x, edit.cues, edit.default)
    <2>7. edit.default \in CueRef BY <1>1 DEF Edit
    <2>8. t \in Service BY <2>4, <2>7, SelectBackgroundType
    <2>9. Follows(svc, t) BY <1>1, <2>3, <2>4, <2>7, MoreFollows
    <2>11. Steady(x, t) BY <2>6, HelpersSteady
    <2>10. t.now = svc.now BY <2>5, <2>11, Zenon DEF Steady
    <2> HIDE DEF t
    <2> QED BY <1>2, <1>3, <1>12, <2>1, <2>3, <2>5, <2>8, <2>9, <2>10 DEF t
  <1> QED BY <1>5, <1>6, <1>7, <1>8, <1>9, <1>10, <1>13, <1>14, <1>15, <1>16 DEF Show

\* Every critical section of the service.
LEMMA ServiceAdvances ==
  ASSUME PlaybackInv, LoadRests(svc, edit),
         Commands \/ Preparation \/ Update \/ Stage \/ Show
  PROVE  Advances
  BY CommandsAdvance, PreparationAdvances, UpdateAdvances, StageAdvances, ShowAdvances

\* The service starts with nothing under way.
LEMMA InitHandsOver ==
  ASSUME Init
  PROVE  HandedOver(svc) /\ LoadRests(svc, edit) /\ svc.now = 0
  <1>1. InitialService \in Service
    BY CueAssumption, NoSourceType, NoJobType DEF InitialService, Service, Phases, CueRef, Scene
  <1>2. HandedOver(InitialService) BY DEF InitialService, HandedOver, NoSource
  <1>3. Linked(InitialService, InitialService) BY DEF Linked
  <1>4. Follows(InitialService, SelectBackground(InitialService, InitialShow, InitialDefault))
    BY <1>1, <1>3, BackgroundFollows
  <1>5. svc = SelectBackground(InitialService, InitialShow, InitialDefault) /\ edit = NoEdit
    BY DEF Init
  <1>6. Steady(InitialService, svc) BY <1>5, HelpersSteady
  <1>7. svc.now = 0 BY <1>6 DEF Steady, InitialService
  <1>8. LoadRests(svc, edit) BY <1>5 DEF LoadRests, NoEdit
  <1> QED BY <1>2, <1>4, <1>5, <1>7, <1>8 DEF Follows

-----------------------------------------------------------------------------
(* Events: what the queue may hold is what Coordinator lets a renderer say. *)

\* Only whether an event is of the newest scene is read, never its very number.
LEMMA AlikeHeard ==
  ASSUME NEW s \in Service, NEW e \in Event, NEW x \in Event,
         e.kind = x.kind, e.generation = x.generation,
         e.transportRevision = x.transportRevision, e.stageEnabled = x.stageEnabled,
         e.sceneRevision # 0, x.sceneRevision # 0,
         e.sceneRevision = s.sceneRevision <=> x.sceneRevision = s.sceneRevision
  PROVE  NativeEvent(s, e) = NativeEvent(s, x)
  <1>1. Fresh(s, e) <=> Fresh(s, x) BY DEF Fresh
  <1>2. Lost(s, e) <=> Lost(s, x) BY DEF Lost
  <1>3. GlobalError(s, e) <=> GlobalError(s, x) BY DEF GlobalError
  <1>4. NoteStage(s, e) = NoteStage(s, x) BY DEF NoteStage
  <1>5. \A u : Follow(u, e) = Follow(u, x) BY DEF Follow
  <1> QED BY <1>1, <1>2, <1>3, <1>4, <1>5 DEF NativeEvent

\* what the invariants say of the service when an event arrives
Readable(s) ==
  /\ s \in Service /\ s.generation # 0 /\ s.sceneRevision # 0
  /\ Resting(s) => s.foreground.id = 0
  /\ s.state = "loading" /\ s.foreground.id = s.generation => s.foreground.paused = s.paused
  /\ s.state \in {"playing", "paused"} =>
       /\ s.foreground.id # 0 /\ s.foreground.paused = s.paused
       /\ s.foreground.transportRevision = s.transportRevision
  /\ s.scene.generation <= s.generation /\ s.scene.transportRevision <= s.transportRevision
  /\ s.scene.foregroundID = s.foreground.id
  /\ s.foreground.id # 0 =>
       /\ s.scene.paused = s.foreground.paused
       /\ s.scene.transportRevision = s.foreground.transportRevision

\* what EventIsSound says of an event of the queue
Sensible(s, e) ==
  /\ e.sceneRevision # 0 /\ e.sceneRevision <= s.sceneRevision
  /\ e.generation <= s.scene.generation
  /\ e.transportRevision <= s.scene.transportRevision
  /\ e.kind \in SourceKinds => Known(s, e.generation)
  /\ e.sceneRevision = s.sceneRevision =>
       /\ e.stageEnabled => s.scene.stage
       /\ e.kind = "stopped" => s.scene.foregroundID = 0
       /\ e.kind \in SourceKinds => e.generation = s.scene.foregroundID
       /\ e.kind \in {"playing", "paused"} => s.scene.paused = (e.kind = "paused")

\* an event spelled out
Answer(kind, generation, transportRevision, sceneRevision, stage) ==
  [kind |-> kind, generation |-> generation, transportRevision |-> transportRevision,
   sceneRevision |-> sceneRevision, stageEnabled |-> stage]

\* the newest scene, or the one before it
Under(s, e) ==
  IF e.sceneRevision = s.sceneRevision THEN s.sceneRevision ELSE s.sceneRevision - 1

\* An older scene's event may be taken for the last but one's.
LEMMA UnderFits ==
  ASSUME NEW s, Readable(s), NEW e \in Event, Sensible(s, e)
  PROVE  /\ Under(s, e) \in Nat \ {0}
         /\ Under(s, e) \in {s.sceneRevision, s.sceneRevision - 1} \ {0}
         /\ e.sceneRevision = s.sceneRevision <=> Under(s, e) = s.sceneRevision
  BY DEF Readable, Sensible, Under, Service, Event

\* Such an event is one Coordinator allows.
LEMMA ReportsWhat ==
  ASSUME NEW kinds, NEW ids, NEW revisions, NEW kind \in kinds, NEW id \in ids,
         NEW n \in revisions, NEW at \in {svc.sceneRevision, svc.sceneRevision - 1} \ {0},
         NEW stage \in BOOLEAN, at = svc.sceneRevision /\ stage => svc.scene.stage
  PROVE  Answer(kind, id, n, at, stage) \in Reports(kinds, ids, revisions)
  BY DEF Reports, Answer

\* An event that says what nobody waits for.
LEMMA NothingHeard ==
  ASSUME Readable(svc), NEW s \in Service,
         s.generation = svc.generation, s.state = svc.state, s.foreground = svc.foreground,
         s.sceneRevision = svc.sceneRevision
  PROVE  /\ Answer("progress", 0, 0, svc.sceneRevision, FALSE) \in SourceReports
         /\ NativeEvent(s, Answer("progress", 0, 0, svc.sceneRevision, FALSE)) = s
         /\ Answer("error", 0, 0, svc.sceneRevision, FALSE) \in Failures
         /\ NativeEvent(s, Answer("error", 0, 0, svc.sceneRevision, FALSE)) = s
  <1> DEFINE p == Answer("progress", 0, 0, svc.sceneRevision, FALSE)
             f == Answer("error", 0, 0, svc.sceneRevision, FALSE)
  <1>1. svc.sceneRevision \in {svc.sceneRevision, svc.sceneRevision - 1} \ {0}
    BY DEF Readable
  <1>2. p \in SourceReports BY <1>1, ReportsWhat DEF SourceReports
  <1>3. f \in Failures BY <1>1, ReportsWhat DEF Failures
  <1>4. Expected(s) # 0 BY DEF Readable, Expected
  <1>5. /\ p.generation = 0 /\ p.kind = "progress" /\ f.generation = 0 /\ f.kind = "error"
    BY DEF Answer
  <1> HIDE DEF p, f
  <1>6. ~Fresh(s, p) /\ ~Fresh(s, f) BY <1>4, <1>5 DEF Fresh
  <1>7. NativeEvent(s, p) = s BY <1>5, <1>6 DEF NativeEvent, Lost, GlobalError
  <1>8. ~GlobalError(s, f) BY <1>5 DEF GlobalError, Readable
  <1>9. NativeEvent(s, f) = s BY <1>5, <1>6, <1>8 DEF NativeEvent, Lost
  <1> QED BY <1>2, <1>3, <1>7, <1>9 DEF p, f

\* A source in an active phase: what is heard of it is what Coordinator expects.
LEMMA SourceExpected ==
  ASSUME Readable(svc), NEW e \in Event, Sensible(svc, e), e.kind \in SourceKinds,
         svc.state \in {"loading", "playing", "paused"}, Fresh(svc, e),
         e.kind \in {"playing", "paused"} => svc.paused = (e.kind = "paused")
  PROVE  /\ e.generation = svc.foreground.id /\ svc.foreground.id # 0
         /\ e.transportRevision = svc.foreground.transportRevision
         /\ e.kind \in {"playing", "paused"} => svc.foreground.paused = (e.kind = "paused")
  <1>1. /\ e.generation \in Nat /\ e.transportRevision \in Nat
        /\ svc.generation \in Nat /\ svc.foreground.id \in Nat
        /\ svc.transportRevision \in Nat /\ svc.foreground.transportRevision \in Nat
        /\ svc.scene.generation \in Nat /\ svc.scene.transportRevision \in Nat
    BY DEF Event, Readable, Service, Source, Scene
  <1>2. e.generation = Expected(svc) /\ e.transportRevision = svc.transportRevision
    BY DEF Fresh, SourceKinds
  <1>3. CASE svc.state = "loading"
    <2>1. e.generation = svc.generation BY <1>2, <1>3 DEF Expected
    <2>2. svc.foreground.id = svc.generation
      BY <1>3, <2>1 DEF Sensible, Known, Waits
    <2> QED BY <1>1, <1>2, <1>3, <2>1, <2>2 DEF Readable, Sensible
  <1>4. CASE svc.state \in {"playing", "paused"}
    BY <1>2, <1>4 DEF Readable, Expected
  <1> QED BY <1>3, <1>4

\* A report of the queue is heard as one of Coordinator's reports is.
LEMMA HeardSo ==
  ASSUME Readable(svc), NEW s \in Service, Linked(svc, s),
         NEW e \in Event, Sensible(svc, e),
         e.kind \in SourceKinds \cup {"stage", "background-error", "stopped"}
  PROVE  \E x \in SourceReports \cup SceneReports : NativeEvent(s, e) = NativeEvent(s, x)
  <1> DEFINE at == Under(svc, e)
             R == svc.sceneRevision
  <1>1. /\ s.state = svc.state /\ s.generation = svc.generation
        /\ s.transportRevision = svc.transportRevision /\ s.paused = svc.paused
        /\ s.foreground = svc.foreground /\ s.sceneRevision = R
        /\ s.scene = svc.scene /\ s.closed = svc.closed
    BY DEF Linked
  <1>2. /\ at \in Nat \ {0} /\ at \in {R, R - 1} \ {0}
        /\ e.sceneRevision = R <=> at = R
    BY UnderFits
  <1>3. /\ e.sceneRevision # 0 /\ e.sceneRevision \in Nat
        /\ e.generation \in Nat /\ e.transportRevision \in Nat /\ e.stageEnabled \in BOOLEAN
        /\ svc.generation \in Nat /\ svc.foreground.id \in Nat
        /\ svc.transportRevision \in Nat /\ svc.foreground.transportRevision \in Nat
        /\ svc.scene.generation \in Nat /\ svc.scene.transportRevision \in Nat
        /\ svc.foreground.paused \in BOOLEAN
    BY DEF Event, Sensible, Readable, Service, Source, Scene
  <1>4. at = R /\ e.stageEnabled => svc.scene.stage BY <1>2 DEF Sensible
  <1> HIDE DEF at
  <1>5. ASSUME NativeEvent(s, e) = s
        PROVE  \E x \in SourceReports \cup SceneReports : NativeEvent(s, e) = NativeEvent(s, x)
    BY <1>1, <1>5, NothingHeard
  <1>6. CASE s.closed
    <2>1. NativeEvent(s, e) = s BY <1>6 DEF NativeEvent
    <2> QED BY <1>5, <2>1
  <1>7. CASE ~s.closed /\ e.kind \in {"stage", "background-error"}
    <2>1. CASE e.sceneRevision = R
      <3> DEFINE x == Answer(e.kind, 0, svc.scene.transportRevision, R, e.stageEnabled)
      <3>1. x \in SceneReports
        BY <1>2, <1>3, <1>4, <1>7, <2>1, ReportsWhat DEF SceneReports
      <3>2. x.kind = e.kind /\ x.sceneRevision = R /\ x.stageEnabled = e.stageEnabled
        BY DEF Answer
      <3> HIDE DEF x
      <3>3. NativeEvent(s, e) = NativeEvent(s, x)
        BY <1>1, <1>7, <2>1, <3>2 DEF NativeEvent, Lost, GlobalError
      <3> QED BY <3>1, <3>3
    <2>2. CASE e.sceneRevision # R
      <3>1. NativeEvent(s, e) = s
        BY <1>1, <1>7, <2>2 DEF NativeEvent, Lost, GlobalError
      <3> QED BY <1>5, <3>1
    <2> QED BY <2>1, <2>2
  <1>8. \A x \in Event : ~s.closed /\ x.kind \in SourceKinds \cup {"stopped"} =>
          NativeEvent(s, x) = IF Fresh(s, x) THEN Follow(NoteStage(s, x), x) ELSE s
    BY DEF NativeEvent, Lost, GlobalError, SourceKinds
  <1>9. ASSUME NEW x \in SourceReports \cup SceneReports, x \in Event, x.kind = e.kind,
               x.generation = e.generation, x.transportRevision = e.transportRevision,
               x.stageEnabled = e.stageEnabled, x.sceneRevision = at
        PROVE  \E y \in SourceReports \cup SceneReports : NativeEvent(s, e) = NativeEvent(s, y)
    <2>1. NativeEvent(s, e) = NativeEvent(s, x) BY <1>1, <1>2, <1>3, <1>9, AlikeHeard
    <2> QED BY <1>9, <2>1
  <1>10. CASE ~s.closed /\ e.kind \in SourceKinds
    <2>1. CASE ~Fresh(s, e)
      <3>1. NativeEvent(s, e) = s BY <1>8, <1>10, <2>1
      <3> QED BY <1>5, <3>1
    <2>2. CASE Fresh(s, e) /\ svc.state \in {"loading", "playing", "paused"}
               /\ (e.kind \in {"playing", "paused"} => svc.paused = (e.kind = "paused"))
      <3> DEFINE x == Answer(e.kind, e.generation, e.transportRevision, at, e.stageEnabled)
      <3>1. Fresh(svc, e) BY <1>1, <2>2 DEF Fresh, Expected
      <3>2. /\ e.generation = svc.foreground.id
            /\ e.transportRevision = svc.foreground.transportRevision
            /\ e.kind \in {"playing", "paused"} => svc.foreground.paused = (e.kind = "paused")
        BY <1>10, <2>2, <3>1, SourceExpected
      <3>3. e.kind \in {IF svc.foreground.paused THEN "paused" ELSE "playing", "progress",
                        "ended"}
        BY <1>3, <1>10, <3>2 DEF SourceKinds
      <3>4. x \in SourceReports
        <4> DEFINE kinds == {IF svc.foreground.paused THEN "paused" ELSE "playing",
                             "progress", "ended"}
                   ids == {0, svc.foreground.id}
                   revisions == {0, svc.foreground.transportRevision}
        <4>1. e.kind \in kinds BY <3>3
        <4>2. e.generation \in ids /\ e.transportRevision \in revisions BY <3>2
        <4>3. SourceReports = Reports(kinds, ids, revisions) BY DEF SourceReports
        <4> HIDE DEF kinds, ids, revisions
        <4>4. x \in Reports(kinds, ids, revisions)
          BY <1>2, <1>3, <1>4, <4>1, <4>2, ReportsWhat
        <4> QED BY <4>3, <4>4
      <3>5. /\ x.kind = e.kind /\ x.generation = e.generation
            /\ x.transportRevision = e.transportRevision /\ x.sceneRevision = at
            /\ x.stageEnabled = e.stageEnabled
        BY DEF Answer
      <3>6. x \in Event BY <1>2, <1>3, <1>10 DEF Answer, Event, SourceKinds
      <3> HIDE DEF x
      <3> QED BY <1>9, <3>4, <3>5, <3>6
    <2>3. CASE Fresh(s, e) /\ svc.state \in {"loading", "playing", "paused"}
               /\ ~(e.kind \in {"playing", "paused"} => svc.paused = (e.kind = "paused"))
      <3>1. s.paused # (e.kind = "paused") /\ e.kind \in {"playing", "paused"}
        BY <1>1, <2>3
      <3>2. NoteStage(s, e).paused = s.paused BY DEF NoteStage, Service
      <3>3. NativeEvent(s, e) = NoteStage(s, e)
        BY <1>8, <1>10, <2>3, <3>1, <3>2 DEF Follow
      <3>4. e.sceneRevision # R
        <4> SUFFICES ASSUME e.sceneRevision = R PROVE FALSE OBVIOUS
        <4>1. /\ e.generation = svc.foreground.id
              /\ svc.scene.paused = (e.kind = "paused") /\ Known(svc, e.generation)
          BY <1>10, <3>1 DEF Sensible, Readable
        <4>2. e.generation = Expected(svc) BY <1>1, <2>3 DEF Fresh, Expected
        <4>3. svc.foreground.id # 0 BY <4>1, <4>2 DEF Readable, Expected
        <4>4. svc.foreground.paused = (e.kind = "paused") BY <4>1, <4>3 DEF Readable
        <4>5. svc.foreground.paused = svc.paused
          BY <2>3, <4>1, <4>2 DEF Readable, Expected, Known, Waits
        <4> QED BY <1>1, <3>1, <4>4, <4>5
      <3>5. NativeEvent(s, e) = s BY <1>1, <1>3, <3>3, <3>4 DEF NoteStage
      <3> QED BY <1>5, <3>5
    <2>4. CASE Fresh(s, e) /\ svc.state \notin {"loading", "playing", "paused"}
      <3>1. NoteStage(s, e).state = s.state BY DEF NoteStage, Service
      <3>2. NativeEvent(s, e) = NoteStage(s, e)
        BY <1>1, <1>8, <1>10, <2>4, <3>1 DEF Follow, SourceKinds
      <3>3. Resting(svc) BY <2>4 DEF Readable, Service, Phases, Resting
      <3>4. e.generation # 0 BY <1>1, <2>4 DEF Fresh, Expected, Readable
      <3>5. e.sceneRevision # R BY <1>10, <3>3, <3>4 DEF Sensible, Readable
      <3>6. NativeEvent(s, e) = s BY <1>1, <1>3, <3>2, <3>5 DEF NoteStage
      <3> QED BY <1>5, <3>6
    <2> QED BY <2>1, <2>2, <2>3, <2>4
  <1>11. CASE ~s.closed /\ e.kind = "stopped"
    <2>1. CASE ~Fresh(s, e)
      <3>1. NativeEvent(s, e) = s BY <1>8, <1>11, <2>1
      <3> QED BY <1>5, <3>1
    <2>2. CASE Fresh(s, e) /\ (e.sceneRevision = R \/ s.state \in {"stopping", "stopped"})
      <3>1. svc.scene.foregroundID = 0 /\ svc.foreground.id = 0
        BY <1>1, <1>11, <2>2 DEF Sensible, Readable, Resting
      <3>2. e.generation = svc.generation BY <1>1, <2>2, <3>1 DEF Fresh, Expected
      <3>3. e.generation = svc.scene.generation
        BY <1>3, <3>2 DEF Sensible, Readable
      <3> DEFINE x == Answer("stopped", e.generation, svc.scene.transportRevision, at,
                             e.stageEnabled)
      <3>4. x \in SceneReports
        BY <1>2, <1>3, <1>4, <3>1, <3>3, ReportsWhat DEF SceneReports
      <3>5. /\ x.kind = e.kind /\ x.generation = e.generation
            /\ x.sceneRevision = at /\ x.stageEnabled = e.stageEnabled
        BY <1>11 DEF Answer
      <3>6. x \in Event BY <1>2, <1>3 DEF Answer, Event
      <3> HIDE DEF x
      <3>7. Fresh(s, x) BY <1>11, <2>2, <3>5 DEF Fresh
      <3>8. NoteStage(s, x) = NoteStage(s, e)
        BY <1>1, <1>2, <1>3, <3>5 DEF NoteStage
      <3>9. \A u : Follow(u, x) = Follow(u, e) BY <3>5 DEF Follow
      <3>10. NativeEvent(s, x) = NativeEvent(s, e)
        BY <1>8, <1>11, <2>2, <3>5, <3>6, <3>7, <3>8, <3>9
      <3> QED BY <3>4, <3>10
    <2>3. CASE Fresh(s, e) /\ e.sceneRevision # R /\ s.state \notin {"stopping", "stopped"}
      <3>1. NoteStage(s, e) = s BY <1>1, <1>3, <2>3 DEF NoteStage
      <3>2. NativeEvent(s, e) = s BY <1>8, <1>11, <2>3, <3>1 DEF Follow
      <3> QED BY <1>5, <3>2
    <2> QED BY <2>1, <2>2, <2>3
  <1> QED BY <1>6, <1>7, <1>10, <1>11

\* A failure of the queue is heard as one of Coordinator's failures is.
LEMMA HeardFault ==
  ASSUME Readable(svc), NEW s \in Service, Linked(svc, s),
         NEW e \in Event, Sensible(svc, e), e.kind \in FaultSteps
  PROVE  \E x \in Failures : NativeEvent(s, e) = NativeEvent(s, x)
  <1> DEFINE at == Under(svc, e)
             R == svc.sceneRevision
  <1>1. /\ s.state = svc.state /\ s.generation = svc.generation
        /\ s.transportRevision = svc.transportRevision /\ s.paused = svc.paused
        /\ s.foreground = svc.foreground /\ s.sceneRevision = R
        /\ s.scene = svc.scene /\ s.closed = svc.closed
    BY DEF Linked
  <1>2. /\ at \in Nat \ {0} /\ at \in {R, R - 1} \ {0}
        /\ e.sceneRevision = R <=> at = R
    BY UnderFits
  <1>3. /\ e.sceneRevision # 0 /\ e.sceneRevision \in Nat
        /\ e.generation \in Nat /\ e.transportRevision \in Nat /\ e.stageEnabled \in BOOLEAN
        /\ svc.generation \in Nat /\ svc.foreground.id \in Nat
        /\ svc.transportRevision \in Nat /\ svc.foreground.transportRevision \in Nat
        /\ svc.scene.generation \in Nat /\ svc.scene.transportRevision \in Nat
    BY DEF Event, Sensible, Readable, Service, Source, Scene
  <1>4. at = R /\ e.stageEnabled => svc.scene.stage BY <1>2 DEF Sensible
  <1> HIDE DEF at
  <1>5. ASSUME NativeEvent(s, e) = s
        PROVE  \E x \in Failures : NativeEvent(s, e) = NativeEvent(s, x)
    BY <1>1, <1>5, NothingHeard
  <1>6. CASE s.closed
    <2>1. NativeEvent(s, e) = s BY <1>6 DEF NativeEvent
    <2> QED BY <1>5, <2>1
  <1>7. ASSUME NEW id \in {svc.foreground.id, svc.scene.generation}, e.generation = id,
               NEW n \in Nat, e.transportRevision = n,
               \/ /\ e.kind = "error"
                  /\ <<id, n>> = <<svc.foreground.id, svc.foreground.transportRevision>>
               \/ <<id, n>> = <<svc.scene.generation, svc.scene.transportRevision>>
        PROVE  \E x \in Failures : NativeEvent(s, e) = NativeEvent(s, x)
    <2> DEFINE x == Answer(e.kind, id, n, at, e.stageEnabled)
    <2>1. x \in Failures
      <3>1. CASE /\ e.kind = "error"
                 /\ id = svc.foreground.id /\ n = svc.foreground.transportRevision
        <4>1. x \in Reports({"error"}, {0, svc.foreground.id},
                            {0, svc.foreground.transportRevision})
          BY <1>2, <1>3, <1>4, <3>1, ReportsWhat
        <4> QED BY <4>1 DEF Failures
      <3>2. CASE id = svc.scene.generation /\ n = svc.scene.transportRevision
        <4>1. e.kind \in {"error", "device-lost"} BY <1>3 DEF FaultSteps
        <4>2. x \in Reports({"error", "device-lost"}, {0, svc.scene.generation},
                            {svc.scene.transportRevision})
          BY <1>2, <1>3, <1>4, <3>2, <4>1, ReportsWhat
        <4> QED BY <4>2 DEF Failures
      <3> QED BY <1>7, <3>1, <3>2
    <2>2. /\ x.kind = e.kind /\ x.generation = e.generation
          /\ x.transportRevision = e.transportRevision /\ x.sceneRevision = at
          /\ x.stageEnabled = e.stageEnabled
      BY <1>7 DEF Answer
    <2>3. x \in Event BY <1>2, <1>3, <1>7 DEF Answer, Event, FaultSteps
    <2> HIDE DEF x
    <2>4. NativeEvent(s, e) = NativeEvent(s, x) BY <1>1, <1>2, <1>3, <2>2, <2>3, AlikeHeard
    <2> QED BY <2>1, <2>4
  <1>8. CASE ~s.closed /\ e.kind = "device-lost"
    <2>1. CASE e.sceneRevision # R /\ ~Fresh(s, e)
      <3>1. NativeEvent(s, e) = s BY <1>1, <1>8, <2>1 DEF NativeEvent, Lost, GlobalError
      <3> QED BY <1>5, <3>1
    <2>2. CASE e.sceneRevision = R \/ Fresh(s, e)
      <3>1. NativeEvent(s, e) = Fail([s EXCEPT !.outputFault = TRUE])
        <4>1. CASE e.sceneRevision = R
          BY <1>1, <1>3, <1>8, <4>1 DEF NativeEvent, Lost, GlobalError
        <4>2. CASE e.sceneRevision # R /\ Fresh(s, e)
          <5>1. NoteStage(s, e) = s BY <1>1, <1>3, <4>2 DEF NoteStage
          <5>2. NativeEvent(s, e) = Follow(s, e)
            BY <1>1, <1>8, <4>2, <5>1 DEF NativeEvent, Lost, GlobalError
          <5> QED BY <1>8, <5>2 DEF Follow
        <4> QED BY <2>2, <4>1, <4>2
      <3> DEFINE x == Answer("device-lost", 0, svc.scene.transportRevision, R, FALSE)
      <3>2. x \in Failures
        <4>1. R \in {R, R - 1} \ {0} BY DEF Readable
        <4> QED BY <4>1, ReportsWhat DEF Failures
      <3>3. x.kind = "device-lost" /\ x.sceneRevision = R BY DEF Answer
      <3> HIDE DEF x
      <3>4. NativeEvent(s, x) = Fail([s EXCEPT !.outputFault = TRUE])
        BY <1>1, <1>8, <3>3 DEF NativeEvent, Lost, GlobalError, Readable
      <3> QED BY <3>1, <3>2, <3>4
    <2> QED BY <2>1, <2>2
  <1>9. CASE ~s.closed /\ e.kind = "error"
    <2>1. CASE ~GlobalError(s, e) /\ ~Fresh(s, e)
      <3>1. NativeEvent(s, e) = s BY <1>9, <2>1 DEF NativeEvent, Lost
      <3> QED BY <1>5, <3>1
    <2>2. CASE GlobalError(s, e)
      <3>1. NativeEvent(s, e) = Fail(s) BY <1>9, <2>2 DEF NativeEvent, Lost
      <3>2. e.generation = svc.scene.generation /\ e.generation = svc.generation
            /\ svc.foreground.id # svc.generation
        BY <1>1, <1>3, <2>2 DEF GlobalError, Sensible, Readable
      <3> DEFINE x == Answer("error", e.generation, svc.scene.transportRevision, R, FALSE)
      <3>3. x \in Failures
        <4>1. R \in {R, R - 1} \ {0} BY DEF Readable
        <4> QED BY <3>2, <4>1, ReportsWhat DEF Failures
      <3>4. x.kind = "error" /\ x.sceneRevision = R /\ x.generation = e.generation
        BY DEF Answer
      <3> HIDE DEF x
      <3>5. GlobalError(s, x) BY <1>1, <3>2, <3>4 DEF GlobalError, Readable
      <3>6. NativeEvent(s, x) = Fail(s) BY <1>9, <3>4, <3>5 DEF NativeEvent, Lost
      <3> QED BY <3>1, <3>3, <3>6
    <2>3. CASE Fresh(s, e)
      <3>1. e.generation = Expected(svc) /\ e.transportRevision = svc.transportRevision
        BY <1>1, <1>9, <2>3 DEF Fresh, Expected
      <3>2. CASE svc.state \in {"playing", "paused"}
        <4>1. e.generation = svc.foreground.id
              /\ e.transportRevision = svc.foreground.transportRevision
          BY <3>1, <3>2 DEF Expected, Readable
        <4> QED BY <1>3, <1>7, <1>9, <4>1
      <3>3. CASE svc.state \notin {"playing", "paused"}
        <4>1. e.generation = svc.scene.generation
              /\ e.transportRevision = svc.scene.transportRevision
          BY <1>3, <3>1, <3>3 DEF Expected, Readable, Sensible
        <4> QED BY <1>3, <1>7, <4>1
      <3> QED BY <3>2, <3>3
    <2> QED BY <2>1, <2>2, <2>3
  <1> QED BY <1>6, <1>8, <1>9 DEF FaultSteps

\* The phases in which the helpers of nativeEvent leave the service.
LEMMA EventPhases ==
  ASSUME NEW x, DOMAIN x = DOMAIN InitialService
  PROVE  /\ Changed(x).state = x.state /\ Ended(x).state = "stopped"
         /\ Fail(x).state = "error" /\ Escape(x).state = "stopping"
         /\ Changed(Rested(x, "stopped")).state = "stopped"
  <1>1. Changed(x).state = x.state /\ Ended(x).state = "stopped"
    BY DEF Changed, Ended, ApplyScene, ClearActive, InitialService
  <1>2. Fail(x).state = "error"
    <2> DEFINE dark == [Disarm(ClearImage([ClearActive(Invalidate(x)) EXCEPT
                                   !.stopEpoch = @ + 1, !.foreground = NoSource])) EXCEPT
                          !.stageEnablePending = FALSE, !.stageEnabled = FALSE,
                          !.state = "error"]
    <2>1. Fail(x) = Changed(ApplyScene(dark, TRUE)) BY DEF Fail
    <2>2. dark.state = "error" /\ DOMAIN dark = DOMAIN InitialService
      BY DEF Disarm, ClearImage, ClearActive, Invalidate, InitialService
    <2> HIDE DEF dark
    <2> QED BY <2>1, <2>2 DEF Changed, ApplyScene, InitialService
  <1>3. Escape(x).state = "stopping"
    <2> DEFINE d == Disarm(x)
               h == StopForeground(d, TRUE, TRUE)
    <2>1. DOMAIN d = DOMAIN InitialService BY DEF Disarm
    <2>2. Escape(x) = Changed([h EXCEPT !.stageEnabled = FALSE]) BY DEF Escape
    <2> HIDE DEF d
    <2>3. h.state = "stopping" /\ DOMAIN h = DOMAIN InitialService
      BY <2>1 DEF StopForeground, Changed, ApplyScene, ClearImage, ClearActive, Invalidate,
                  InitialService
    <2> HIDE DEF h
    <2> QED BY <2>2, <2>3 DEF Changed, InitialService
  <1>4. Changed(Rested(x, "stopped")).state = "stopped"
    BY DEF Changed, Rested, InitialService
  <1> QED BY <1>1, <1>2, <1>3, <1>4

\* No event moves the clock or frees the lock, or starts a source at rest.
LEMMA NativeEventSteady ==
  ASSUME NEW s \in Service, NEW e \in Event
  PROVE  Steady(s, NativeEvent(s, e)) /\ (Resting(s) => Resting(NativeEvent(s, e)))
  <1> DEFINE fault == [s EXCEPT !.outputFault = TRUE]
             noted == [s EXCEPT !.stageEnabled = e.stageEnabled,
                                  !.stageEnablePending = FALSE]
             u == NoteStage(s, e)
  <1>1. DOMAIN s = DOMAIN InitialService BY DEF Service, InitialService
  <1>2. /\ Steady(s, fault) /\ Steady(s, noted) /\ Steady(s, u)
        /\ fault.state = s.state /\ noted.state = s.state /\ u.state = s.state
    BY DEF NoteStage, Steady, Service
  <1> HIDE DEF fault, noted, u
  <1>3. \A x : DOMAIN x = DOMAIN InitialService =>
          /\ Steady(x, Changed(x)) /\ Changed(x).state = x.state
          /\ Steady(x, Fail(x)) /\ Fail(x).state = "error"
          /\ Steady(x, Escape(x)) /\ Escape(x).state = "stopping"
          /\ Steady(x, Ended(x)) /\ Ended(x).state = "stopped"
          /\ Steady(x, Changed(Rested(x, "stopped")))
          /\ Changed(Rested(x, "stopped")).state = "stopped"
          /\ \A kind : Steady(x, Acked(x, kind))
    <2> TAKE x
    <2> HAVE DOMAIN x = DOMAIN InitialService
    <2>1. Steady(x, Changed(Rested(x, "stopped")))
      BY DEF Steady, Changed, Rested, InitialService
    <2> QED BY <2>1, HelpersSteady, EventPhases
  <1>4. /\ Steady(u, Follow(u, e)) /\ (Resting(u) => Resting(Follow(u, e)))
    <2>1. DOMAIN u = DOMAIN InitialService BY <1>1, <1>2 DEF Steady
    <2>2. CASE e.kind \in {"playing", "paused"}
      <3>1. \/ Follow(u, e) = u
            \/ Follow(u, e) = Acked(u, e.kind) /\ u.state \in {"loading", "playing", "paused"}
        BY <2>2 DEF Follow, Acked
      <3> QED BY <1>3, <2>1, <3>1 DEF Steady, Resting
    <2>3. CASE e.kind = "progress"
      <3>1. Follow(u, e) \in {u, Changed(u)} BY <2>3 DEF Follow
      <3> QED BY <1>3, <2>1, <3>1 DEF Steady, Resting
    <2>4. CASE e.kind = "ended"
      <3>1. Follow(u, e) \in {u, Ended(u)} BY <2>4 DEF Follow, Ended
      <3> QED BY <1>3, <2>1, <3>1 DEF Steady, Resting
    <2>5. CASE e.kind = "stopped"
      <3>1. Follow(u, e) \in {u, Changed(Rested(u, "stopped"))} BY <2>5 DEF Follow, Rested
      <3> QED BY <1>3, <2>1, <3>1 DEF Steady, Resting
    <2>6. CASE e.kind = "error"
      <3>1. Follow(u, e) = Fail(u) BY <2>6 DEF Follow
      <3> QED BY <1>3, <2>1, <3>1 DEF Resting
    <2>7. CASE e.kind = "device-lost"
      <3> DEFINE f == [u EXCEPT !.outputFault = TRUE]
      <3>1. Follow(u, e) = Fail(f) BY <2>7 DEF Follow
      <3>2. Steady(u, f) BY <2>1 DEF Steady, InitialService
      <3> HIDE DEF f
      <3>3. DOMAIN f = DOMAIN InitialService BY <2>1, <3>2 DEF Steady
      <3>4. Steady(f, Fail(f)) /\ Fail(f).state = "error" BY <1>3, <3>3
      <3> QED BY <3>1, <3>2, <3>4 DEF Steady, Resting
    <2>8. CASE e.kind \notin {"playing", "paused", "progress", "ended", "stopped", "error",
                           "device-lost"}
      <3>1. Follow(u, e) = u BY <2>8 DEF Follow
      <3> QED BY <3>1 DEF Steady
    <2> QED BY <2>2, <2>3, <2>4, <2>5, <2>6, <2>7, <2>8
  <1>5. NativeEvent(s, e) \in {s, Changed(s), Escape(s), Changed(noted), Fail(fault), Fail(s),
                               Follow(u, e)}
    BY Zenon DEF NativeEvent, fault, noted, u
  <1>6. DOMAIN fault = DOMAIN InitialService /\ DOMAIN noted = DOMAIN InitialService
    BY <1>1, <1>2 DEF Steady
  <1>7. \A x \in {Changed(s), Escape(s), Fail(s)} : Steady(s, x) /\ (Resting(s) => Resting(x))
    BY <1>1, <1>3 DEF Resting
  <1>8. \A x \in {Changed(noted), Fail(fault)} : Steady(s, x) /\ (Resting(s) => Resting(x))
    <2>1. /\ Steady(noted, Changed(noted)) /\ Changed(noted).state = noted.state
          /\ Steady(fault, Fail(fault)) /\ Fail(fault).state = "error"
      BY <1>3, <1>6
    <2> QED BY <1>2, <2>1 DEF Steady, Resting
  <1>9. Steady(s, Follow(u, e)) /\ (Resting(s) => Resting(Follow(u, e)))
    BY <1>2, <1>4 DEF Steady, Resting
  <1> QED BY <1>5, <1>7, <1>8, <1>9 DEF Steady

\* The service that hears an event agrees with what it handed over.
LEMMA ReadsWell ==
  ASSUME PlaybackInv, HandedOver(svc), svc.sceneRevision # 0
  PROVE  Readable(svc)
  <1>1. /\ svc \in Service /\ svc.generation # 0
        /\ Resting(svc) => svc.foreground.id = 0
    BY DEF PlaybackInv, ReservationInv, TypeOK, Settled
  <1>2. LoadsAgree(svc, loader) BY DEF PlaybackInv, WorkAgrees
  <1>3. svc.generation \in Nat /\ svc.foreground.id \in Nat /\ svc.scene.generation \in Nat
    BY <1>1 DEF Service, Source, Scene
  <1> QED BY <1>1, <1>2, <1>3 DEF Readable, HandedOver, LoadsAgree

\* A sound event of the queue is one such a service expects.
LEMMA SoundIsSensible ==
  ASSUME PlaybackInv, HandedOver(svc), NEW e \in Event, EventIsSound(e), e.kind # "escape"
  PROVE  Readable(svc) /\ Sensible(svc, e)
  <1>1. /\ svc.scene.revision = svc.sceneRevision /\ svc.sceneRevision \in Nat
    BY DEF PlaybackInv, ReservationInv, TypeOK, Service, HandedOver
  <1>2. /\ e.sceneRevision \in 1 .. svc.scene.revision
        /\ e.generation <= svc.scene.generation
        /\ e.transportRevision <= svc.scene.transportRevision
        /\ e.kind \in SourceKinds => Known(svc, e.generation)
        /\ e.sceneRevision = svc.scene.revision =>
             /\ e.stageEnabled => svc.scene.stage
             /\ Fits(e.kind, e.generation)
    BY DEF EventIsSound
  <1>3. e.sceneRevision # 0 /\ e.sceneRevision <= svc.sceneRevision /\ svc.sceneRevision # 0
    BY <1>1, <1>2
  <1>4. Readable(svc) BY <1>3, ReadsWell
  <1> QED BY <1>1, <1>2, <1>3, <1>4 DEF Sensible, Fits

\* What the service makes of a sound event is what Coordinator makes of one of its own.
LEMMA Heard ==
  ASSUME PlaybackInv, HandedOver(svc), LoadRests(svc, edit), CommandOnly,
         NEW e \in Event, e.kind # "devices", EventIsSound(e),
         svc' = NativeEvent(IF FromFault(e) THEN Input(svc) ELSE Enter(svc), e)
  PROVE  /\ Follows(svc, svc') /\ LoadRests(svc', edit')
         /\ svc'.now = svc.now + (IF FromFault(e) THEN 1 ELSE 0)
         /\ FromFault(e) => SaysFault \/ (SaysEscape /\ ~svc.closed)
         /\ ~FromFault(e) => SaysSo
  <1> DEFINE s == IF FromFault(e) THEN Input(svc) ELSE Enter(svc)
  <1>1. /\ svc \in Service /\ s \in Service /\ Linked(svc, s)
        /\ s.now = svc.now + (IF FromFault(e) THEN 1 ELSE 0)
        /\ s.configBusy = svc.configBusy
    <2>1. svc.now \in Nat BY EntryFacts DEF Service
    <2> QED BY <2>1, EntryFacts
  <1>2. svc' = NativeEvent(s, e) OBVIOUS
  <1>3. FromFault(e) => s = Input(svc) OBVIOUS
  <1>4. ~FromFault(e) => s = Enter(svc) OBVIOUS
  <1> HIDE DEF s
  <1>5. Follows(s, svc') BY <1>1, <1>2, NativeEventFollows
  <1>6. Follows(svc, svc') BY <1>1, <1>5, LinkedStarts
  <1>7. Steady(s, svc') /\ (Resting(s) => Resting(svc')) BY <1>1, <1>2, NativeEventSteady
  <1>8. edit' = edit BY DEF CommandOnly
  <1>9. LoadRests(svc', edit')
    BY <1>1, <1>7, <1>8 DEF LoadRests, Steady, Linked, Resting
  <1>10. svc'.now = svc.now + (IF FromFault(e) THEN 1 ELSE 0) BY <1>1, <1>7 DEF Steady
  <1>11. CASE e.kind = "escape"
    <2>1. FromFault(e) BY <1>11 DEF FromFault
    <2>2. CASE svc.closed
      <3>1. svc.sceneRevision # 0 BY <2>2 DEF HandedOver
      <3>2. Readable(svc) BY <3>1, ReadsWell
      <3> DEFINE x == Answer("error", 0, 0, svc.sceneRevision, FALSE)
      <3>3. x \in Failures /\ NativeEvent(s, x) = s
        BY <1>1, <3>2, NothingHeard DEF Linked
      <3> HIDE DEF x
      <3>4. s.closed BY <1>1, <2>2 DEF Linked
      <3>5. NativeEvent(s, e) = s BY <3>4 DEF NativeEvent
      <3>6. svc' = NativeEvent(Input(svc), x) BY <1>2, <1>3, <2>1, <3>3, <3>5
      <3>7. SaysFault BY <3>1, <3>3, <3>6 DEF SaysFault
      <3> QED BY <1>6, <1>9, <1>10, <2>1, <3>7
    <2>3. CASE ~svc.closed
      <3>1. ~s.closed BY <1>1, <2>3 DEF Linked
      <3>2. NativeEvent(s, e) = Escape(s)
        BY <1>11, <3>1 DEF NativeEvent, Lost, GlobalError
      <3>3. NativeEvent(s, EscapeEvent) = Escape(s)
        BY <3>1 DEF NativeEvent, Lost, GlobalError, EscapeEvent
      <3>4. SaysEscape BY <1>2, <1>3, <2>1, <3>2, <3>3 DEF SaysEscape
      <3> QED BY <1>6, <1>9, <1>10, <2>1, <2>3, <3>4
    <2> QED BY <2>2, <2>3
  <1>12. CASE e.kind \in FaultSteps
    <2>1. FromFault(e) BY <1>12 DEF FromFault, FaultSteps
    <2>2. Readable(svc) /\ Sensible(svc, e) BY <1>12, SoundIsSensible DEF FaultSteps
    <2>3. PICK x \in Failures : NativeEvent(s, e) = NativeEvent(s, x)
      BY <1>1, <1>12, <2>2, HeardFault
    <2>4. SaysFault BY <1>2, <1>3, <2>1, <2>2, <2>3 DEF SaysFault, Readable
    <2> QED BY <1>6, <1>9, <1>10, <2>1, <2>4
  <1>13. CASE e.kind \notin FaultSteps \cup {"escape"}
    <2>1. ~FromFault(e) /\ e.kind # "escape" BY <1>13 DEF FromFault, FaultSteps
    <2>2. Readable(svc) /\ Sensible(svc, e) BY <2>1, SoundIsSensible
    <2>3. e.kind \in SourceKinds \cup {"stage", "background-error", "stopped"}
      BY <1>13 DEF Event, FaultSteps, SourceKinds
    <2>4. PICK x \in SourceReports \cup SceneReports : NativeEvent(s, e) = NativeEvent(s, x)
      BY <1>1, <2>2, <2>3, HeardSo
    <2>5. SaysSo BY <1>2, <1>4, <2>1, <2>2, <2>4 DEF SaysSo, Readable
    <2> QED BY <1>6, <1>9, <1>10, <2>1, <2>5
  <1> QED BY <1>11, <1>12, <1>13

-----------------------------------------------------------------------------
(* What a critical section leaves of the service's trust in its scene. *)

\* s hands over nothing, and believes what it did.
Silent(s, t) == Linked(s, t) /\ t.stageEnabled = s.stageEnabled

\* t is handed over under its own generation.
Handed(s, t) ==
  /\ s.sceneRevision < t.sceneRevision /\ t.sceneRevision \in Nat
  /\ t.scene.generation = t.generation /\ (AskedNow(s) => AskedNow(t))

\* Nothing is handed over; a new generation waits, or shows nothing.
Moved(s, t) ==
  /\ t.scene = s.scene /\ t.sceneRevision = s.sceneRevision
  /\ t.stageEnabled = s.stageEnabled /\ t.closed = s.closed
  /\ Waits(s) => Waits(t)
  /\ t.generation = s.generation \/ Waits(t) \/ ~s.scene.stage
  /\ AskedNow(s) => AskedNow(t)

\* what every critical section has to show
Calm(s, t) == Handed(s, t) \/ Moved(s, t)

\* Such a step keeps the trust.
LEMMA CalmTrusts ==
  ASSUME NEW s, NEW t, Trusts(s), Calm(s, t)
  PROVE  Trusts(t)
  BY DEF Trusts, Calm, Handed, Moved

\* A critical section that hands over nothing is calm.
LEMMA StillCalms ==
  ASSUME NEW s, NEW t, Silent(s, t)
  PROVE  Moved(s, t) /\ Calm(s, t)
  BY DEF Silent, Linked, Moved, Calm, Waits, AskedNow

\* Still parts of a critical section may come before and after.
LEMMA StillHands ==
  ASSUME NEW s, NEW r, NEW t, NEW u, Linked(s, r), Handed(r, t), Linked(t, u)
  PROVE  Handed(s, u)
  BY DEF Linked, Handed, AskedNow

\* It hands over once or more.
LEMMA HandsOn ==
  ASSUME NEW s \in Service, NEW t, NEW u, Handed(t, u),
         Handed(s, t) \/ (t.sceneRevision = s.sceneRevision /\ (AskedNow(s) => AskedNow(t)))
  PROVE  Handed(s, u)
  BY DEF Handed, Service

\* applySceneLocked hands over under the service's generation.
LEMMA AskHands ==
  ASSUME NEW s \in Service, NEW u, NEW hard, DOMAIN u = DOMAIN s,
         u.sceneRevision = s.sceneRevision, AskedNow(s) => AskedNow(u)
  PROVE  /\ Handed(s, ApplyScene(u, hard)) /\ Handed(s, Changed(ApplyScene(u, hard)))
         /\ DOMAIN ApplyScene(u, hard) = DOMAIN s
  <1> DEFINE t == ApplyScene(u, hard)
             scene == DesiredScene(u, hard)
  <1>1. /\ t.state = u.state /\ t.generation = u.generation
        /\ t.transportRevision = u.transportRevision
        /\ t.foreground = u.foreground /\ t.sceneRevision = u.sceneRevision + 1
        /\ t.scene = scene /\ DOMAIN t = DOMAIN s
    BY DEF ApplyScene, Service
  <1>2. scene.generation = u.generation BY DEF DesiredScene
  <1>3. s.sceneRevision \in Nat BY DEF Service
  <1> HIDE DEF t, scene
  <1>4. Handed(s, t) BY <1>1, <1>2, <1>3 DEF Handed, AskedNow
  <1>5. Linked(t, Changed(t)) BY <1>1 DEF Linked, Changed, Service
  <1>6. Handed(s, Changed(t)) BY <1>4, <1>5 DEF Handed, Linked, AskedNow
  <1> QED BY <1>1, <1>4, <1>6 DEF t

\* A scene of an unchanged selection is.
LEMMA SameHands ==
  ASSUME NEW s \in Service, NEW r, Linked(s, r), NEW hard
  PROVE  Handed(s, ApplyScene(r, hard)) /\ Handed(s, Changed(ApplyScene(r, hard)))
  <1>1. AskedNow(s) => AskedNow(r) BY DEF AskedNow, Linked
  <1> QED BY <1>1, AskHands DEF Linked

\* stopForeground hands over.
LEMMA StopHands ==
  ASSUME NEW s \in Service, NEW r, NEW clear \in BOOLEAN, NEW hard \in BOOLEAN, Linked(s, r)
  PROVE  Handed(s, StopForeground(r, clear, hard))
  <1> DEFINE halted == [ClearActive(Invalidate(r)) EXCEPT
                           !.stopEpoch = @ + 1, !.foreground = NoSource]
             cleared == IF clear THEN ClearImage(halted) ELSE halted
             u == [cleared EXCEPT !.state = "stopping"]
  <1>1. StopForeground(r, clear, hard) = Changed(ApplyScene(u, hard))
    BY DEF StopForeground
  <1>2. DOMAIN halted = DOMAIN s /\ halted.sceneRevision = s.sceneRevision
    BY DEF Linked, ClearActive, Invalidate, Service
  <1> HIDE DEF halted
  <1>3. DOMAIN cleared = DOMAIN s /\ cleared.sceneRevision = s.sceneRevision
    BY <1>2 DEF ClearImage, Service
  <1> HIDE DEF cleared
  <1>4. DOMAIN u = DOMAIN s /\ u.sceneRevision = s.sceneRevision /\ u.state = "stopping"
    BY <1>3 DEF Service
  <1> HIDE DEF u
  <1> QED BY <1>1, <1>4, AskHands DEF AskedNow

\* failAll hands over.
LEMMA FailHands ==
  ASSUME NEW s \in Service, NEW r, Linked(s, r)
  PROVE  Handed(s, Fail(r))
  <1> DEFINE halted == [ClearActive(Invalidate(r)) EXCEPT
                           !.stopEpoch = @ + 1, !.foreground = NoSource]
             cleared == Disarm(ClearImage(halted))
             u == [cleared EXCEPT !.stageEnablePending = FALSE, !.stageEnabled = FALSE,
                                  !.state = "error"]
  <1>1. Fail(r) = Changed(ApplyScene(u, TRUE)) BY DEF Fail
  <1>2. DOMAIN halted = DOMAIN s /\ halted.sceneRevision = s.sceneRevision
    BY DEF Linked, ClearActive, Invalidate, Service
  <1> HIDE DEF halted
  <1>3. DOMAIN cleared = DOMAIN s /\ cleared.sceneRevision = s.sceneRevision
    BY <1>2 DEF ClearImage, Disarm, Service
  <1> HIDE DEF cleared
  <1>4. DOMAIN u = DOMAIN s /\ u.sceneRevision = s.sceneRevision /\ u.state = "error"
    BY <1>3 DEF Service
  <1> HIDE DEF u
  <1> QED BY <1>1, <1>4, AskHands DEF AskedNow

\* Escape hands over.
LEMMA EscapeHands ==
  ASSUME NEW s \in Service, NEW r, Linked(s, r)
  PROVE  Handed(s, Escape(r))
  <1> DEFINE d == Disarm(r)
             h == StopForeground(d, TRUE, TRUE)
             t == [h EXCEPT !.stageEnabled = FALSE]
  <1>1. Linked(s, d) BY DEF Linked, Disarm, Service
  <1> HIDE DEF d
  <1>2. Handed(s, h) BY <1>1, StopHands
  <1>3. DOMAIN h = DOMAIN s
    BY <1>1 DEF Linked, StopForeground, Changed, ApplyScene, ClearImage, ClearActive, Invalidate
  <1>4. Escape(r) = Changed(t) BY DEF Escape, d
  <1> HIDE DEF h
  <1>5. Linked(h, Changed(t)) BY <1>3 DEF Linked, Changed, Service
  <1>6. Linked(s, s) BY DEF Linked
  <1> QED BY <1>2, <1>4, <1>5, <1>6, StillHands

\* The end of the source hands over that there is none.
LEMMA EndedHands ==
  ASSUME NEW s \in Service, NEW r, Linked(s, r)
  PROVE  Handed(s, Ended(r))
  <1> DEFINE u == [ClearActive(r) EXCEPT !.foreground = NoSource, !.state = "stopped"]
  <1>1. Ended(r) = Changed(ApplyScene(u, FALSE)) BY DEF Ended
  <1>2. DOMAIN u = DOMAIN s /\ u.sceneRevision = s.sceneRevision /\ u.state = "stopped"
    BY DEF Linked, ClearActive, Service
  <1> HIDE DEF u
  <1> QED BY <1>1, <1>2, AskHands DEF AskedNow

\* setPaused asks the source under the newest intent, or waits.
LEMMA PauseCalms ==
  ASSUME NEW s \in Service, NEW r, Silent(s, r), NEW paused \in BOOLEAN
  PROVE  Calm(s, SetPaused(r, paused))
  <1> DEFINE asked == [r EXCEPT !.paused = paused, !.transportRevision = @ + 1]
             own == \/ r.foreground.id = r.generation
                    \/ r.state # "loading" /\ r.foreground.cue = r.activeCue
             u == [asked EXCEPT !.foreground.paused = paused,
                       !.foreground.transportRevision = asked.transportRevision]
  <1>a. Linked(s, r) BY DEF Silent
  <1>1. CASE r.paused = paused BY <1>1, StillCalms DEF SetPaused
  <1>2. CASE r.paused # paused /\ own
    <2>1. SetPaused(r, paused) = Changed(ApplyScene(u, FALSE)) BY <1>2 DEF SetPaused
    <2>2. /\ DOMAIN u = DOMAIN s /\ u.sceneRevision = s.sceneRevision
          /\ u.transportRevision = s.transportRevision + 1
      BY <1>a DEF Linked, Service
    <2>3. u.foreground = Retimed(s.foreground, paused, s.transportRevision + 1)
      BY <1>a DEF Linked, Service, Retimed
    <2> HIDE DEF u
    <2>4. s.foreground \in Source /\ s.transportRevision + 1 \in Nat BY DEF Service
    <2>5. u.foreground.transportRevision = s.transportRevision + 1
      BY <2>3, <2>4, RetimedType
    <2> QED BY <2>1, <2>2, <2>5, AskHands DEF AskedNow, Calm
  <1>3. CASE r.paused # paused /\ ~own
    <2>1. SetPaused(r, paused) = Changed(asked) BY <1>3 DEF SetPaused
    <2>2. s.foreground.id # s.generation BY <1>a, <1>3 DEF Linked
    <2> DEFINE t == Changed(asked)
    <2>3. /\ t.state = s.state /\ t.generation = s.generation
          /\ t.foreground = s.foreground /\ t.sceneRevision = s.sceneRevision
          /\ t.scene = s.scene /\ t.closed = s.closed /\ t.stageEnabled = s.stageEnabled
      BY DEF Silent, Linked, Changed, Service
    <2> HIDE DEF t
    <2>4. Moved(s, t) BY <2>2, <2>3 DEF Moved, Waits, AskedNow
    <2> QED BY <2>1, <2>4 DEF t, Calm
  <1> QED BY <1>1, <1>2, <1>3

\* setPosition asks under the newest intent.
LEMMA SeekHands ==
  ASSUME NEW s \in Service, NEW r, Linked(s, r)
  PROVE  Handed(s, SetPosition(r))
  <1> DEFINE u == [r EXCEPT !.transportRevision = @ + 1, !.seekPending = TRUE,
              !.foreground.transportRevision = r.transportRevision + 1,
              !.foreground.seekRevision = @ + 1,
              !.foreground.seekPending = TRUE]
  <1>1. SetPosition(r) = Changed(ApplyScene(u, FALSE)) BY DEF SetPosition
  <1>2. /\ DOMAIN u = DOMAIN s /\ u.sceneRevision = s.sceneRevision
        /\ u.transportRevision = s.transportRevision + 1
    BY DEF Linked, Service
  <1>3. u.foreground = Resought(s.foreground, s.transportRevision + 1)
    BY DEF Linked, Service, Resought
  <1> HIDE DEF u
  <1>4. s.foreground \in Source /\ s.transportRevision + 1 \in Nat BY DEF Service
  <1>5. u.foreground.transportRevision = s.transportRevision + 1
    BY <1>3, <1>4, ResoughtType
  <1> QED BY <1>1, <1>2, <1>5, AskHands DEF AskedNow

\* Images are handed over, or wait.
LEMMA ImageCalms ==
  ASSUME NEW s \in Service, NEW r, Silent(s, r), NEW cue
  PROVE  Handed(s, StopImage(r)) /\ Silent(s, Changed(SelectImage(r, cue)))
  <1> DEFINE cleared == ClearImage(r)
             shown == [cleared EXCEPT !.stopEpoch = @ + 1]
  <1>1. Silent(s, cleared) BY DEF Silent, Linked, ClearImage, Service
  <1>2. StopImage(r) \in {StopForeground(cleared, FALSE, FALSE),
                          Changed(ApplyScene(shown, FALSE))}
    BY DEF StopImage
  <1>3. Silent(s, Changed(SelectImage(r, cue)))
    BY <1>1 DEF Changed, SelectImage, Silent, Linked, Service
  <1> HIDE DEF cleared
  <1>4. Silent(s, shown) BY <1>1 DEF Silent, Linked, Service
  <1> HIDE DEF shown
  <1> QED BY <1>1, <1>2, <1>3, <1>4, SameHands, StopHands DEF Silent

\* PLAY waits.
LEMMA ForegroundCalms ==
  ASSUME NEW s \in Service, NEW r, Silent(s, r), NEW cue, s.foreground.id <= s.generation
  PROVE  Calm(s, SelectForeground(r, cue))
  <1> DEFINE t == SelectForeground(r, cue)
  <1>1. /\ t.state = "loading" /\ t.generation = s.generation + 1
        /\ t.foreground = s.foreground /\ t.sceneRevision = s.sceneRevision
        /\ t.scene = s.scene /\ t.closed = s.closed /\ t.stageEnabled = s.stageEnabled
    BY DEF SelectForeground, SendLoad, Changed, ClearImage, Invalidate, Silent, Linked, Service
  <1> HIDE DEF t
  <1>2. Moved(s, t) BY <1>1 DEF Moved, Waits, AskedNow, Service, Source
  <1> QED BY <1>2 DEF t, Calm

\* A choice of background hands over, or does not.
LEMMA BackgroundCalms ==
  ASSUME NEW s \in Service, NEW r, Silent(s, r), NEW cues, NEW id
  PROVE  \/ Silent(s, SelectBackground(r, cues, id))
         \/ Handed(s, SelectBackground(r, cues, id))
  <1> DEFINE drained == [r EXCEPT !.backgroundSequence = @ + 1, !.backgroundLoads = NoJob,
                           !.backgroundCue = id]
             black == [drained EXCEPT !.background = NoCue]
             gone == [drained EXCEPT !.background = NoCue, !.backgroundCue = NoCue]
             asked == [drained EXCEPT
                !.backgroundLoads = [tag |-> drained.backgroundSequence, cue |-> id,
                                     stageSerial |-> r.stageSerial, at |-> r.now],
                !.wedged = @ \/ drained.backgroundLoads # NoJob]
             t == SelectBackground(r, cues, id)
  <1>1. t \in {black, ApplyScene(black, FALSE), gone, asked}
    BY Zenon DEF SelectBackground
  <1>2. Silent(s, drained) BY DEF Silent, Linked, Service
  <1> HIDE DEF drained
  <1>3. Silent(s, black) BY <1>2 DEF Silent, Linked, Service
  <1>4. Silent(s, gone) BY <1>2 DEF Silent, Linked, Service
  <1>5. Silent(s, asked) BY <1>2 DEF Silent, Linked, Service
  <1> HIDE DEF black, gone, asked, t
  <1>6. Linked(s, black) BY <1>3 DEF Silent
  <1>7. Handed(s, ApplyScene(black, FALSE)) BY <1>6, SameHands
  <1>8. Silent(s, t) \/ Handed(s, t) BY <1>1, <1>3, <1>4, <1>5, <1>7
  <1> QED BY <1>8 DEF t

\* A cue found to be a still picture hands over under the generation selected.
LEMMA CommitAsImageHands ==
  ASSUME NEW s \in Service, NEW r, Linked(s, r), NEW job
  PROVE  Handed(s, CommitAsImage(r, job))
  <1> DEFINE phase == IF r.foreground.id = 0 THEN "stopped"
                      ELSE IF r.foreground.paused THEN "paused" ELSE "playing"
             restored ==
               [r EXCEPT !.activeCue = r.foreground.cue, !.state = phase,
                         !.paused = r.foreground.paused,
                         !.seekPending = r.foreground.seekPending,
                         !.foreground.transportRevision = r.transportRevision,
                         !.image = job.cue, !.imageCue = job.cue]
             u == Arm(restored, job)
  <1>1. CommitAsImage(r, job) = Changed(ApplyScene(u, FALSE)) BY DEF CommitAsImage
  <1>2. /\ DOMAIN restored = DOMAIN s /\ restored.sceneRevision = s.sceneRevision
        /\ restored.state # "loading"
    BY DEF Linked, Service
  <1> HIDE DEF restored
  <1>3. /\ DOMAIN u = DOMAIN s /\ u.sceneRevision = s.sceneRevision /\ u.state # "loading"
    BY <1>2 DEF Arm, Service
  <1> HIDE DEF u
  <1> QED BY <1>1, <1>3, AskHands DEF AskedNow

\* A source found ready is asked under the newest intent.
LEMMA CommitForegroundHands ==
  ASSUME NEW s \in Service, NEW r, Linked(s, r), NEW job, NEW kind
  PROVE  Handed(s, CommitForeground(r, job, kind))
  <1> DEFINE source == [id |-> job.tag, cue |-> job.cue, kind |-> kind, paused |-> r.paused,
                        seekPending |-> FALSE, transportRevision |-> r.transportRevision,
                        seekRevision |-> 0]
             started == [r EXCEPT !.foreground = source]
             u == IF kind = "video" THEN Arm(started, job) ELSE started
  <1>1. CommitForeground(r, job, kind) = Changed(ApplyScene(u, FALSE))
    BY DEF CommitForeground
  <1>2. source.transportRevision = s.transportRevision BY DEF Linked
  <1> HIDE DEF source
  <1>3. /\ DOMAIN started = DOMAIN s /\ started.sceneRevision = s.sceneRevision
        /\ started.transportRevision = s.transportRevision /\ started.foreground = source
    BY DEF Linked, Service
  <1> HIDE DEF started
  <1>4. /\ DOMAIN u = DOMAIN s /\ u.sceneRevision = s.sceneRevision
        /\ u.transportRevision = s.transportRevision /\ u.foreground = source
    BY <1>3 DEF Arm, Service
  <1> HIDE DEF u
  <1> QED BY <1>1, <1>2, <1>4, AskHands DEF AskedNow

\* An image found ready is handed over.
LEMMA CommitVisualHands ==
  ASSUME NEW s \in Service, NEW r, Linked(s, r), NEW job
  PROVE  Handed(s, CommitVisual(r, job))
  <1> DEFINE shown == [r EXCEPT !.image = job.cue, !.imageCue = job.cue, !.pendingImage = NoCue]
             u == Arm(shown, job)
  <1>1. Linked(s, shown) BY DEF Linked, Service
  <1>2. CommitVisual(r, job) = Changed(ApplyScene(u, FALSE)) BY DEF CommitVisual
  <1> HIDE DEF shown
  <1>3. Linked(s, u) BY <1>1 DEF Linked, Arm, Service
  <1> HIDE DEF u
  <1> QED BY <1>2, <1>3, SameHands

\* A loaded show shows nothing under its generation.
LEMMA EmptiedMoves ==
  ASSUME NEW s \in Service, NEW r, Silent(s, r), Resting(s), ~s.scene.stage
  PROVE  Moved(s, Emptied(r)) /\ Emptied(r).state = "stopped"
  <1> DEFINE t == Emptied(r)
  <1>1. /\ t.state = "stopped" /\ t.sceneRevision = s.sceneRevision
        /\ t.scene = s.scene /\ t.closed = s.closed /\ t.stageEnabled = s.stageEnabled
    BY DEF Emptied, ClearActive, ClearImage, Invalidate, Silent, Linked, Service
  <1> HIDE DEF t
  <1>2. Moved(s, t) BY <1>1 DEF Moved, Waits, AskedNow, Resting
  <1> QED BY <1>1, <1>2 DEF t

-----------------------------------------------------------------------------
(* Every critical section is calm. *)

\* What entering a critical section leaves alone.
LEMMA EntrySilent ==
  ASSUME PlaybackInv
  PROVE  Silent(svc, svc) /\ Silent(svc, Enter(svc)) /\ Silent(svc, Input(svc))
  <1>1. svc \in Service BY EntryFacts
  <1> QED BY <1>1, EntryFacts DEF Silent, Enter, Input, Service

\* Controller commands.
LEMMA CommandsCalm ==
  ASSUME PlaybackInv, HandedOver(svc), Commands
  PROVE  Calm(svc, svc')
  <1> DEFINE s == Input(svc)
  <1>1. /\ svc \in Service /\ s \in Service /\ Silent(svc, s) /\ Linked(svc, s)
        /\ config \in Config
    BY EntryFacts, EntrySilent
  <1> HIDE DEF s
  <1>2. CASE SetMasterVolume
    BY <1>1, <1>2, SameHands DEF SetMasterVolume, s, Calm
  <1>3. CASE PauseOrResume
    <2>1. PICK paused \in BOOLEAN : svc' = SetPaused(s, paused)
      BY <1>3 DEF PauseOrResume, s
    <2> QED BY <1>1, <2>1, PauseCalms
  <1>4. CASE Seek
    BY <1>1, <1>4, SeekHands DEF Seek, s, Calm
  <1>5. CASE PressImageAgain
    BY <1>1, <1>5, ImageCalms DEF PressImageAgain, s, Calm
  <1>6. CASE PressForegroundAgain
    <2>1. svc' = SetPaused(s, ~svc.paused) /\ (~svc.paused) \in BOOLEAN
      BY <1>6 DEF PressForegroundAgain, s
    <2> QED BY <1>1, <2>1, PauseCalms
  <1>7. CASE PressBackgroundAgain \/ PressBackground
    <2>1. PICK v \in CueRef, id \in CueRef :
             svc' = Changed(SelectBackground([s EXCEPT !.backgroundOverride = v],
                                             config.cues, id))
      <3>1. config.defaultBackground \in CueRef /\ NoCue \in CueRef
        BY <1>1 DEF Config, CueRef
      <3>2. CASE PressBackgroundAgain
        BY <3>1, <3>2 DEF PressBackgroundAgain, ClearBackgroundOverride, s
      <3>3. CASE PressBackground
        BY <3>3 DEF PressBackground, CueRef, s
      <3> QED BY <1>7, <3>2, <3>3
    <2> DEFINE x == [s EXCEPT !.backgroundOverride = v]
               t == SelectBackground(x, config.cues, id)
    <2>2. Silent(svc, x) BY <1>1 DEF Silent, Linked, Service
    <2>3. x \in Service BY <1>1, CueFields
    <2> HIDE DEF x
    <2>4. Silent(svc, t) \/ Handed(svc, t) BY <1>1, <2>2, BackgroundCalms
    <2>5. t \in Service BY <2>3, SelectBackgroundType
    <2>6. svc' = Changed(t) BY <2>1 DEF t, x
    <2> HIDE DEF t
    <2>7. Silent(t, svc') BY <2>5, <2>6 DEF Silent, Linked, Changed, Service
    <2>8. CASE Silent(svc, t)
      <3>1. Silent(svc, svc') BY <2>7, <2>8 DEF Silent, Linked
      <3> QED BY <3>1, StillCalms
    <2>9. CASE Handed(svc, t)
      <3>1. Linked(svc, svc) /\ Linked(t, svc') BY <2>7 DEF Linked, Silent
      <3> QED BY <2>9, <3>1, StillHands DEF Calm
    <2> QED BY <2>4, <2>8, <2>9
  <1>8. CASE PressImage
    <2>1. PICK cue : svc' = Changed(SelectImage(s, cue)) BY <1>8 DEF PressImage, s
    <2>2. Silent(svc, svc') BY <1>1, <2>1, ImageCalms
    <2> QED BY <2>2, StillCalms
  <1>9. CASE PressForeground
    <2>1. PICK cue : svc' = SelectForeground(s, cue) BY <1>9 DEF PressForeground, s
    <2>2. svc.foreground.id <= svc.generation
      <3>1. /\ svc.foreground.id \in Nat /\ svc.scene.generation \in Nat
            /\ svc.generation \in Nat
        BY <1>1 DEF Service, Source, Scene
      <3> QED BY <3>1 DEF HandedOver
    <2> QED BY <1>1, <2>1, <2>2, ForegroundCalms
  <1>10. ASSUME NEW d, Linked(svc, d), NEW hard \in BOOLEAN,
                svc' \in Halted(StopForeground(d, TRUE, hard))
         PROVE  Calm(svc, svc')
    <2> DEFINE h == StopForeground(d, TRUE, hard)
    <2>1. Handed(svc, h) BY <1>1, <1>10, StopHands
    <2>2. DOMAIN h = DOMAIN svc
      BY <1>10 DEF Linked, StopForeground, Changed, ApplyScene, ClearImage, ClearActive,
                   Invalidate
    <2>3. svc' = h \/ svc' = [h EXCEPT !.state = "error"] BY <1>10 DEF Halted
    <2> HIDE DEF h
    <2>4. Handed(svc, svc')
      <3>1. CASE svc' = [h EXCEPT !.state = "error"]
        <4>1. /\ svc'.state = "error" /\ svc'.sceneRevision = h.sceneRevision
              /\ svc'.scene = h.scene /\ svc'.generation = h.generation
          BY <1>1, <2>2, <3>1 DEF Service
        <4> QED BY <2>1, <4>1 DEF Handed, AskedNow
      <3> QED BY <2>1, <2>3, <3>1
    <2> QED BY <2>4 DEF Calm
  <1>11. Linked(svc, Disarm(s)) /\ Linked(svc, [Disarm(s) EXCEPT !.stageEnabled = FALSE])
    BY <1>1 DEF Linked, Disarm, Service
  <1>12. CASE Stop BY <1>1, <1>10, <1>12 DEF Stop, s
  <1>13. CASE EmergencyStop
    <2> DEFINE e == [Disarm(s) EXCEPT !.stageEnabled = FALSE]
    <2>1. svc' \in Halted(StopForeground(e, TRUE, TRUE)) BY <1>13 DEF EmergencyStop, s
    <2>2. Linked(svc, e) BY <1>11
    <2> HIDE DEF e
    <2> QED BY <1>10, <2>1, <2>2
  <1>14. CASE Close
    <2> DEFINE h == StopForeground(Disarm(s), TRUE, TRUE)
    <2>1. svc' = [h EXCEPT !.closed = TRUE] BY <1>14 DEF Close, s
    <2>2. DOMAIN h = DOMAIN svc
      BY <1>11 DEF Linked, StopForeground, Changed, ApplyScene, ClearImage, ClearActive,
                   Invalidate
    <2>3. Handed(svc, h) BY <1>1, <1>11, StopHands
    <2> HIDE DEF h
    <2>4. /\ svc'.state = h.state /\ svc'.sceneRevision = h.sceneRevision
          /\ svc'.scene = h.scene /\ svc'.generation = h.generation
          /\ svc'.transportRevision = h.transportRevision /\ svc'.foreground = h.foreground
      BY <1>1, <2>1, <2>2 DEF Service
    <2> QED BY <2>3, <2>4 DEF Handed, AskedNow, Calm
  <1> QED BY <1>2, <1>3, <1>4, <1>5, <1>6, <1>7, <1>8, <1>9, <1>12, <1>13, <1>14 DEF Commands

\* The three workers.
LEMMA PreparationCalm ==
  ASSUME PlaybackInv, Preparation
  PROVE  Calm(svc, svc')
  <1> DEFINE s == Enter(svc)
  <1>1. /\ svc \in Service /\ s \in Service /\ Silent(svc, svc) /\ Silent(svc, s)
        /\ Linked(svc, s)
    BY EntryFacts, EntrySilent
  <1> HIDE DEF s
  <1>2. CASE TakeLoad \/ TakeImage \/ TakeBackground \/ DropLoad \/ DropImage \/ DropBackground
    <2>1. svc' \in {svc, [svc EXCEPT !.loads = NoJob], [svc EXCEPT !.visualLoads = NoJob],
                    [svc EXCEPT !.backgroundLoads = NoJob]}
      BY <1>2 DEF TakeLoad, TakeImage, TakeBackground, DropLoad, DropImage, DropBackground
    <2>2. Silent(svc, svc') BY <1>1, <2>1 DEF Silent, Linked, Service
    <2> QED BY <2>2, StillCalms
  <1>3. CASE FinishLoad
    <2>1. \/ svc' = Fail(s) \/ svc' = CommitAsImage(s, loader)
          \/ \E kind \in Kinds : svc' = CommitForeground(s, loader, kind)
      <3>1. PICK found \in Findings, outputs \in BOOLEAN :
              svc' = CASE found \notin Kinds \/ ~outputs -> Fail(s)
                       [] found = "image" /\ outputs -> CommitAsImage(s, loader)
                       [] found \in {"audio", "video"} /\ outputs ->
                            CommitForeground(s, loader, found)
        BY <1>3 DEF FinishLoad, s
      <3> QED BY <3>1 DEF Kinds, Findings
    <2> QED BY <1>1, <2>1, FailHands, CommitAsImageHands, CommitForegroundHands DEF Calm
  <1>4. CASE FinishImage
    <2> DEFINE rest == [s EXCEPT !.pendingImage = NoCue]
    <2>1. svc' \in {CommitVisual(s, imageWorker), Changed(ApplyScene(rest, FALSE))}
      BY <1>4 DEF FinishImage, s
    <2>2. Linked(svc, rest) BY <1>1 DEF Linked, Service
    <2> HIDE DEF rest
    <2> QED BY <1>1, <2>1, <2>2, CommitVisualHands, SameHands DEF Calm
  <1>5. CASE FinishBackground
    <2>1. PICK cue : svc' = Changed(ApplyScene([s EXCEPT !.background = cue], FALSE))
      BY <1>5 DEF FinishBackground, s
    <2> DEFINE x == [s EXCEPT !.background = cue]
    <2>2. Linked(svc, x) BY <1>1 DEF Linked, Service
    <2> HIDE DEF x
    <2> QED BY <1>1, <2>1, <2>2, SameHands DEF x, Calm
  <1> QED BY <1>2, <1>3, <1>4, <1>5 DEF Preparation

\* The update reservation.
LEMMA UpdateCalm ==
  ASSUME PlaybackInv, Update
  PROVE  Calm(svc, svc')
  <1>1. /\ svc \in Service /\ Silent(svc, Enter(svc)) /\ Silent(svc, Input(svc))
        /\ svc.scene.stage = svc.stageDesired
    BY EntryFacts, EntrySilent DEF PlaybackInv, ReservationInv
  <1>2. CASE ReserveUpdate
    <2>1. /\ svc.state = "stopped" /\ ~svc.stageDesired
          /\ svc' = Changed([Invalidate(Input(svc)) EXCEPT !.stopEpoch = @ + 1,
                                                           !.updatePending = TRUE])
      BY <1>2 DEF ReserveUpdate
    <2>2. /\ svc'.state = "stopped" /\ svc'.sceneRevision = svc.sceneRevision
          /\ svc'.scene = svc.scene /\ svc'.closed = svc.closed
          /\ svc'.stageEnabled = svc.stageEnabled
      BY <1>1, <2>1 DEF Invalidate, Changed, Input, Service
    <2> QED BY <1>1, <2>1, <2>2 DEF Calm, Moved, Waits, AskedNow
  <1>3. CASE ReleaseUpdate
    <2>1. svc' = Changed([Enter(svc) EXCEPT !.updatePending = FALSE]) BY <1>3 DEF ReleaseUpdate
    <2>2. Silent(svc, svc') BY <1>1, <2>1 DEF Silent, Linked, Changed, Enter, Service
    <2> QED BY <2>2, StillCalms
  <1> QED BY <1>2, <1>3 DEF Update

\* The stage.
LEMMA StageCalm ==
  ASSUME PlaybackInv, Stage
  PROVE  Calm(svc, svc')
  <1> DEFINE s == Input(svc)
             t == Enter(svc)
  <1>1. /\ svc \in Service /\ s \in Service /\ t \in Service /\ Silent(svc, svc)
        /\ Silent(svc, t) /\ Silent(svc, s) /\ Linked(svc, t) /\ Linked(svc, s)
    BY EntryFacts, EntrySilent
  <1> HIDE DEF s, t
  <1>2. CASE StageOff
    <2> DEFINE x == [Disarm(s) EXCEPT !.stageEnablePending = FALSE]
    <2>1. svc' = Changed(ApplyScene(x, FALSE)) BY <1>2 DEF StageOff, s
    <2>2. Linked(svc, x) BY <1>1 DEF Disarm, Linked, Service
    <2> HIDE DEF x
    <2> QED BY <1>1, <2>1, <2>2, SameHands DEF Calm
  <1>3. CASE StageOnBegin
    <2>1. svc' = [s EXCEPT !.stageSerial = @ + 1] BY <1>3 DEF StageOnBegin, s
    <2>2. Silent(svc, svc') BY <1>1, <2>1 DEF Silent, Linked, Service
    <2> QED BY <2>2, StillCalms
  <1>4. CASE StageOnEnd
    <2>1. PICK at : svc' = Changed([ApplyScene([t EXCEPT !.stageDesired = TRUE, !.armedAt = at],
                                               FALSE)
                                    EXCEPT !.stageEnablePending = TRUE])
      BY <1>4 DEF StageOnEnd, t
    <2> DEFINE x == [t EXCEPT !.stageDesired = TRUE, !.armedAt = at]
               y == ApplyScene(x, FALSE)
    <2>2. Linked(svc, x) BY <1>1 DEF Linked, Service
    <2> HIDE DEF x
    <2>3. Handed(svc, y) BY <1>1, <2>2, SameHands
    <2>4. DOMAIN y = DOMAIN svc BY <2>2 DEF Linked, ApplyScene
    <2>5. svc' = Changed([y EXCEPT !.stageEnablePending = TRUE]) BY <2>1 DEF x
    <2> HIDE DEF y
    <2>6. Linked(y, svc') BY <1>1, <2>4, <2>5 DEF Linked, Changed, Service
    <2>7. Linked(svc, svc) BY DEF Linked
    <2> QED BY <2>3, <2>6, <2>7, StillHands DEF Calm
  <1>5. CASE StageOnRefused
    <2>1. svc' = svc BY <1>5 DEF StageOnRefused
    <2> QED BY <1>1, <2>1, StillCalms
  <1> QED BY <1>2, <1>3, <1>4, <1>5 DEF Stage

\* An operation on the saved show.
LEMMA ShowCalm ==
  ASSUME PlaybackInv, LoadRests(svc, edit), LoadIsDark(svc, edit), Show
  PROVE  Calm(svc, svc')
  <1> DEFINE s == Enter(svc)
  <1>1. /\ svc \in Service /\ s \in Service /\ Silent(svc, svc)
        /\ Silent(svc, s) /\ Silent(svc, Input(svc)) /\ Linked(svc, s) /\ Linked(svc, svc)
        /\ config \in Config /\ edit \in Edit
        /\ svc.scene.stage = svc.stageDesired
    BY EntryFacts, EntrySilent DEF PlaybackInv, ReservationInv
  <1> HIDE DEF s
  <1>2. ASSUME Silent(svc, svc') PROVE Calm(svc, svc') BY <1>2, StillCalms
  <1>3. CASE Refuse \/ PrepareStage
    <2>1. svc' = svc BY <1>3 DEF Refuse, PrepareStage
    <2> QED BY <1>1, <1>2, <2>1
  <1>4. CASE SaveFailed
    <2>1. Silent(svc, svc') BY <1>1, <1>4 DEF SaveFailed, Silent, Linked, Service, s
    <2> QED BY <1>2, <2>1
  <1>5. CASE BeginPlaylist \/ BeginStage \/ BeginLoad
    <2>1. svc' = Input(svc) BY <1>5 DEF BeginPlaylist, BeginStage, BeginLoad, Begin
    <2> QED BY <1>1, <1>2, <2>1
  <1>6. CASE PreparePlaylist
    <2>1. PICK removing : svc' = [s EXCEPT !.removing = removing]
      BY <1>6 DEF PreparePlaylist, s
    <2>2. Silent(svc, svc') BY <1>1, <2>1 DEF Silent, Linked, Service
    <2> QED BY <1>2, <2>2
  <1>7. CASE ConfigureOutputs
    <2>1. svc' = [Input(svc) EXCEPT !.configBusy = TRUE] BY <1>7 DEF ConfigureOutputs
    <2>2. Silent(svc, svc') BY <1>1, <2>1 DEF Silent, Linked, Service
    <2> QED BY <1>2, <2>2
  <1>8. CASE PrepareLoad
    <2>1. svc' = [s EXCEPT !.configBusy = TRUE] BY <1>8 DEF PrepareLoad, s
    <2>2. Silent(svc, svc') BY <1>1, <2>1 DEF Silent, Linked, Service
    <2> QED BY <1>2, <2>2
  <1>9. ASSUME NEW r \in Service, Silent(svc, r), NEW show \in Config
        PROVE  LET t == ClearBackgroundOverride(r, show) IN
               t \in Service /\ (Silent(svc, t) \/ Handed(svc, t))
    <2> DEFINE x == [r EXCEPT !.backgroundOverride = NoCue]
               t == SelectBackground(x, show.cues, show.defaultBackground)
    <2>1. NoCue \in CueRef /\ show.defaultBackground \in CueRef BY DEF Config, CueRef
    <2>2. x \in Service BY <2>1, CueFields
    <2>3. Silent(svc, x) BY <1>9 DEF Silent, Linked, Service
    <2> HIDE DEF x
    <2>4. t \in Service BY <2>1, <2>2, SelectBackgroundType
    <2>5. Silent(svc, t) \/ Handed(svc, t) BY <1>1, <2>3, BackgroundCalms
    <2> HIDE DEF t
    <2> QED BY <2>4, <2>5 DEF ClearBackgroundOverride, t, x
  \* what a section goes on with once the background is chosen
  <1>10. ASSUME NEW t \in Service, Silent(svc, t) \/ Handed(svc, t)
         PROVE  /\ Calm(svc, Changed(t)) /\ Handed(svc, ApplyScene(t, FALSE))
                /\ Handed(svc, Changed(ApplyScene(t, FALSE)))
    <2>1. Silent(t, Changed(t)) BY DEF Silent, Linked, Changed, Service
    <2>2. Linked(t, t) BY DEF Linked
    <2>3. /\ Handed(t, ApplyScene(t, FALSE))
          /\ Handed(t, Changed(ApplyScene(t, FALSE)))
      BY <2>2, SameHands
    <2>4. CASE Silent(svc, t)
      <3>1. Silent(svc, Changed(t)) BY <2>1, <2>4 DEF Silent, Linked
      <3>2. t.sceneRevision = svc.sceneRevision /\ (AskedNow(svc) => AskedNow(t))
        BY <2>4 DEF Silent, Linked, AskedNow
      <3> QED BY <1>1, <2>3, <3>1, <3>2, StillCalms, HandsOn
    <2>5. CASE Handed(svc, t)
      <3>1. Linked(t, Changed(t)) BY <2>1 DEF Silent
      <3>2. Handed(svc, Changed(t)) BY <1>1, <2>5, <3>1, StillHands
      <3> QED BY <1>1, <2>3, <2>5, <3>2, HandsOn DEF Calm
    <2> QED BY <1>10, <2>4, <2>5
  <1>11. CASE CommitPlaylist
    <2> DEFINE idle == [s EXCEPT !.removing = {}]
               settled == IF LosesBackground
                           THEN ClearBackgroundOverride(idle, EditedConfig) ELSE idle
    <2>1. svc' \in {Changed(settled), Changed(ApplyScene(settled, FALSE))}
      BY <1>11 DEF CommitPlaylist, s
    <2>2. EditedConfig \in Config BY <1>1, EditedType
    <2>3. idle \in Service BY <1>1, OtherFields
    <2>4. Silent(svc, idle) BY <1>1 DEF Silent, Linked, Service
    <2> HIDE DEF idle
    <2>5. settled \in Service /\ (Silent(svc, settled) \/ Handed(svc, settled))
      BY <1>9, <2>2, <2>3, <2>4
    <2> HIDE DEF settled
    <2> QED BY <1>10, <2>1, <2>5 DEF Calm
  <1>12. CASE CommitOutputs
    <2> DEFINE dark == Disarm(s)
               idle == [dark EXCEPT
                    !.configBusy = FALSE, !.outputFault = FALSE, !.stageEnabled = FALSE]
               h == StopForeground(idle, TRUE, TRUE)
               broken == [h EXCEPT !.state = "error"]
    <2>1. PICK halted : /\ halted \in {h, broken}
                        /\ svc' = SelectBackground(halted, config.cues, svc.backgroundCue)
      BY <1>12, Zenon DEF CommitOutputs, Halted, s
    <2>2. dark \in Service BY <1>1, DisarmType
    <2>3. Linked(svc, dark) BY <1>1 DEF Disarm, Linked, Service
    <2> HIDE DEF dark
    <2>4. idle \in Service BY <2>2, BoolFields, ZenonT(30)
    <2>5. Linked(svc, idle) BY <2>2, <2>3 DEF Linked, Service
    <2> HIDE DEF idle
    <2>6. h \in Service /\ Handed(svc, h) BY <1>1, <2>4, <2>5, StopForegroundRests, StopHands
    <2> HIDE DEF h
    <2>7. broken \in Service BY <2>6, OtherFields DEF Phases
    <2>8. /\ broken.state = "error" /\ broken.sceneRevision = h.sceneRevision
          /\ broken.scene = h.scene /\ broken.generation = h.generation
      BY <2>6 DEF Service
    <2>9. Handed(svc, broken) BY <2>6, <2>8 DEF Handed, AskedNow
    <2> HIDE DEF broken
    <2>10. halted \in Service /\ Handed(svc, halted) BY <2>1, <2>6, <2>7, <2>9
    <2>11. Silent(halted, halted) BY DEF Silent, Linked
    <2>12. Silent(halted, svc') \/ Handed(halted, svc')
      BY <2>1, <2>10, <2>11, BackgroundCalms
    <2>13. CASE Silent(halted, svc')
      <3>1. Linked(halted, svc') BY <2>13 DEF Silent
      <3> QED BY <1>1, <2>10, <3>1, StillHands DEF Calm
    <2> QED BY <1>1, <2>10, <2>12, <2>13, HandsOn DEF Calm
  <1>13. CASE CommitStage
    <2> DEFINE show == [config EXCEPT !.defaultBackground = edit.default]
               chosen == IF config.defaultBackground # edit.default
                          THEN ClearBackgroundOverride(s, show)
                          ELSE IF edit.reselect
                          THEN SelectBackground(s, config.cues, svc.backgroundCue) ELSE s
    <2>1. svc' \in {s, Changed(ApplyScene(chosen, FALSE))}
      <3>1. config' = show BY <1>13 DEF CommitStage
      <3>2. svc' = IF svc.closed THEN s ELSE Changed(ApplyScene(
                     IF config.defaultBackground # edit.default
                          THEN ClearBackgroundOverride(s, config')
                          ELSE IF edit.reselect
                          THEN SelectBackground(s, config.cues, svc.backgroundCue) ELSE s, FALSE))
        BY <1>13, Zenon DEF CommitStage, s
      <3> HIDE DEF show
      <3> QED BY <3>1, <3>2
    <2>2. show \in Config BY <1>1 DEF Config, Edit
    <2> HIDE DEF show
    <2>3. LET t == ClearBackgroundOverride(s, show) IN
          t \in Service /\ (Silent(svc, t) \/ Handed(svc, t))
      BY <1>1, <1>9, <2>2
    <2>4. svc.backgroundCue \in CueRef BY <1>1 DEF Service
    <2>5. LET t == SelectBackground(s, config.cues, svc.backgroundCue) IN
          t \in Service /\ (Silent(svc, t) \/ Handed(svc, t))
      BY <1>1, <2>4, SelectBackgroundType, BackgroundCalms
    <2>6. chosen \in Service /\ (Silent(svc, chosen) \/ Handed(svc, chosen))
      BY <1>1, <2>3, <2>5
    <2> HIDE DEF chosen
    <2>7. Handed(svc, Changed(ApplyScene(chosen, FALSE))) BY <1>10, <2>6
    <2> QED BY <1>1, <1>2, <2>1, <2>7 DEF Calm
  <1>14. CASE CommitLoad
    <2> DEFINE x == Emptied(s)
    <2>1. /\ edit.op = "load" /\ edit.saving
          /\ svc' \in {x, Changed(SelectBackground(x, edit.cues, edit.default))}
      BY <1>14 DEF CommitLoad, Emptied, s
    <2>2. Resting(svc) /\ ~svc.scene.stage BY <1>1, <2>1 DEF LoadRests, LoadIsDark
    <2>3. Moved(svc, x) /\ x.state = "stopped" BY <1>1, <2>2, EmptiedMoves
    <2>4. x \in Service BY <1>1, EmptiedType
    <2> HIDE DEF x
    <2> DEFINE t == SelectBackground(x, edit.cues, edit.default)
    <2>5. edit.default \in CueRef BY <1>1 DEF Edit
    <2>6. t \in Service BY <2>4, <2>5, SelectBackgroundType
    <2>7. Silent(x, x) BY DEF Silent, Linked
    <2>8. Silent(x, t) \/ Handed(x, t) BY <2>4, <2>7, BackgroundCalms
    <2> HIDE DEF t
    <2>9. Silent(t, Changed(t)) BY <2>6 DEF Silent, Linked, Changed, Service
    <2>10. CASE Silent(x, t)
      <3>1. Silent(x, Changed(t)) BY <2>9, <2>10 DEF Silent, Linked
      <3>2. Moved(svc, Changed(t))
        BY <2>3, <3>1 DEF Moved, Silent, Linked, Waits, AskedNow
      <3> QED BY <2>1, <2>3, <3>2 DEF Calm, t
    <2>11. CASE Handed(x, t)
      <3>1. Linked(x, x) /\ Linked(t, Changed(t)) BY <2>7, <2>9 DEF Silent
      <3>2. Handed(x, Changed(t)) BY <2>11, <3>1, StillHands
      <3>3. Handed(svc, Changed(t)) BY <1>1, <2>3, <3>2, HandsOn DEF Moved
      <3> QED BY <2>1, <2>3, <3>3 DEF Calm, t
    <2> QED BY <2>8, <2>10, <2>11
  <1> QED BY <1>3, <1>4, <1>5, <1>6, <1>7, <1>8, <1>11, <1>12, <1>13, <1>14 DEF Show

\* Every critical section of the service.
LEMMA ServiceCalm ==
  ASSUME PlaybackInv, HandedOver(svc), LoadRests(svc, edit), LoadIsDark(svc, edit),
         Commands \/ Preparation \/ Update \/ Stage \/ Show
  PROVE  Calm(svc, svc')
  BY CommandsCalm, PreparationCalm, UpdateCalm, StageCalm, ShowCalm

-----------------------------------------------------------------------------
(* Nothing is shown while a loaded show is being saved. *)

\* Nothing more is to be shown in t than in s.
Dims(s, t) ==
  /\ t.stageDesired => s.stageDesired
  /\ s.pendingImage = NoCue => t.pendingImage = NoCue
  /\ DOMAIN t = DOMAIN s

\* The helpers that withdraw, hand over or announce show nothing more.
LEMMA HelpersDim ==
  ASSUME NEW s, DOMAIN s = DOMAIN InitialService
  PROVE  /\ \A hard \in BOOLEAN : Dims(s, ApplyScene(s, hard))
         /\ Dims(s, Changed(s)) /\ Dims(s, Disarm(s)) /\ Dims(s, Fail(s))
         /\ \A image, hard \in BOOLEAN : Dims(s, StopForeground(s, image, hard))
         /\ Dims(s, Escape(s)) /\ Dims(s, Ended(s))
         /\ \A kind : Dims(s, Rested(s, kind)) /\ Dims(s, Acked(s, kind))
  <1> USE DEF Dims
  <1>a. {"stageDesired", "pendingImage"} \subseteq DOMAIN s BY DEF InitialService
  <1>1. /\ \A hard \in BOOLEAN : Dims(s, ApplyScene(s, hard))
        /\ Dims(s, Changed(s)) /\ Dims(s, Disarm(s))
        /\ \A kind : Dims(s, Rested(s, kind)) /\ Dims(s, Acked(s, kind))
    BY <1>a DEF ApplyScene, Changed, Disarm, Rested, Acked
  <1>2. ASSUME NEW image \in BOOLEAN, NEW hard \in BOOLEAN
        PROVE Dims(s, StopForeground(s, image, hard))
    BY <1>a, ZenonT(60)
    DEF StopForeground, Changed, ApplyScene, ClearImage, ClearActive, Invalidate
  <1>3. Dims(s, Fail(s))
    <2> DEFINE halted == [ClearActive(Invalidate(s)) EXCEPT
                            !.stopEpoch = @ + 1, !.foreground = NoSource]
               gone == ClearImage(halted)
               dark == [Disarm(gone) EXCEPT !.stageEnablePending = FALSE,
                                            !.stageEnabled = FALSE, !.state = "error"]
    <2>1. Dims(s, halted) BY <1>a DEF ClearActive, Invalidate
    <2>2. Fail(s) = Changed(ApplyScene(dark, TRUE)) BY DEF Fail
    <2> HIDE DEF halted
    <2>3. Dims(s, gone) BY <1>a, <2>1 DEF ClearImage
    <2> HIDE DEF gone
    <2>4. Dims(s, dark) BY <1>a, <2>3 DEF Disarm
    <2> HIDE DEF dark
    <2> QED BY <1>a, <2>2, <2>4 DEF Changed, ApplyScene
  <1>4. Dims(s, Escape(s))
    <2> DEFINE d == Disarm(s)
               h == StopForeground(d, TRUE, TRUE)
    <2>1. Dims(s, d) BY <1>a DEF Disarm
    <2>2. Escape(s) = Changed([h EXCEPT !.stageEnabled = FALSE]) BY DEF Escape
    <2> HIDE DEF d
    <2>3. Dims(s, h)
      BY <1>a, <2>1, ZenonT(60)
      DEF StopForeground, Changed, ApplyScene, ClearImage, ClearActive, Invalidate
    <2> HIDE DEF h
    <2> QED BY <1>a, <2>2, <2>3 DEF Changed
  <1>5. Dims(s, Ended(s)) BY <1>a DEF Ended, Changed, ApplyScene, ClearActive
  <1> QED BY <1>1, <1>2, <1>3, <1>4, <1>5

\* One part of a critical section after another.
LEMMA DimsOn ==
  ASSUME NEW s, NEW t, NEW u, Dims(s, t), Dims(t, u)
  PROVE  Dims(s, u)
  BY DEF Dims

\* No event shows more.
LEMMA NativeEventDims ==
  ASSUME NEW s \in Service, NEW e \in Event
  PROVE  Dims(s, NativeEvent(s, e))
  <1> DEFINE fault == [s EXCEPT !.outputFault = TRUE]
             noted == [s EXCEPT !.stageEnabled = e.stageEnabled,
                                  !.stageEnablePending = FALSE]
             u == NoteStage(s, e)
             v == [u EXCEPT !.outputFault = TRUE]
  <1>1. Dims(s, fault) /\ Dims(s, noted) /\ Dims(s, u) /\ Dims(s, v)
    BY DEF NoteStage, Dims, Service
  <1>2. \/ NativeEvent(s, e) \in {s, Changed(s), Escape(s), Changed(noted), Fail(fault), Fail(s)}
        \/ NativeEvent(s, e) = Follow(u, e)
    BY Zenon DEF NativeEvent, fault, noted, u
  <1>3. Follow(u, e) \in {u, Changed(u), Acked(u, e.kind), Ended(u),
                          Changed(Rested(u, "stopped")), Fail(u), Fail(v)}
    BY Zenon DEF Follow, Acked, Ended, Rested, v
  <1>4. DOMAIN s = DOMAIN InitialService BY DEF Service, InitialService
  <1> HIDE DEF fault, noted, u, v
  <1>5. /\ DOMAIN fault = DOMAIN InitialService /\ DOMAIN noted = DOMAIN InitialService
        /\ DOMAIN u = DOMAIN InitialService /\ DOMAIN v = DOMAIN InitialService
    BY <1>1, <1>4 DEF Dims
  <1>6. /\ Dims(s, s) /\ Dims(s, Changed(s)) /\ Dims(s, Escape(s)) /\ Dims(s, Fail(s))
        /\ Dims(noted, Changed(noted)) /\ Dims(fault, Fail(fault))
    BY <1>4, <1>5, HelpersDim DEF Dims
  <1>7. /\ Dims(u, Changed(u)) /\ Dims(u, Acked(u, e.kind)) /\ Dims(u, Ended(u))
        /\ Dims(u, Rested(u, "stopped")) /\ Dims(u, Fail(u)) /\ Dims(v, Fail(v))
    BY <1>5, HelpersDim
  <1>8. Dims(u, Changed(Rested(u, "stopped")))
    <2>1. DOMAIN Rested(u, "stopped") = DOMAIN InitialService BY <1>5, <1>7 DEF Dims
    <2> QED BY <1>7, <2>1, HelpersDim, DimsOn
  <1> QED BY <1>1, <1>2, <1>3, <1>6, <1>7, <1>8, DimsOn

\* Nothing is shown in spite of the lock.
LEMMA DarkStays ==
  ASSUME PlaybackInv, LoadRests(svc, edit), LoadIsDark(svc, edit),
         Commands \/ Preparation \/ Update \/ Stage \/ Show
  PROVE  LoadIsDark(svc', edit')
  <1>1. /\ svc \in Service /\ edit \in Edit
        /\ DOMAIN svc = DOMAIN InitialService
        /\ DOMAIN Enter(svc) = DOMAIN InitialService
        /\ DOMAIN Input(svc) = DOMAIN InitialService
    BY EntryFacts
  <1>2. Dims(svc, Enter(svc)) /\ Dims(svc, Input(svc))
    BY <1>1 DEF Dims, Enter, Input, InitialService
  <1>3. CASE edit'.op # "load" \/ ~edit'.saving BY <1>3 DEF LoadIsDark
  <1>4. CASE PrepareLoad
    <2>1. svc' = [Enter(svc) EXCEPT !.configBusy = TRUE] /\ CanLoadPlaylist
      BY <1>4 DEF PrepareLoad
    <2>2. svc'.stageDesired = svc.stageDesired /\ svc'.pendingImage = svc.pendingImage
      BY <1>1, <2>1 DEF Enter, Service
    <2> QED BY <2>1, <2>2 DEF LoadIsDark, CanLoadPlaylist
  <1>5. CASE /\ edit' = edit /\ edit.op = "load" /\ edit.saving
    <2>1. svc.configBusy /\ Resting(svc) /\ ~svc.stageDesired /\ svc.pendingImage = NoCue
      BY <1>5 DEF LoadRests, LoadIsDark
    <2>2. ASSUME Dims(svc, svc') PROVE LoadIsDark(svc', edit')
      BY <1>5, <2>1, <2>2 DEF LoadIsDark, Dims
    <2>3. edit # NoEdit BY <1>5 DEF NoEdit
    <2> DEFINE s == Input(svc)
               t == Enter(svc)
    <2>4. DOMAIN s = DOMAIN InitialService /\ DOMAIN t = DOMAIN InitialService
          /\ Dims(svc, s) /\ Dims(svc, t)
      BY <1>1, <1>2
    <2> HIDE DEF s, t
    <2>5. ASSUME NEW x, Dims(svc, x), NEW hard \in BOOLEAN
          PROVE  /\ Dims(svc, ApplyScene(x, hard)) /\ Dims(svc, Changed(x))
                 /\ Dims(svc, Changed(ApplyScene(x, hard)))
      <3>1. DOMAIN x = DOMAIN InitialService BY <1>1, <2>5 DEF Dims
      <3>2. Dims(x, ApplyScene(x, hard)) /\ Dims(x, Changed(x)) BY <3>1, HelpersDim
      <3>3. DOMAIN ApplyScene(x, hard) = DOMAIN InitialService BY <3>1, <3>2 DEF Dims
      <3>4. Dims(ApplyScene(x, hard), Changed(ApplyScene(x, hard))) BY <3>3, HelpersDim
      <3> QED BY <2>5, <3>2, <3>4, DimsOn
    <2>6. ASSUME NEW x, Dims(svc, x), NEW hard \in BOOLEAN
          PROVE  LET h == StopForeground(x, TRUE, hard) IN
                 Dims(svc, h) /\ DOMAIN h = DOMAIN InitialService
      <3>1. DOMAIN x = DOMAIN InitialService BY <1>1, <2>6 DEF Dims
      <3>2. Dims(x, StopForeground(x, TRUE, hard)) BY <3>1, HelpersDim
      <3> QED BY <2>6, <3>1, <3>2, DimsOn DEF Dims
    <2>7. CASE Commands
      <3>1. CASE SetMasterVolume
        <4>1. svc' = Changed(ApplyScene(s, FALSE)) BY <3>1 DEF SetMasterVolume, s
        <4> QED BY <2>2, <2>4, <2>5, <4>1
      <3>2. CASE PauseOrResume \/ Seek BY <2>1, <3>2 DEF PauseOrResume, Seek, Unblocked
      <3>3. CASE \/ PressImageAgain \/ PressForegroundAgain \/ PressBackgroundAgain
                 \/ PressBackground \/ PressImage \/ PressForeground
        BY <2>1, <3>3 DEF PressImageAgain, PressForegroundAgain, PressBackgroundAgain,
           PressBackground, PressImage, PressForeground, Pressed, Unblocked
      <3>4. Dims(svc, Disarm(s)) /\ Dims(svc, [Disarm(s) EXCEPT !.stageEnabled = FALSE])
        <4>1. Dims(s, Disarm(s)) BY <2>4, HelpersDim
        <4> DEFINE d == Disarm(s)
        <4>2. DOMAIN d = DOMAIN InitialService BY <2>4, <4>1 DEF Dims
        <4> HIDE DEF d
        <4>3. Dims(d, [d EXCEPT !.stageEnabled = FALSE]) BY <4>2 DEF Dims, InitialService
        <4> QED BY <2>4, <4>1, <4>3, DimsOn DEF d
      <3>5. ASSUME NEW x, Dims(svc, x), NEW hard \in BOOLEAN,
                   \/ svc' \in Halted(StopForeground(x, TRUE, hard))
                   \/ svc' = [StopForeground(x, TRUE, hard) EXCEPT !.closed = TRUE]
            PROVE  LoadIsDark(svc', edit')
        <4> DEFINE h == StopForeground(x, TRUE, hard)
        <4>1. Dims(svc, h) /\ DOMAIN h = DOMAIN InitialService BY <2>6, <3>5
        <4>2. svc' \in {h, [h EXCEPT !.state = "error"], [h EXCEPT !.closed = TRUE]}
          BY <3>5 DEF Halted
        <4> HIDE DEF h
        <4>3. Dims(h, svc') BY <4>1, <4>2 DEF Dims, InitialService
        <4> QED BY <2>2, <4>1, <4>3, DimsOn
      <3>6. CASE Stop BY <2>4, <3>5, <3>6 DEF Stop, s
      <3>7. CASE EmergencyStop
        <4> DEFINE e == [Disarm(s) EXCEPT !.stageEnabled = FALSE]
        <4>1. svc' \in Halted(StopForeground(e, TRUE, TRUE)) BY <3>7 DEF EmergencyStop, s
        <4>2. Dims(svc, e) BY <3>4
        <4> HIDE DEF e
        <4> QED BY <3>5, <4>1, <4>2
      <3>8. CASE Close BY <3>4, <3>5, <3>8 DEF Close, s
      <3> QED BY <2>7, <3>1, <3>2, <3>3, <3>6, <3>7, <3>8 DEF Commands
    <2>8. CASE Preparation
      <3>1. CASE \/ TakeLoad \/ TakeImage \/ TakeBackground
                 \/ DropLoad \/ DropImage \/ DropBackground
        <4>1. svc' \in {svc, [svc EXCEPT !.loads = NoJob], [svc EXCEPT !.visualLoads = NoJob],
                        [svc EXCEPT !.backgroundLoads = NoJob]}
          BY <3>1 DEF TakeLoad, TakeImage, TakeBackground, DropLoad, DropImage, DropBackground
        <4>2. Dims(svc, svc') BY <1>1, <4>1 DEF Dims, InitialService
        <4> QED BY <2>2, <4>2
      <3>2. CASE FinishLoad BY <2>1, <3>2 DEF FinishLoad, LoadIsCurrent, Resting
      <3>3. CASE FinishImage
        <4>1. ImagesCounted(svc, imageWorker) BY DEF PlaybackInv, ReservationInv, Settled
        <4> QED BY <2>1, <3>3, <4>1 DEF FinishImage, ImageIsCurrent, ImagesCounted
      <3>4. CASE FinishBackground
        <4>1. PICK cue : svc' = Changed(ApplyScene([t EXCEPT !.background = cue], FALSE))
          BY <3>4 DEF FinishBackground, t
        <4> DEFINE x == [t EXCEPT !.background = cue]
        <4>2. Dims(svc, x) BY <2>4 DEF Dims, InitialService
        <4> HIDE DEF x
        <4> QED BY <2>2, <2>5, <4>1, <4>2 DEF x
      <3> QED BY <2>8, <3>1, <3>2, <3>3, <3>4 DEF Preparation
    <2>9. CASE Update
      <3>1. ReleaseUpdate BY <2>3, <2>9 DEF Update, ReserveUpdate
      <3>2. svc' = Changed([t EXCEPT !.updatePending = FALSE]) BY <3>1 DEF ReleaseUpdate, t
      <3>3. Dims(svc, svc') BY <2>4, <3>2 DEF Dims, Changed, InitialService
      <3> QED BY <2>2, <3>3
    <2>10. CASE Stage
      <3>1. CASE StageOff
        <4> DEFINE x == [Disarm(s) EXCEPT !.stageEnablePending = FALSE]
        <4>1. svc' = Changed(ApplyScene(x, FALSE)) BY <3>1 DEF StageOff, s
        <4>2. Dims(svc, x) BY <2>4 DEF Dims, Disarm, InitialService
        <4> HIDE DEF x
        <4> QED BY <2>2, <2>5, <4>1, <4>2
      <3>2. CASE StageOnBegin
        <4>1. svc' = [s EXCEPT !.stageSerial = @ + 1] BY <3>2 DEF StageOnBegin, s
        <4>2. Dims(svc, svc') BY <2>4, <4>1 DEF Dims, InitialService
        <4> QED BY <2>2, <4>2
      <3>3. CASE StageOnEnd BY <2>1, <3>3 DEF StageOnEnd
      <3>4. CASE StageOnRefused BY <2>2, <3>4 DEF StageOnRefused, Dims
      <3> QED BY <2>10, <3>1, <3>2, <3>3, <3>4 DEF Stage
    <2>11. CASE Show
      BY <1>5, <2>3, <2>11
      DEF Show, Refuse, SaveFailed, BeginPlaylist, BeginStage, BeginLoad, Begin,
          PreparePlaylist, CommitPlaylist, ConfigureOutputs, CommitOutputs, PrepareStage,
          CommitStage, PrepareLoad, CommitLoad
    <2> QED BY <2>7, <2>8, <2>9, <2>10, <2>11
  <1>6. \/ edit' = edit \/ edit'.op # "load" \/ ~edit'.saving \/ PrepareLoad
    <2>1. CASE Commands \/ Preparation \/ Update \/ Stage
      BY <2>1 DEF Commands, SetMasterVolume, PauseOrResume, Seek, PressImageAgain,
         PressForegroundAgain, PressBackgroundAgain, PressBackground, PressImage,
         PressForeground, Stop, EmergencyStop, Close, CommandOnly, Preparation, TakeLoad,
         FinishLoad, DropLoad, TakeImage, FinishImage, DropImage, TakeBackground,
         FinishBackground, DropBackground, Update, ReserveUpdate, ReleaseUpdate, Stage,
         StageOff, StageOnBegin, StageOnEnd, StageOnRefused
    <2>2. NoEdit.op = "none" /\ ~NoEdit.saving BY DEF NoEdit
    <2>3. CASE Show
      <3>1. CASE Refuse \/ SaveFailed \/ CommitPlaylist \/ CommitOutputs \/ CommitStage
                  \/ CommitLoad
        BY <2>2, <3>1 DEF Refuse, SaveFailed, CommitPlaylist, CommitOutputs, CommitStage,
           CommitLoad
      <3>2. CASE BeginPlaylist \/ BeginStage \/ BeginLoad \/ ConfigureOutputs
        <4>1. CASE BeginPlaylist \/ BeginStage \/ BeginLoad
          <5>1. PICK op : edit' = [NoEdit EXCEPT !.op = op]
            BY <4>1 DEF BeginPlaylist, BeginStage, BeginLoad, Begin
          <5> QED BY <5>1 DEF NoEdit
        <4>2. CASE ConfigureOutputs BY <4>2 DEF ConfigureOutputs, NoEdit
        <4> QED BY <3>2, <4>1, <4>2
      <3>3. CASE PreparePlaylist \/ PrepareStage
        BY <1>1, <3>3 DEF PreparePlaylist, PrepareStage, Edit
      <3> QED BY <2>3, <3>1, <3>2, <3>3 DEF Show
    <2> QED BY <2>1, <2>3
  <1> QED BY <1>3, <1>4, <1>5, <1>6

-----------------------------------------------------------------------------
(* What the service makes of an event. *)

\* Nothing is handed over, and only the stage may be noted.
Notes(s, t, e) ==
  /\ t.scene = s.scene /\ t.sceneRevision = s.sceneRevision /\ t.closed = s.closed
  /\ t.generation = s.generation /\ (Waits(s) => Waits(t)) /\ (AskedNow(s) => AskedNow(t))
  /\ \/ t.stageEnabled = s.stageEnabled
     \/ /\ e.kind # "escape" /\ e.sceneRevision = s.sceneRevision
        /\ t.stageEnabled = e.stageEnabled

\* an event of its scene that the service may not pass over
Telling(s, e) ==
  /\ ~s.closed
  /\ \/ e.kind = "escape"
     \/ e.kind = "device-lost" /\ e.sceneRevision = s.sceneRevision
     \/ /\ e.sceneRevision = s.sceneRevision /\ ~Waits(s)
        /\ e.transportRevision = s.scene.transportRevision
        /\ \/ /\ e.kind \in {"error", "ended"}
              /\ s.scene.foregroundID # 0 /\ e.generation = s.scene.foregroundID
           \/ e.kind = "error" /\ s.scene.stage /\ e.generation = s.scene.generation

\* A report of a source or of silence that is fresh, and a fault that is, once the
\* stage is noted.
LEMMA FollowNotes ==
  ASSUME NEW s \in Service, NEW e \in Event, Readable(s), Sensible(s, e), Fresh(s, e),
         e.kind # "escape", NEW u, u = NoteStage(s, e), NEW t, t = Follow(u, e)
  PROVE  Handed(s, t) \/ Notes(s, t, e)
  <1>1. u = s \/ e.sceneRevision = s.sceneRevision BY DEF NoteStage, Sensible
  <1>2. Linked(s, u) BY DEF NoteStage, Linked, Service
  <1>3. e.sceneRevision = s.sceneRevision => u.stageEnabled = e.stageEnabled
    BY DEF NoteStage, Service
  <1> DEFINE v == [u EXCEPT !.outputFault = TRUE]
  <1>4. Linked(s, v) BY <1>2 DEF Linked, Service
  <1>6. e.generation = Expected(s) BY DEF Fresh
  <1>0. t = Follow(u, e) OBVIOUS
  <1>7. ASSUME NEW x, Linked(u, x), x.stageEnabled = u.stageEnabled
        PROVE  Notes(s, x, e)
    BY <1>0, <1>1, <1>2, <1>3, <1>7 DEF Notes, Linked, Waits, AskedNow
  <1>5. Notes(s, u, e) BY <1>7 DEF Linked
  <1> HIDE DEF v
  <1>8. CASE e.kind \in {"playing", "paused"}
    <2>1. CASE t = u BY <1>5, <2>1
    <2>2. CASE t # u
      <3>1. t = Acked(u, e.kind) /\ u.state \in {"loading", "playing", "paused"}
        BY <1>0, <1>8, <2>2 DEF Follow, Acked
      <3>2. /\ t.generation = s.generation /\ t.sceneRevision = s.sceneRevision
            /\ t.scene = s.scene /\ t.closed = s.closed /\ t.stageEnabled = u.stageEnabled
            /\ t.state # "loading"
        BY <1>2, <1>8, <3>1 DEF Acked, Changed, Linked, Service
      <3>3. ~Waits(s)
        BY <1>6, <1>8 DEF Sensible, Known, SourceKinds, Waits, Expected
      <3> QED BY <1>0, <1>1, <1>3, <3>2, <3>3 DEF Notes, AskedNow
    <2> QED BY <2>1, <2>2
  <1>9. CASE e.kind = "progress"
    <2>1. t \in {u, Changed(u)} BY <1>0, <1>9 DEF Follow
    <2>2. Linked(u, Changed(u)) /\ Changed(u).stageEnabled = u.stageEnabled
      BY <1>2 DEF Linked, Changed, Service
    <2> QED BY <1>5, <1>7, <2>1, <2>2
  <1>10. CASE e.kind = "ended"
    <2>1. t \in {u, Ended(u)} BY <1>0, <1>10 DEF Follow, Ended
    <2> QED BY <1>2, <1>5, <2>1, EndedHands
  <1>11. CASE e.kind = "stopped"
    <2>1. CASE t = u BY <1>5, <2>1
    <2>2. CASE t # u
      <3>1. t = Changed(Rested(u, "stopped")) /\ u.state \in {"stopping", "stopped"}
        BY <1>0, <1>11, <2>2 DEF Follow, Rested
      <3>2. /\ t.generation = s.generation /\ t.sceneRevision = s.sceneRevision
            /\ t.scene = s.scene /\ t.closed = s.closed /\ t.stageEnabled = u.stageEnabled
            /\ t.state # "loading" /\ s.state # "loading"
        BY <1>2, <3>1 DEF Rested, Changed, Linked, Service
      <3> QED BY <1>0, <1>1, <1>3, <3>2 DEF Notes, AskedNow, Waits
    <2> QED BY <2>1, <2>2
  <1>12. CASE e.kind \in {"error", "device-lost"}
    <2>1. t \in {Fail(u), Fail(v)} BY <1>0, <1>12 DEF Follow, v
    <2> QED BY <1>2, <1>4, <2>1, FailHands
  <1>13. CASE e.kind \notin {"playing", "paused", "progress", "ended", "stopped", "error",
                            "device-lost"}
    <2>1. t = u BY <1>0, <1>13 DEF Follow
    <2> QED BY <1>5, <2>1
  <1> QED BY <1>8, <1>9, <1>10, <1>11, <1>12, <1>13

\* An event that has to be told is told.
LEMMA TellingHands ==
  ASSUME NEW s \in Service, NEW e \in Event, Trusts(s), Telling(s, e),
         e.kind # "escape" => Readable(s) /\ Sensible(s, e)
  PROVE  Handed(s, NativeEvent(s, e))
  <1> DEFINE v == [s EXCEPT !.outputFault = TRUE]
             u == NoteStage(s, e)
             w == [u EXCEPT !.outputFault = TRUE]
  <1>1. Linked(s, s) /\ Linked(s, v) /\ Linked(s, u) /\ Linked(s, w)
    BY DEF Linked, Service, NoteStage
  <1>2. ~s.closed BY DEF Telling
  <1>3. CASE e.kind = "escape"
    <2>1. NativeEvent(s, e) = Escape(s) BY <1>2, <1>3 DEF NativeEvent, Lost, GlobalError
    <2> QED BY <1>1, <2>1, EscapeHands
  <1>4. CASE e.kind = "device-lost" /\ e.sceneRevision = s.sceneRevision
    <2>1. Lost(s, e) BY <1>4 DEF Lost, Sensible
    <2>2. NativeEvent(s, e) = Fail(v) BY <1>2, <1>4, <2>1 DEF NativeEvent, Lost, GlobalError
    <2> QED BY <1>1, <2>2, FailHands
  <1>5. CASE /\ e.sceneRevision = s.sceneRevision /\ ~Waits(s)
             /\ e.transportRevision = s.scene.transportRevision
             /\ e.kind \in {"error", "ended"}
             /\ s.scene.foregroundID # 0 /\ e.generation = s.scene.foregroundID
    <2>1. s.foreground.id # 0 /\ e.generation = s.foreground.id
      BY <1>5 DEF Readable
    <2>2. s.state \in {"loading", "playing", "paused"}
      BY <1>5, <2>1 DEF Readable, Resting, Service, Phases
    <2>3. Fresh(s, e)
      <3>1. CASE s.state = "loading"
        BY <1>5, <2>1, <3>1 DEF Waits, Fresh, Expected, Trusts, AskedNow, Readable
      <3>2. CASE s.state \in {"playing", "paused"}
        BY <1>5, <2>1, <3>2 DEF Fresh, Expected, Readable
      <3> QED BY <2>2, <3>1, <3>2
    <2>4. CASE e.kind = "ended"
      <3>1. NativeEvent(s, e) = Follow(u, e)
        BY <1>2, <2>3, <2>4 DEF NativeEvent, Lost, GlobalError
      <3>2. Follow(u, e) = Ended(u)
        BY <1>1, <2>2, <2>4 DEF Follow, Ended, Linked
      <3> HIDE DEF u
      <3> QED BY <1>1, <3>1, <3>2, EndedHands
    <2>5. CASE e.kind = "error"
      <3>1. NativeEvent(s, e) \in {Fail(s), Follow(u, e)}
        BY <1>2, <2>3, <2>5 DEF NativeEvent, Lost, GlobalError
      <3>2. Follow(u, e) = Fail(u) BY <2>5 DEF Follow
      <3> HIDE DEF u
      <3> QED BY <1>1, <3>1, <3>2, FailHands
    <2> QED BY <1>5, <2>4, <2>5
  <1>6. CASE /\ e.sceneRevision = s.sceneRevision /\ ~Waits(s)
             /\ e.transportRevision = s.scene.transportRevision
             /\ e.kind = "error" /\ s.scene.stage /\ e.generation = s.scene.generation
    <2>1. e.generation = s.generation BY <1>2, <1>6 DEF Trusts
    <2>2. CASE s.foreground.id # s.generation
      <3>1. GlobalError(s, e) BY <1>6, <2>1, <2>2 DEF GlobalError, Sensible
      <3>2. NativeEvent(s, e) = Fail(s) BY <1>2, <1>6, <3>1 DEF NativeEvent, Lost
      <3> QED BY <1>1, <3>2, FailHands
    <2>3. CASE s.foreground.id = s.generation
      <3>1. s.scene.foregroundID # 0 /\ e.generation = s.scene.foregroundID
        BY <1>6, <2>1, <2>3 DEF Readable
      <3> QED BY <1>5, <1>6, <3>1
    <2> QED BY <2>2, <2>3
  <1> QED BY <1>3, <1>4, <1>5, <1>6 DEF Telling

\* The stage is noted from what is said of it.
LEMMA StageIsNoted ==
  ASSUME NEW s \in Service, NEW e \in Event, ~s.closed,
         e.kind \in {"stage", "background-error"}, e.sceneRevision = s.sceneRevision
  PROVE  NativeEvent(s, e).stageEnabled = e.stageEnabled
  BY DEF NativeEvent, Changed, Service, Lost, GlobalError

\* Every event either makes the service hand over a scene, or notes the stage at most.
LEMMA EventNotes ==
  ASSUME NEW s \in Service, NEW e \in Event, Trusts(s), e.kind # "devices",
         e.kind # "escape" => Readable(s) /\ Sensible(s, e)
  PROVE  Handed(s, NativeEvent(s, e)) \/ Notes(s, NativeEvent(s, e), e)
  <1> DEFINE v == [s EXCEPT !.outputFault = TRUE]
             n == [s EXCEPT !.stageEnabled = e.stageEnabled, !.stageEnablePending = FALSE]
             u == NoteStage(s, e)
  <1>1. Linked(s, s) /\ Linked(s, v) BY DEF Linked, Service
  <1>2. Notes(s, s, e) BY DEF Notes
  <1>3. CASE s.closed BY <1>2, <1>3 DEF NativeEvent
  <1>4. CASE ~s.closed /\ e.kind = "escape"
    <2>1. Telling(s, e) BY <1>4 DEF Telling
    <2> QED BY <1>4, <2>1, TellingHands
  <1>5. CASE ~s.closed /\ e.kind \in {"stage", "background-error"}
    <2>1. NativeEvent(s, e) \in {s, Changed(n)}
      BY <1>5 DEF NativeEvent, Lost, GlobalError
    <2>2. e.sceneRevision # s.sceneRevision => NativeEvent(s, e) = s
      BY <1>5 DEF NativeEvent, Lost, GlobalError
    <2>3. ASSUME e.sceneRevision = s.sceneRevision PROVE Notes(s, Changed(n), e)
      BY <1>5, <2>3 DEF Notes, Changed, Waits, AskedNow, Service
    <2> QED BY <1>2, <2>1, <2>2, <2>3
  <1>6. CASE ~s.closed /\ e.kind \notin {"escape", "stage", "background-error"}
    <2>1. NativeEvent(s, e) \in {Fail(v), Fail(s), s}
            \/ (Fresh(s, e) /\ NativeEvent(s, e) = Follow(u, e))
      BY <1>6 DEF NativeEvent
    <2>2. Handed(s, Fail(s)) /\ Handed(s, Fail(v)) BY <1>1, FailHands
    <2>3. ASSUME Fresh(s, e), NativeEvent(s, e) = Follow(u, e)
          PROVE  Handed(s, NativeEvent(s, e)) \/ Notes(s, NativeEvent(s, e), e)
      <3> DEFINE t == Follow(u, e)
      <3>1. u = NoteStage(s, e) /\ t = Follow(u, e) OBVIOUS
      <3> HIDE DEF u, t
      <3>2. Handed(s, t) \/ Notes(s, t, e) BY <1>6, <2>3, <3>1, FollowNotes
      <3> QED BY <2>3, <3>2 DEF t
    <2> QED BY <1>2, <2>1, <2>2, <2>3
  <1> QED BY <1>3, <1>4, <1>5, <1>6

\* What is heard of a sound event, from the service as the goroutine finds it.
LEMMA EventTells ==
  ASSUME PlaybackInv, HandedOver(svc), NEW e \in Event, e.kind # "devices", EventIsSound(e),
         Trusts(svc),
         svc' = NativeEvent(IF FromFault(e) THEN Input(svc) ELSE Enter(svc), e)
  PROVE  /\ Handed(svc, svc') \/ Notes(svc, svc', e)
         /\ Telling(svc, e) => Handed(svc, svc')
         /\ svc.closed => Notes(svc, svc', e) /\ svc'.stageEnabled = svc.stageEnabled
         /\ ~svc.closed /\ e.kind \in {"stage", "background-error"}
              /\ e.sceneRevision = svc.sceneRevision
            => svc'.stageEnabled = e.stageEnabled
  <1> DEFINE s == IF FromFault(e) THEN Input(svc) ELSE Enter(svc)
             t == NativeEvent(s, e)
  <1>1. svc \in Service /\ s \in Service /\ Linked(svc, s) BY EntryFacts
  <1>2. s.stageEnabled = svc.stageEnabled
    BY EntrySilent DEF Silent
  <1>3. svc' = NativeEvent(s, e) OBVIOUS
  <1> HIDE DEF s
  <1>4. Trusts(s) /\ (Telling(svc, e) => Telling(s, e)) /\ s.closed = svc.closed
        /\ s.sceneRevision = svc.sceneRevision
    BY <1>1 DEF Linked, Trusts, AskedNow, Waits, Telling
  <1>5. ASSUME e.kind # "escape" PROVE Readable(s) /\ Sensible(s, e)
    <2>1. Readable(svc) /\ Sensible(svc, e) BY <1>5, SoundIsSensible
    <2>2. Readable(s) BY <1>1, <2>1 DEF Readable, Linked, Resting
    <2>3. Sensible(s, e) BY <1>1, <2>1 DEF Sensible, Linked, Known, Waits
    <2> QED BY <2>2, <2>3
  <1>6. Handed(s, t) \/ Notes(s, t, e) BY <1>1, <1>4, <1>5, EventNotes
  <1>7. Telling(svc, e) => Handed(s, t) BY <1>1, <1>4, <1>5, TellingHands
  <1>8. /\ Handed(s, t) => Handed(svc, t)
        /\ Notes(s, t, e) => Notes(svc, t, e)
    BY <1>1, <1>2 DEF Handed, Notes, Linked, AskedNow, Waits
  <1>9. ASSUME svc.closed PROVE Notes(svc, t, e) /\ t.stageEnabled = svc.stageEnabled
    <2>1. t = s BY <1>4, <1>9 DEF NativeEvent
    <2> QED BY <1>1, <1>2, <2>1 DEF Notes, Linked, AskedNow, Waits
  <1>10. ~svc.closed /\ e.kind \in {"stage", "background-error"}
           /\ e.sceneRevision = svc.sceneRevision => t.stageEnabled = e.stageEnabled
    BY <1>1, <1>4, StageIsNoted
  <1> QED BY <1>3, <1>6, <1>7, <1>8, <1>9, <1>10

-----------------------------------------------------------------------------
(* Who begins to stop does so under a generation of its own. *)

\* A step of the service that goes on in its phase and its generation.
Abides(s, t) == t.state = s.state /\ t.generation = s.generation /\ DOMAIN t = DOMAIN s

\* A step that begins to stop under a newer generation only.
StopsAnew(s, t) ==
  /\ DOMAIN t = DOMAIN s
  /\ t.state = "stopping" =>
       \/ s.state = "stopping" /\ t.generation = s.generation
       \/ s.generation < t.generation

\* One part of a critical section after another.
LEMMA AbidesOn ==
  ASSUME NEW s, NEW t, Abides(s, t)
  PROVE  /\ StopsAnew(s, t)
         /\ \A u : Abides(t, u) => Abides(s, u)
         /\ \A u : StopsAnew(t, u) => StopsAnew(s, u)
         /\ \A u : StopsAnew(u, s) => StopsAnew(u, t)
  BY DEF Abides, StopsAnew

\* The helpers that hand over, announce, prepare or note.
LEMMA HelpersAbide ==
  ASSUME NEW s, DOMAIN s = DOMAIN InitialService
  PROVE  /\ Abides(s, s) /\ Abides(s, Changed(s)) /\ Abides(s, Disarm(s))
         /\ Abides(s, Enter(s)) /\ Abides(s, Input(s)) /\ Abides(s, ClearImage(s))
         /\ \A hard : Abides(s, ApplyScene(s, hard)) /\ Abides(s, Changed(ApplyScene(s, hard)))
         /\ \A job : Abides(s, Arm(s, job)) /\ Abides(s, CommitVisual(s, job))
         /\ \A job, kind : Abides(s, CommitForeground(s, job, kind))
         /\ \A cue : Abides(s, SelectImage(s, cue))
         /\ \A cues, id : Abides(s, SelectBackground(s, cues, id))
         /\ \A paused : Abides(s, SetPaused(s, paused))
         /\ Abides(s, SetPosition(s)) /\ \A e : Abides(s, NoteStage(s, e))
  <1> USE DEF Abides
  <1>1. {"state", "generation"} \subseteq DOMAIN s BY DEF InitialService
  <1>2. /\ Abides(s, s) /\ Abides(s, Changed(s)) /\ Abides(s, Disarm(s))
        /\ Abides(s, Enter(s)) /\ Abides(s, Input(s)) /\ Abides(s, ClearImage(s))
    BY <1>1 DEF Changed, Disarm, Enter, Input, ClearImage
  <1>3. \A r, hard : DOMAIN r = DOMAIN s =>
          Abides(r, ApplyScene(r, hard)) /\ Abides(r, Changed(ApplyScene(r, hard)))
    BY <1>1 DEF ApplyScene, Changed
  <1>4. \A r, job : DOMAIN r = DOMAIN s => Abides(r, Arm(r, job))
    BY <1>1 DEF Arm
  <1>5. ASSUME NEW job PROVE Abides(s, CommitVisual(s, job))
    <2> DEFINE shown == [s EXCEPT !.image = job.cue, !.imageCue = job.cue, !.pendingImage = NoCue]
               u == Arm(shown, job)
    <2>1. Abides(s, shown) BY <1>1
    <2>2. CommitVisual(s, job) = Changed(ApplyScene(u, FALSE)) BY DEF CommitVisual
    <2> HIDE DEF shown
    <2>3. Abides(s, u) BY <1>4, <2>1
    <2> HIDE DEF u
    <2> QED BY <1>3, <2>2, <2>3
  <1>6. ASSUME NEW job, NEW kind PROVE Abides(s, CommitForeground(s, job, kind))
    <2> DEFINE source == [id |-> job.tag, cue |-> job.cue, kind |-> kind, paused |-> s.paused,
                          seekPending |-> FALSE, transportRevision |-> s.transportRevision,
                          seekRevision |-> 0]
               started == [s EXCEPT !.foreground = source]
               u == IF kind = "video" THEN Arm(started, job) ELSE started
    <2>1. Abides(s, started) BY <1>1
    <2>2. CommitForeground(s, job, kind) = Changed(ApplyScene(u, FALSE))
      BY DEF CommitForeground
    <2> HIDE DEF started
    <2>3. Abides(s, u) BY <1>4, <2>1
    <2> HIDE DEF u
    <2> QED BY <1>3, <2>2, <2>3
  <1>7. ASSUME NEW cue PROVE Abides(s, SelectImage(s, cue))
    BY <1>1 DEF SelectImage, ClearImage
  <1>8. ASSUME NEW cues, NEW id PROVE Abides(s, SelectBackground(s, cues, id))
    <2> DEFINE drained == [s EXCEPT !.backgroundSequence = @ + 1, !.backgroundLoads = NoJob,
                             !.backgroundCue = id]
               black == [drained EXCEPT !.background = NoCue]
               gone == [drained EXCEPT !.background = NoCue, !.backgroundCue = NoCue]
               asked == [drained EXCEPT
                !.backgroundLoads = [tag |-> drained.backgroundSequence, cue |-> id,
                                     stageSerial |-> s.stageSerial, at |-> s.now],
                !.wedged = @ \/ drained.backgroundLoads # NoJob]
    <2>1. SelectBackground(s, cues, id) \in {ApplyScene(black, FALSE), black, gone, asked}
      BY DEF SelectBackground
    <2>2. Abides(s, black) /\ Abides(s, gone) /\ Abides(s, asked) BY <1>1
    <2> HIDE DEF black, gone, asked
    <2>3. Abides(black, ApplyScene(black, FALSE)) BY <1>3, <2>2
    <2> QED BY <2>1, <2>2, <2>3
  <1>9. ASSUME NEW paused PROVE Abides(s, SetPaused(s, paused))
    <2> DEFINE asked == [s EXCEPT !.paused = paused, !.transportRevision = @ + 1]
               u == [asked EXCEPT !.foreground.paused = paused,
                                  !.foreground.transportRevision = asked.transportRevision]
    <2>1. SetPaused(s, paused) \in {s, Changed(ApplyScene(u, FALSE)), Changed(asked)}
      BY DEF SetPaused
    <2>2. Abides(s, asked) /\ Abides(s, u) BY <1>1
    <2> HIDE DEF asked, u
    <2>3. Abides(asked, Changed(asked)) BY <1>1, <2>2 DEF Changed
    <2>4. Abides(u, Changed(ApplyScene(u, FALSE))) BY <1>3, <2>2
    <2> QED BY <2>1, <2>2, <2>3, <2>4
  <1>10. Abides(s, SetPosition(s))
    <2> DEFINE u == [s EXCEPT !.transportRevision = @ + 1, !.seekPending = TRUE,
                !.foreground.transportRevision = s.transportRevision + 1,
                !.foreground.seekRevision = @ + 1,
                !.foreground.seekPending = TRUE]
    <2>1. SetPosition(s) = Changed(ApplyScene(u, FALSE)) BY DEF SetPosition
    <2>2. Abides(s, u) BY <1>1
    <2> HIDE DEF u
    <2> QED BY <1>3, <2>1, <2>2
  <1>11. ASSUME NEW e PROVE Abides(s, NoteStage(s, e)) BY <1>1 DEF NoteStage
  <1> QED BY <1>2, <1>3, <1>4, <1>5, <1>6, <1>7, <1>8, <1>9, <1>10, <1>11

\* The helpers that halt, end or replace what plays.
LEMMA HelpersStop ==
  ASSUME NEW s, DOMAIN s = DOMAIN InitialService, s.generation \in Nat
  PROVE  /\ \A image, hard \in BOOLEAN : StopsAnew(s, StopForeground(s, image, hard))
         /\ StopsAnew(s, Fail(s)) /\ StopsAnew(s, StopImage(s)) /\ StopsAnew(s, Escape(s))
         /\ \A cue : StopsAnew(s, SelectForeground(s, cue))
         /\ \A job : StopsAnew(s, CommitAsImage(s, job))
         /\ StopsAnew(s, Emptied(s)) /\ StopsAnew(s, Ended(s))
         /\ \A kind \in Phases \ {"stopping"} : StopsAnew(s, Acked(s, kind))
         /\ StopsAnew(s, Rested(s, "stopped"))
  <1>1. {"state", "generation"} \subseteq DOMAIN s BY DEF InitialService
  <1>2. ASSUME NEW r, Abides(s, r), NEW image \in BOOLEAN, NEW hard \in BOOLEAN
        PROVE  StopsAnew(s, StopForeground(r, image, hard))
    <2> DEFINE halted == [ClearActive(Invalidate(r)) EXCEPT
                             !.stopEpoch = @ + 1, !.foreground = NoSource]
               cleared == IF image THEN ClearImage(halted) ELSE halted
               u == [cleared EXCEPT !.state = "stopping"]
    <2>1. StopForeground(r, image, hard) = Changed(ApplyScene(u, hard)) BY DEF StopForeground
    <2>2. halted.generation = s.generation + 1 /\ DOMAIN halted = DOMAIN s
      BY <1>1, <1>2 DEF Abides, ClearActive, Invalidate
    <2> HIDE DEF halted
    <2>3. u.generation = s.generation + 1 /\ DOMAIN u = DOMAIN s
      BY <1>1, <2>2 DEF ClearImage
    <2> HIDE DEF u
    <2>4. Abides(u, Changed(ApplyScene(u, hard))) BY <2>3, HelpersAbide
    <2> QED BY <2>1, <2>3, <2>4 DEF StopsAnew, Abides
  <1>3. StopsAnew(s, Fail(s))
    <2> DEFINE halted == [ClearActive(Invalidate(s)) EXCEPT
                            !.stopEpoch = @ + 1, !.foreground = NoSource]
               gone == ClearImage(halted)
               dark == [Disarm(gone) EXCEPT !.stageEnablePending = FALSE,
                                            !.stageEnabled = FALSE, !.state = "error"]
    <2>1. Fail(s) = Changed(ApplyScene(dark, TRUE)) BY DEF Fail
    <2>2. DOMAIN halted = DOMAIN s BY DEF ClearActive, Invalidate
    <2> HIDE DEF halted
    <2>3. DOMAIN gone = DOMAIN s BY <2>2 DEF ClearImage
    <2> HIDE DEF gone
    <2>4. dark.state = "error" /\ DOMAIN dark = DOMAIN s BY <1>1, <2>3 DEF Disarm
    <2> HIDE DEF dark
    <2>5. Abides(dark, Changed(ApplyScene(dark, TRUE))) BY <2>4, HelpersAbide
    <2> QED BY <2>1, <2>4, <2>5 DEF StopsAnew, Abides
  <1>4. StopsAnew(s, StopImage(s))
    <2> DEFINE cleared == ClearImage(s)
               shown == [cleared EXCEPT !.stopEpoch = @ + 1]
    <2>1. Abides(s, cleared) BY HelpersAbide
    <2>2. StopImage(s) \in {StopForeground(cleared, FALSE, FALSE),
                            Changed(ApplyScene(shown, FALSE))}
      BY DEF StopImage
    <2> HIDE DEF cleared
    <2>3. Abides(s, shown) BY <1>1, <2>1 DEF Abides
    <2> HIDE DEF shown
    <2>4. DOMAIN shown = DOMAIN InitialService BY <2>3 DEF Abides
    <2>5. Abides(shown, Changed(ApplyScene(shown, FALSE))) BY <2>4, HelpersAbide
    <2> QED BY <1>2, <2>1, <2>2, <2>3, <2>5, AbidesOn
  <1>5. StopsAnew(s, Escape(s))
    <2> DEFINE d == Disarm(s)
               h == StopForeground(d, TRUE, TRUE)
               dark == [h EXCEPT !.stageEnabled = FALSE]
    <2>1. Abides(s, d) BY HelpersAbide
    <2>2. Escape(s) = Changed(dark) BY DEF Escape
    <2> HIDE DEF d
    <2>3. StopsAnew(s, h) BY <1>2, <2>1
    <2> HIDE DEF h
    <2>4. DOMAIN h = DOMAIN InitialService BY <2>3 DEF StopsAnew
    <2>5. Abides(h, dark) BY <1>1, <2>3 DEF Abides, StopsAnew
    <2> HIDE DEF dark
    <2>6. Abides(dark, Changed(dark)) BY <2>4, <2>5, HelpersAbide DEF Abides
    <2> QED BY <2>2, <2>3, <2>5, <2>6, AbidesOn
  <1>6. ASSUME NEW cue PROVE StopsAnew(s, SelectForeground(s, cue))
    BY <1>1 DEF StopsAnew, SelectForeground, SendLoad, Changed, Invalidate, ClearImage
  <1>7. ASSUME NEW job PROVE StopsAnew(s, CommitAsImage(s, job))
    <2> DEFINE phase == IF s.foreground.id = 0 THEN "stopped"
                        ELSE IF s.foreground.paused THEN "paused" ELSE "playing"
               restored ==
                 [s EXCEPT !.activeCue = s.foreground.cue, !.state = phase,
                           !.paused = s.foreground.paused,
                           !.seekPending = s.foreground.seekPending,
                           !.foreground.transportRevision = s.transportRevision,
                           !.image = job.cue, !.imageCue = job.cue]
               u == Arm(restored, job)
    <2>1. phase # "stopping" OBVIOUS
    <2>2. CommitAsImage(s, job) = Changed(ApplyScene(u, FALSE)) BY DEF CommitAsImage
    <2> HIDE DEF phase
    <2>3. restored.state = phase /\ DOMAIN restored = DOMAIN s BY <1>1
    <2> HIDE DEF restored
    <2>4. Abides(restored, u) BY <2>3, HelpersAbide
    <2> HIDE DEF u
    <2>5. Abides(u, Changed(ApplyScene(u, FALSE))) BY <2>3, <2>4, HelpersAbide DEF Abides
    <2> QED BY <2>1, <2>2, <2>3, <2>4, <2>5 DEF StopsAnew, Abides
  <1>8. StopsAnew(s, Emptied(s))
    BY <1>1 DEF StopsAnew, Emptied, ClearImage, ClearActive, Invalidate
  <1>9. StopsAnew(s, Ended(s))
    BY <1>1 DEF StopsAnew, Ended, Changed, ApplyScene, ClearActive
  <1>10. /\ \A kind \in Phases \ {"stopping"} : StopsAnew(s, Acked(s, kind))
         /\ StopsAnew(s, Rested(s, "stopped"))
    BY <1>1 DEF StopsAnew, Acked, Rested, Changed
  <1>11. Abides(s, s) BY HelpersAbide
  <1> QED BY <1>2, <1>3, <1>4, <1>5, <1>6, <1>7, <1>8, <1>9, <1>10, <1>11

\* No event begins to stop in any other way either.
LEMMA EventStops ==
  ASSUME NEW s \in Service, NEW e \in Event
  PROVE  StopsAnew(s, NativeEvent(s, e))
  <1> DEFINE fault == [s EXCEPT !.outputFault = TRUE]
             noted == [s EXCEPT !.stageEnabled = e.stageEnabled,
                                  !.stageEnablePending = FALSE]
             u == NoteStage(s, e)
             v == [u EXCEPT !.outputFault = TRUE]
  <1>1. \/ NativeEvent(s, e) \in {s, Changed(s), Escape(s), Changed(noted), Fail(fault), Fail(s)}
        \/ NativeEvent(s, e) = Follow(u, e)
    BY Zenon DEF NativeEvent, fault, noted, u
  <1>2. \/ Follow(u, e) \in {u, Changed(u), Ended(u), Changed(Rested(u, "stopped")),
                             Fail(u), Fail(v)}
        \/ e.kind \in {"playing", "paused"} /\ Follow(u, e) = Acked(u, e.kind)
    BY Zenon DEF Follow, Acked, Ended, Rested, v
  <1>3. DOMAIN s = DOMAIN InitialService /\ s.generation \in Nat
    BY DEF Service, InitialService
  <1>4. Abides(s, fault) /\ Abides(s, noted) BY DEF Abides, Service
  <1>5. Abides(s, u) BY <1>3, HelpersAbide
  <1> HIDE DEF fault, noted, u
  <1>6. Abides(s, v) BY <1>5 DEF Abides, Service
  <1> HIDE DEF v
  <1>7. ASSUME NEW t, Abides(s, t)
        PROVE  DOMAIN t = DOMAIN InitialService /\ t.generation \in Nat
    BY <1>3, <1>7 DEF Abides
  <1>8. CASE NativeEvent(s, e) \in {s, Changed(s), Escape(s), Changed(noted), Fail(fault), Fail(s)}
    <2>1. /\ StopsAnew(s, s) /\ StopsAnew(s, Changed(s)) /\ StopsAnew(s, Escape(s))
          /\ StopsAnew(s, Fail(s))
      BY <1>3, HelpersAbide, HelpersStop, AbidesOn
    <2>2. StopsAnew(s, Changed(noted))
      BY <1>4, <1>7, HelpersAbide, AbidesOn
    <2>3. StopsAnew(s, Fail(fault))
      BY <1>4, <1>7, HelpersStop, AbidesOn
    <2> QED BY <1>8, <2>1, <2>2, <2>3
  <1>9. CASE Follow(u, e) \in {u, Changed(u), Ended(u), Changed(Rested(u, "stopped")),
                               Fail(u), Fail(v)}
    <2>1. StopsAnew(u, u) /\ StopsAnew(u, Changed(u)) /\ StopsAnew(u, Ended(u))
          /\ StopsAnew(u, Fail(u))
      BY <1>5, <1>7, HelpersAbide, HelpersStop, AbidesOn
    <2>2. StopsAnew(u, Changed(Rested(u, "stopped")))
      <3> DEFINE r == Rested(u, "stopped")
      <3>1. StopsAnew(u, r) BY <1>5, <1>7, HelpersStop
      <3> HIDE DEF r
      <3>2. DOMAIN r = DOMAIN InitialService BY <1>5, <1>7, <3>1 DEF StopsAnew
      <3>3. Abides(r, Changed(r)) BY <3>2, HelpersAbide
      <3> QED BY <3>1, <3>3, AbidesOn DEF r
    <2>3. StopsAnew(s, Fail(v)) BY <1>6, <1>7, HelpersStop, AbidesOn
    <2>4. \A t : StopsAnew(u, t) => StopsAnew(s, t) BY <1>5, AbidesOn
    <2>5. StopsAnew(s, Follow(u, e)) BY <1>9, <2>1, <2>2, <2>3, <2>4
    <2> QED BY <1>1, <1>8, <2>5
  <1>10. CASE e.kind \in {"playing", "paused"} /\ Follow(u, e) = Acked(u, e.kind)
    <2>1. e.kind \in Phases \ {"stopping"} BY <1>10 DEF Phases
    <2>2. StopsAnew(u, Acked(u, e.kind)) BY <1>5, <1>7, <2>1, HelpersStop
    <2>3. StopsAnew(s, Follow(u, e)) BY <1>5, <1>10, <2>2, AbidesOn
    <2> QED BY <1>1, <1>8, <2>3
  <1> QED BY <1>2, <1>9, <1>10

\* Nor does a critical section of the service.
LEMMA ServiceStops ==
  ASSUME PlaybackInv, Commands \/ Preparation \/ Update \/ Stage \/ Show
  PROVE  StopsAnew(svc, svc')
  <1> DEFINE s == Input(svc)
             t == Enter(svc)
  <1>1. /\ svc \in Service /\ svc.generation \in Nat
        /\ DOMAIN svc = DOMAIN InitialService
    BY EntryFacts DEF Service
  <1>2. Abides(svc, svc) /\ Abides(svc, s) /\ Abides(svc, t) BY <1>1, HelpersAbide
  <1> HIDE DEF s, t
  <1>3. ASSUME NEW x, Abides(svc, x)
        PROVE  DOMAIN x = DOMAIN InitialService /\ x.generation \in Nat
    BY <1>1, <1>3 DEF Abides
  <1>4. ASSUME NEW x, DOMAIN x = DOMAIN InitialService, NEW y, StopsAnew(x, y)
        PROVE  /\ DOMAIN y = DOMAIN InitialService
               /\ StopsAnew(x, Changed(y)) /\ StopsAnew(x, Changed(ApplyScene(y, FALSE)))
               /\ \A cues, id : /\ StopsAnew(x, SelectBackground(y, cues, id))
                                /\ StopsAnew(x, Changed(SelectBackground(y, cues, id)))
    <2>1. DOMAIN y = DOMAIN InitialService BY <1>4 DEF StopsAnew
    <2>2. /\ Abides(y, Changed(y)) /\ Abides(y, Changed(ApplyScene(y, FALSE)))
          /\ \A cues, id : Abides(y, SelectBackground(y, cues, id))
      BY <2>1, HelpersAbide
    <2>3. \A cues, id : Abides(y, Changed(SelectBackground(y, cues, id)))
      <3> TAKE cues, id
      <3> DEFINE z == SelectBackground(y, cues, id)
      <3>1. Abides(y, z) BY <2>2
      <3> HIDE DEF z
      <3>2. DOMAIN z = DOMAIN InitialService BY <2>1, <3>1 DEF Abides
      <3>3. Abides(z, Changed(z)) BY <3>2, HelpersAbide
      <3>4. Abides(y, Changed(z)) BY <3>1, <3>3, AbidesOn
      <3> QED BY <3>4 DEF z
    <2>4. \A z : Abides(y, z) => StopsAnew(x, z) BY <1>4, AbidesOn
    <2> QED BY <2>1, <2>2, <2>3, <2>4
  <1>5. \A x : Abides(svc, x) =>
          /\ StopsAnew(svc, x) /\ StopsAnew(svc, Changed(x))
          /\ StopsAnew(svc, Changed(ApplyScene(x, FALSE)))
          /\ \A cues, id : StopsAnew(svc, Changed(SelectBackground(x, cues, id)))
    BY <1>1, <1>4, AbidesOn
  <1>6. ASSUME NEW x, Abides(svc, x), NEW image \in BOOLEAN, NEW hard \in BOOLEAN
        PROVE  StopsAnew(svc, StopForeground(x, image, hard))
    BY <1>3, <1>6, HelpersStop, AbidesOn
  <1>7. ASSUME NEW h, StopsAnew(svc, h)
        PROVE  /\ StopsAnew(svc, [h EXCEPT !.state = "error"])
               /\ StopsAnew(svc, [h EXCEPT !.closed = TRUE])
    BY <1>1, <1>7 DEF StopsAnew, InitialService
  <1>8. Abides(svc, Disarm(s)) /\ Abides(svc, [Disarm(s) EXCEPT !.stageEnabled = FALSE])
    <2> DEFINE d == Disarm(s)
    <2>1. Abides(svc, d) BY <1>2, <1>3, HelpersAbide, AbidesOn
    <2> HIDE DEF d
    <2>2. Abides(svc, [d EXCEPT !.stageEnabled = FALSE])
      BY <1>1, <2>1 DEF Abides, InitialService
    <2> QED BY <2>1, <2>2 DEF d
  <1>9. CASE Commands
    <2>1. CASE SetMasterVolume
      BY <1>2, <1>5, <2>1 DEF SetMasterVolume, s
    <2>2. CASE PauseOrResume \/ PressForegroundAgain \/ Seek
      <3>1. svc' = SetPosition(s) \/ \E paused : svc' = SetPaused(s, paused)
        BY <2>2 DEF PauseOrResume, PressForegroundAgain, Seek, s
      <3> QED BY <1>2, <1>3, <3>1, HelpersAbide, AbidesOn
    <2>3. CASE PressImageAgain
      <3>1. svc' = StopImage(s) BY <2>3 DEF PressImageAgain, s
      <3> QED BY <1>2, <1>3, <3>1, HelpersStop, AbidesOn
    <2>4. CASE PressBackgroundAgain \/ PressBackground
      <3>1. PICK v, cues, id :
               svc' = Changed(SelectBackground([s EXCEPT !.backgroundOverride = v], cues, id))
        BY <2>4 DEF PressBackgroundAgain, PressBackground, ClearBackgroundOverride, s
      <3> DEFINE x == [s EXCEPT !.backgroundOverride = v]
      <3>2. Abides(svc, x) BY <1>1, <1>2 DEF Abides, InitialService
      <3>3. svc' = Changed(SelectBackground(x, cues, id)) BY <3>1
      <3> HIDE DEF x
      <3> QED BY <1>5, <3>2, <3>3
    <2>5. CASE PressImage
      <3>1. PICK cue : svc' = Changed(SelectImage(s, cue)) BY <2>5 DEF PressImage, s
      <3>2. Abides(svc, SelectImage(s, cue)) BY <1>2, <1>3, HelpersAbide, AbidesOn
      <3> QED BY <1>5, <3>1, <3>2
    <2>6. CASE PressForeground
      <3>1. PICK cue : svc' = SelectForeground(s, cue) BY <2>6 DEF PressForeground, s
      <3> QED BY <1>2, <1>3, <3>1, HelpersStop, AbidesOn
    <2>7. CASE Stop
      <3> DEFINE h == StopForeground(s, TRUE, FALSE)
      <3>1. svc' \in {h, [h EXCEPT !.state = "error"]} BY <2>7 DEF Stop, Halted, s
      <3>2. StopsAnew(svc, h) BY <1>2, <1>6
      <3> HIDE DEF h
      <3> QED BY <1>7, <3>1, <3>2
    <2>8. CASE EmergencyStop
      <3> DEFINE x == [Disarm(s) EXCEPT !.stageEnabled = FALSE]
                 h == StopForeground(x, TRUE, TRUE)
      <3>1. svc' \in {h, [h EXCEPT !.state = "error"]} BY <2>8 DEF EmergencyStop, Halted, s
      <3>2. Abides(svc, x) BY <1>8
      <3> HIDE DEF x
      <3>3. StopsAnew(svc, h) BY <1>6, <3>2
      <3> HIDE DEF h
      <3> QED BY <1>7, <3>1, <3>3
    <2>9. CASE Close
      <3> DEFINE h == StopForeground(Disarm(s), TRUE, TRUE)
      <3>1. svc' = [h EXCEPT !.closed = TRUE] BY <2>9 DEF Close, s
      <3>2. StopsAnew(svc, h) BY <1>6, <1>8
      <3> HIDE DEF h
      <3> QED BY <1>7, <3>1, <3>2
    <2> QED BY <1>9, <2>1, <2>2, <2>3, <2>4, <2>5, <2>6, <2>7, <2>8, <2>9 DEF Commands
  <1>10. CASE Preparation
    <2>1. CASE \/ TakeLoad \/ TakeImage \/ TakeBackground
               \/ DropLoad \/ DropImage \/ DropBackground
      <3>1. svc' \in {svc, [svc EXCEPT !.loads = NoJob], [svc EXCEPT !.visualLoads = NoJob],
                      [svc EXCEPT !.backgroundLoads = NoJob]}
        BY <2>1 DEF TakeLoad, TakeImage, TakeBackground, DropLoad, DropImage, DropBackground
      <3> QED BY <1>1, <3>1 DEF StopsAnew, InitialService
    <2>2. CASE FinishLoad
      <3>1. \/ svc' = Fail(t) \/ svc' = CommitAsImage(t, loader)
            \/ \E kind \in Kinds : svc' = CommitForeground(t, loader, kind)
        <4>1. PICK found \in Findings, outputs \in BOOLEAN :
                svc' = CASE found \notin Kinds \/ ~outputs -> Fail(t)
                         [] found = "image" /\ outputs -> CommitAsImage(t, loader)
                         [] found \in {"audio", "video"} /\ outputs ->
                              CommitForeground(t, loader, found)
          BY <2>2 DEF FinishLoad, t
        <4> QED BY <4>1 DEF Kinds, Findings
      <3>2. \A kind : Abides(t, CommitForeground(t, loader, kind))
        BY <1>2, <1>3, HelpersAbide
      <3>3. StopsAnew(t, Fail(t)) /\ StopsAnew(t, CommitAsImage(t, loader))
        BY <1>2, <1>3, HelpersStop
      <3> QED BY <1>2, <3>1, <3>2, <3>3, AbidesOn
    <2>3. CASE FinishImage
      <3> DEFINE rest == [t EXCEPT !.pendingImage = NoCue]
      <3>1. svc' \in {CommitVisual(t, imageWorker), Changed(ApplyScene(rest, FALSE))}
        BY <2>3 DEF FinishImage, t
      <3>2. Abides(svc, rest) BY <1>1, <1>2 DEF Abides, InitialService
      <3> HIDE DEF rest
      <3>3. Abides(t, CommitVisual(t, imageWorker)) BY <1>2, <1>3, HelpersAbide
      <3> QED BY <1>2, <1>5, <3>1, <3>2, <3>3, AbidesOn
    <2>4. CASE FinishBackground
      <3>1. PICK cue : svc' = Changed(ApplyScene([t EXCEPT !.background = cue], FALSE))
        BY <2>4 DEF FinishBackground, t
      <3> DEFINE x == [t EXCEPT !.background = cue]
      <3>2. Abides(svc, x) BY <1>1, <1>2 DEF Abides, InitialService
      <3>3. svc' = Changed(ApplyScene(x, FALSE)) BY <3>1
      <3> HIDE DEF x
      <3> QED BY <1>5, <3>2, <3>3
    <2> QED BY <1>10, <2>1, <2>2, <2>3, <2>4 DEF Preparation
  <1>11. CASE Update
    <2>1. CASE ReserveUpdate
      <3>1. /\ svc.state = "stopped"
            /\ svc' = Changed([Invalidate(s) EXCEPT !.stopEpoch = @ + 1,
                                                    !.updatePending = TRUE])
        BY <2>1 DEF ReserveUpdate, s
      <3>2. svc'.state = "stopped" /\ DOMAIN svc' = DOMAIN svc
        BY <1>1, <1>2, <3>1 DEF Abides, Invalidate, Changed, InitialService
      <3> QED BY <3>2 DEF StopsAnew
    <2>2. CASE ReleaseUpdate
      <3> DEFINE x == [t EXCEPT !.updatePending = FALSE]
      <3>1. svc' = Changed(x) BY <2>2 DEF ReleaseUpdate, t
      <3>2. Abides(svc, x) BY <1>1, <1>2 DEF Abides, InitialService
      <3> HIDE DEF x
      <3> QED BY <1>5, <3>1, <3>2
    <2> QED BY <1>11, <2>1, <2>2 DEF Update
  <1>12. CASE Stage
    <2>1. CASE StageOff
      <3> DEFINE x == [Disarm(s) EXCEPT !.stageEnablePending = FALSE]
      <3>1. svc' = Changed(ApplyScene(x, FALSE)) BY <2>1 DEF StageOff, s
      <3>2. Abides(svc, x) BY <1>1, <1>2 DEF Abides, Disarm, InitialService
      <3> HIDE DEF x
      <3> QED BY <1>5, <3>1, <3>2
    <2>2. CASE StageOnBegin
      <3>1. svc' = [s EXCEPT !.stageSerial = @ + 1] BY <2>2 DEF StageOnBegin, s
      <3> QED BY <1>1, <1>2, <3>1 DEF StopsAnew, Abides, InitialService
    <2>3. CASE StageOnEnd
      <3>1. PICK at : svc' = Changed([ApplyScene([t EXCEPT !.stageDesired = TRUE, !.armedAt = at],
                                                 FALSE)
                                      EXCEPT !.stageEnablePending = TRUE])
        BY <2>3 DEF StageOnEnd, t
      <3> DEFINE x == [t EXCEPT !.stageDesired = TRUE, !.armedAt = at]
                 y == ApplyScene(x, FALSE)
                 z == [y EXCEPT !.stageEnablePending = TRUE]
      <3>2. svc' = Changed(z) BY <3>1
      <3>3. Abides(svc, x) BY <1>1, <1>2 DEF Abides, InitialService
      <3> HIDE DEF x
      <3>4. Abides(svc, y) BY <1>3, <3>3, HelpersAbide, AbidesOn
      <3> HIDE DEF y
      <3>5. Abides(svc, z) BY <1>1, <3>4 DEF Abides, InitialService
      <3> HIDE DEF z
      <3> QED BY <1>5, <3>2, <3>5
    <2>4. CASE StageOnRefused BY <1>2, <1>5, <2>4 DEF StageOnRefused
    <2> QED BY <1>12, <2>1, <2>2, <2>3, <2>4 DEF Stage
  <1>13. CASE Show
    <2>1. CASE Refuse \/ PrepareStage \/ BeginPlaylist \/ BeginStage \/ BeginLoad
      <3>1. svc' \in {svc, s}
        BY <2>1 DEF Refuse, PrepareStage, BeginPlaylist, BeginStage, BeginLoad, Begin, s
      <3> QED BY <1>2, <1>5, <3>1
    <2>2. CASE SaveFailed
      BY <1>1, <1>2, <2>2 DEF SaveFailed, StopsAnew, Abides, InitialService, t
    <2>3. CASE PreparePlaylist \/ ConfigureOutputs \/ PrepareLoad
      <3>1. \/ \E removing : svc' = [t EXCEPT !.removing = removing]
            \/ svc' = [s EXCEPT !.configBusy = TRUE]
            \/ svc' = [t EXCEPT !.configBusy = TRUE]
        BY <2>3 DEF PreparePlaylist, ConfigureOutputs, PrepareLoad, s, t
      <3> QED BY <1>1, <1>2, <3>1 DEF StopsAnew, Abides, InitialService
    <2>4. CASE CommitPlaylist
      <3> DEFINE idle == [t EXCEPT !.removing = {}]
                 over == [idle EXCEPT !.backgroundOverride = NoCue]
                 settled == IF LosesBackground
                             THEN SelectBackground(over, EditedConfig.cues,
                                                   EditedConfig.defaultBackground)
                             ELSE idle
      <3>1. svc' \in {Changed(settled), Changed(ApplyScene(settled, FALSE))}
        BY <2>4 DEF CommitPlaylist, ClearBackgroundOverride, t
      <3>2. Abides(svc, idle) /\ Abides(svc, over)
        BY <1>1, <1>2 DEF Abides, InitialService
      <3> HIDE DEF idle, over
      <3>3. Abides(svc, settled) BY <1>3, <3>2, HelpersAbide, AbidesOn
      <3> HIDE DEF settled
      <3> QED BY <1>5, <3>1, <3>3
    <2>5. CASE CommitOutputs
      <3> DEFINE dark == Disarm(t)
                 idle == [dark EXCEPT
                    !.configBusy = FALSE, !.outputFault = FALSE, !.stageEnabled = FALSE]
                 h == StopForeground(idle, TRUE, TRUE)
                 broken == [h EXCEPT !.state = "error"]
      <3>1. PICK halted : /\ halted \in {h, broken}
                          /\ svc' = SelectBackground(halted, config.cues, svc.backgroundCue)
        BY <2>5, Zenon DEF CommitOutputs, Halted, t
      <3>2. Abides(svc, dark) BY <1>2, <1>3, HelpersAbide, AbidesOn
      <3> HIDE DEF dark
      <3>3. Abides(svc, idle) BY <1>1, <3>2 DEF Abides, InitialService
      <3> HIDE DEF idle
      <3>4. StopsAnew(svc, h) BY <1>6, <3>3
      <3> HIDE DEF h
      <3>5. StopsAnew(svc, broken) BY <1>7, <3>4
      <3> HIDE DEF broken
      <3> QED BY <1>1, <1>4, <3>1, <3>4, <3>5
    <2>6. CASE CommitStage
      <3> DEFINE show == [config EXCEPT !.defaultBackground = edit.default]
                 over == [t EXCEPT !.backgroundOverride = NoCue]
                 chosen == IF config.defaultBackground # edit.default
                            THEN SelectBackground(over, show.cues, show.defaultBackground)
                            ELSE IF edit.reselect
                            THEN SelectBackground(t, config.cues, svc.backgroundCue) ELSE t
      <3>1. svc' \in {t, Changed(ApplyScene(chosen, FALSE))}
        <4>1. config' = show BY <2>6 DEF CommitStage
        <4>2. svc' = IF svc.closed THEN t ELSE Changed(ApplyScene(
                       IF config.defaultBackground # edit.default
                            THEN ClearBackgroundOverride(t, config')
                            ELSE IF edit.reselect
                            THEN SelectBackground(t, config.cues, svc.backgroundCue) ELSE t,
                       FALSE))
          BY <2>6, Zenon DEF CommitStage, t
        <4> HIDE DEF show
        <4> QED BY <4>1, <4>2 DEF ClearBackgroundOverride
      <3>2. Abides(svc, over) BY <1>1, <1>2 DEF Abides, InitialService
      <3> HIDE DEF show, over
      <3>3. Abides(svc, chosen) BY <1>2, <1>3, <3>2, HelpersAbide, AbidesOn
      <3> HIDE DEF chosen
      <3> QED BY <1>2, <1>5, <3>1, <3>3
    <2>7. CASE CommitLoad
      <3> DEFINE x == Emptied(t)
      <3>1. svc' \in {x, Changed(SelectBackground(x, edit.cues, edit.default))}
        BY <2>7 DEF CommitLoad, Emptied, t
      <3>2. StopsAnew(svc, x) BY <1>2, <1>3, HelpersStop, AbidesOn
      <3> HIDE DEF x
      <3> QED BY <1>1, <1>4, <3>1, <3>2
    <2> QED BY <1>13, <2>1, <2>2, <2>3, <2>4, <2>5, <2>6, <2>7 DEF Show
  <1> QED BY <1>9, <1>10, <1>11, <1>12, <1>13
=============================================================================
