---------------------------- MODULE StageSystem ----------------------------
(***************************************************************************)
(* The service and the macOS renderer together.  The service hands over    *)
(* its scene inside the critical section that made it, so the renderer's   *)
(* newest scene is svc.scene; the renderer's events come back through      *)
(* eventLoop, one at a time, in place of the reports that Coordinator      *)
(* allows a renderer to make.                                              *)
(***************************************************************************)
EXTENDS Coordinator, Sequences

CONSTANTS VideoBackgrounds, BackgroundAudio, EventLimit, MaxFaults

ASSUME RendererAssumption ==
  /\ VideoBackgrounds \subseteq Cues
  /\ BackgroundAudio \in BOOLEAN
  /\ EventLimit \in Nat \ {0} /\ MaxFaults \in Nat

VARIABLES renderer, events

rendererVars == <<renderer, events>>
systemVars == <<vars, renderer, events>>

Renderer == INSTANCE NativeScene WITH wanted <- svc.scene

\* What the renderer may report is what Coordinator lets a renderer report.
\* A fault is an input there, counted when the service hears of it.
Abstract == INSTANCE Coordinator WITH MaxInputs <- MaxInputs + MaxFaults

SystemInit == Init /\ Renderer!Init

\* an event whose cause Coordinator counts as an input
FromFault(event) == event.kind \in {"error", "device-lost", "escape"}

\* poll and eventLoop
HearEvent ==
  /\ events # <<>>
  /\ Renderer!Deliver
  /\ svc' = NativeEvent(IF FromFault(Head(events)) THEN Input(svc) ELSE Enter(svc),
                        Head(events))
  /\ CommandOnly

ByService(A) == A /\ UNCHANGED rendererVars
ByRenderer(A) == A /\ UNCHANGED vars

LoadWorker == TakeLoad \/ FinishLoad \/ DropLoad
ImageWorker == TakeImage \/ FinishImage \/ DropImage
BackgroundWorker == TakeBackground \/ FinishBackground \/ DropBackground

SystemNext ==
  \/ ByService(Commands \/ Preparation \/ Update \/ Stage \/ Show)
  \/ ByRenderer(Renderer!Next)
  \/ HearEvent

\* Three goroutines that inspect within a time limit, the main queue, the poller,
\* timers, and a decoder that prepares a file or fails.  Nobody has to press
\* anything, and nothing has to fail.
SystemFairness ==
  /\ WF_systemVars(ByService(LoadWorker))
  /\ WF_systemVars(ByService(ImageWorker))
  /\ WF_systemVars(ByService(BackgroundWorker))
  /\ WF_systemVars(ByRenderer(Renderer!Apply \/ Renderer!Step))
  /\ WF_systemVars(ByRenderer(Renderer!Decode))
  /\ WF_systemVars(ByRenderer(Renderer!Fade))
  /\ WF_systemVars(HearEvent)

SystemSpec == SystemInit /\ [][SystemNext]_systemVars /\ SystemFairness

\* the source of the selected generation is still being inspected
Waits(s) == s.state = "loading" /\ s.foreground.id # s.generation

\* Nothing plays, and nothing fades but what was replaced after that event.
QuietSince(event) ==
  /\ renderer.foreground.id = 0
  /\ renderer.tail => event.sceneRevision < renderer.applied.revision

-----------------------------------------------------------------------------
(* Properties. *)

\* Types of both sides; the queue between emitScene and ss_poll keeps its limit.
SystemTypeOK == TypeOK /\ Renderer!TypeOK

\* Every behaviour of the two together is one of Coordinator with any renderer:
\* no event of the bridge is one Coordinator does not expect.
CoordinatorSpec == Abstract!Spec

\* STOP is answered: sooner or later the service no longer says "stopping".
StopIsAnswered == svc.state = "stopping" ~> svc.state # "stopping"

\* A source that ended by itself does not stay on the screens for ever,
\* whatever scene was on its way when it ended.
EndIsNoticed ==
  renderer.endedID # 0 /\ renderer.endedID = svc.foreground.id
    ~> renderer.endedID # svc.foreground.id

\* The screens are never left waiting: STOP is answered, an end is noticed.
AnswersCome == StopIsAnswered /\ EndIsNoticed

\* "stopped" confirms silence: when the service takes it for the answer to STOP,
\* nothing plays, and nothing fades but what a newer scene has replaced since: a
\* background, as no source has played.
StoppedIsSilent ==
  [][svc.state = "stopping" /\ svc'.state = "stopped" /\ events' # events
       => QuietSince(Head(events))]_systemVars

\* Once nothing is under way, what the service believes is so: a source it shows
\* as playing or paused has a player, and the stage is on exactly when it says so,
\* except while a source is being inspected: the failure of an earlier scene is
\* not believed then (nativeEvent), and the scene that follows reports again.
BeliefIsReal ==
  Renderer!Quiescent /\ ~svc.closed =>
    /\ svc.state \in {"playing", "paused"} => renderer.foreground.id = svc.foreground.id
    /\ svc.state \in {"stopped", "error"} => renderer.foreground.id = 0
    /\ ~Waits(svc) => svc.stageEnabled = renderer.stageEnabled

\* "paused/playing acknowledge transport application" (bridge.h:37): once nothing
\* is under way, a player that has reported has been heard.
ReportsAreHeard ==
  Renderer!Quiescent /\ renderer.foreground.reported
    /\ renderer.foreground.id = svc.generation
  => svc.state = IF renderer.foreground.paused THEN "paused" ELSE "playing"

-----------------------------------------------------------------------------
(* Why the two together implement Coordinator. *)

\* What was handed over last is numbered as the service counts, asks for the
\* source the service holds and with its intent; a hard scene has no source.
HandedOver(s) ==
  /\ s.scene.revision = s.sceneRevision /\ (s.closed => s.sceneRevision # 0)
  /\ s.scene.generation <= s.generation
  /\ s.scene.transportRevision <= s.transportRevision
  /\ s.scene.foregroundID = s.foreground.id /\ s.foreground.id <= s.scene.generation
  /\ s.foreground.id # 0 =>
       /\ ~s.scene.hard /\ s.scene.paused = s.foreground.paused
       /\ s.scene.transportRevision = s.foreground.transportRevision
  /\ s.state = "loading" /\ s.foreground.id = s.generation =>
       s.foreground.paused = s.paused

\* While a loaded show is being saved nothing plays and nothing can begin to.
LoadRests(s, operation) ==
  operation.op = "load" /\ operation.saving => s.configBusy /\ Resting(s)

\* a source the renderer may know
Known(s, id) == id <= s.generation /\ (Waits(s) => id # s.generation)

\* what may be said of the newest scene
SourceKinds == {"playing", "paused", "progress", "ended"}
Fits(kind, generation) ==
  /\ kind = "stopped" => svc.scene.foregroundID = 0
  /\ kind \in SourceKinds => generation = svc.scene.foregroundID
  /\ kind \in {"playing", "paused"} => svc.scene.paused = (kind = "paused")

EventIsSound(event) ==
  event.kind # "escape" =>
    /\ event.sceneRevision \in 1 .. svc.scene.revision
    /\ event.generation <= svc.scene.generation
    /\ event.transportRevision <= svc.scene.transportRevision
    /\ event.kind \in SourceKinds => Known(svc, event.generation)
    /\ event.sceneRevision = svc.scene.revision =>
         /\ event.stageEnabled => svc.scene.stage
         /\ Fits(event.kind, event.generation)

TaskIsSound(task) ==
  /\ task.generation <= svc.scene.generation
  /\ task.do \in SourceKinds => Known(svc, task.generation)
  /\ renderer.applied.revision = svc.scene.revision => Fits(task.do, task.generation)

\* Nothing the renderer holds or has said is newer than the service's scene, and
\* what it holds or says of that very scene agrees with it.
RendererIsSound ==
  /\ renderer.applied.revision <= svc.scene.revision
  /\ renderer.applied.generation <= svc.scene.generation
  /\ renderer.applied.transportRevision <= svc.scene.transportRevision
  /\ renderer.foreground.id <= svc.scene.generation /\ Known(svc, renderer.foreground.id)
  /\ renderer.foreground.id = 0 => renderer.foreground = Renderer!NoPlayer
  /\ renderer.applied.revision = svc.scene.revision =>
       /\ renderer.stageEnabled => svc.scene.stage
       /\ renderer.stoppedPending => svc.scene.foregroundID = 0
       /\ renderer.foreground.id # 0 =>
            /\ renderer.foreground.id = svc.scene.foregroundID
            /\ renderer.foreground.paused = svc.scene.paused
  /\ \A i \in DOMAIN renderer.todo : TaskIsSound(renderer.todo[i])
  /\ \A i \in DOMAIN events : EventIsSound(events[i])

\* Every fault the service has yet to hear of is counted once.
FaultSteps == {"error", "device-lost"}
FaultsIn(queue) == Cardinality({i \in DOMAIN queue : FromFault(queue[i])})
FaultAhead == IF renderer.todo # <<>> /\ renderer.todo[1].do \in FaultSteps THEN 1 ELSE 0
FaultKept == IF renderer.foreground.failed THEN 1 ELSE 0
Unheard == FaultsIn(events) + FaultAhead + FaultKept

FaultsAreCounted ==
  /\ Unheard <= renderer.faults
  /\ svc.now + Unheard <= MaxInputs + renderer.faults
  /\ \A i \in 2 .. Len(renderer.todo) : renderer.todo[i].do \notin FaultSteps

\* The inductive invariant: types and the queue's limit, what Coordinator keeps by
\* itself, and that neither side holds or says what the other has not caused: the
\* scene handed over is the service's own (applySceneLocked), and what the bridge
\* applies, plays and reports (applyScene, ready, emitScene) is that scene or an older.
SystemInv ==
  /\ SystemTypeOK /\ PlaybackInv /\ HandedOver(svc) /\ LoadRests(svc, edit)
  /\ RendererIsSound /\ FaultsAreCounted

-----------------------------------------------------------------------------
(* Why the service's belief comes true as long as no event is dropped. *)

\* The renderer has applied the scene handed over last.
AppliedNow == renderer.applied.revision = svc.scene.revision

\* an event of that scene
OfNewest(event) == event.kind # "escape" /\ event.sceneRevision = svc.scene.revision

\* What is still to be heard of that scene: of each event its kind and its source.
Told(step) == <<step.do, step.generation>>
Said(event) == <<event.kind, event.generation>>
Due ==
  {Told(renderer.todo[i]) : i \in IF AppliedNow THEN DOMAIN renderer.todo ELSE {}}
    \cup {Said(events[i]) : i \in {j \in DOMAIN events : OfNewest(events[j])}}

\* everything is to be withdrawn
EscapeIsDue == \E i \in DOMAIN events : events[i].kind = "escape"
Wiped == EscapeIsDue \/ \E answer \in Due : answer[1] = "device-lost"

\* the scene as a whole has failed
Failed == svc.scene.stage /\ <<"error", svc.scene.generation>> \in Due

\* the source the scene asks for is gone
Gone ==
  \/ <<"error", svc.scene.foregroundID>> \in Due
  \/ <<"ended", svc.scene.foregroundID>> \in Due
  \/ Failed

\* What was applied and said is numbered as it was handed over.
Numbered ==
  /\ AppliedNow =>
       /\ renderer.applied.generation = svc.scene.generation
       /\ renderer.applied.transportRevision = svc.scene.transportRevision
  /\ \A i \in DOMAIN events :
       /\ events[i].kind # "escape" => events[i].sceneRevision <= renderer.applied.revision
       /\ OfNewest(events[i]) => events[i].transportRevision = svc.scene.transportRevision

\* A scene is left out only for an Escape the service has yet to hear of.
Attempts ==
  /\ renderer.applied.revision <= renderer.attempted /\ renderer.attempted <= svc.scene.revision
  /\ renderer.attempted = svc.scene.revision =>
       AppliedNow \/ renderer.escapedAt = svc.scene.revision
  /\ renderer.escapedAt <= svc.scene.revision
  /\ renderer.escapedAt = svc.scene.revision /\ renderer.escapedAt # 0 /\ ~svc.closed => EscapeIsDue
  /\ renderer.applied.revision = 0 =>
       /\ renderer.todo = <<>> /\ renderer.foreground.id = 0
       /\ ~renderer.stageEnabled /\ ~renderer.tail

\* A source that loads is asked under the newest intent.
AskedNow(s) ==
  s.state = "loading" /\ s.foreground.id = s.generation =>
    s.foreground.transportRevision = s.transportRevision

\* So an event of it is fresh, and the failure of a scene with a stage is heard.
Trusts(s) ==
  /\ AskedNow(s)
  /\ ~Waits(s) /\ ~s.closed /\ s.scene.stage => s.scene.generation = s.generation

\* While a loaded show is being saved nothing can be shown.
LoadIsDark(s, operation) ==
  operation.op = "load" /\ operation.saving => ~s.stageDesired /\ s.pendingImage = NoCue

\* A source that is gone is reported,
SourceIsBelieved ==
  AppliedNow /\ ~Waits(svc) /\ ~svc.closed
    /\ svc.scene.foregroundID # 0 /\ renderer.foreground.id = 0
  => Gone \/ Wiped

\* and so is a stage that is not what the service believes,
StageIsBelieved ==
  AppliedNow /\ ~Waits(svc) /\ ~svc.closed =>
    \/ svc.stageEnabled = renderer.stageEnabled
    \/ <<"stage", svc.scene.generation>> \in Due \/ Failed \/ Wiped

\* by events that say what is so.
EventsAreTrue ==
  ~svc.closed =>
    \A i \in DOMAIN events :
      OfNewest(events[i]) => events[i].stageEnabled = renderer.stageEnabled \/ Wiped

\* The inductive invariant behind BeliefIsReal, with SystemInv: whatever the service
\* believes of its newest scene and is not so, an event on its way will tell.
BeliefInv ==
  /\ Numbered /\ Attempts /\ Trusts(svc) /\ LoadIsDark(svc, edit)
  /\ SourceIsBelieved /\ StageIsBelieved /\ EventsAreTrue

-----------------------------------------------------------------------------
(* Why "stopped" confirms silence. *)

\* Scenes are applied in order, and what was said was said of an applied one.
SaidInOrder ==
  /\ renderer.applied.revision <= renderer.attempted
  /\ \A i \in DOMAIN events :
       events[i].kind # "escape" => events[i].sceneRevision <= renderer.applied.revision

\* While STOP waits for its answer, nothing has begun to play since the renderer
\* resolved to give it, or gave it.
AnswersAreSilent ==
  svc.state = "stopping" =>
    /\ \A i \in DOMAIN renderer.todo :
         Told(renderer.todo[i]) = <<"stopped", svc.generation>>
           => renderer.foreground.id = 0 /\ ~renderer.tail
    /\ \A i \in DOMAIN events :
         Said(events[i]) = <<"stopped", svc.generation>> => QuietSince(events[i])

\* The inductive invariant behind StoppedIsSilent, with SystemInv.
SilenceInv == SaidInOrder /\ AnswersAreSilent
=============================================================================
