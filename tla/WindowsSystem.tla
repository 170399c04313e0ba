---------------------------- MODULE WindowsSystem ----------------------------
(***************************************************************************)
(* The service and the Windows renderer together: the composition of       *)
(* StageSystem.tla with the other implementation of the same C interface.  *)
(***************************************************************************)
EXTENDS Coordinator, Sequences

CONSTANTS EventLimit, ShortMedia, FaultKinds, MaxFaults

ASSUME RendererAssumption ==
  /\ EventLimit \in Nat \ {0} /\ MaxFaults \in Nat
  /\ ShortMedia \in BOOLEAN
  /\ FaultKinds \subseteq {"load", "session", "cleanup", "display", "gain", "device",
                           "background", "escape"}

VARIABLES renderer, events

rendererVars == <<renderer, events>>
systemVars == <<vars, renderer, events>>

Renderer == INSTANCE WindowsScene WITH wanted <- svc.scene

\* What the renderer may report is what Coordinator lets a renderer report.
Abstract == INSTANCE Coordinator WITH MaxInputs <- MaxInputs + MaxFaults

SystemInit == Init /\ Renderer!Init

\* an event whose cause Coordinator counts as an input
FromFault(event) == event.kind \in {"error", "device-lost", "escape"}

\* poll and eventLoop
HearEvent ==
  /\ events # <<>>
  /\ Renderer!Deliver
  /\ svc' = NativeEvent(IF FromFault(Head(events)) THEN Input(svc) ELSE Enter(svc),
                        Head(events))
  /\ CommandOnly

ByService(A) == A /\ UNCHANGED rendererVars
ByRenderer(A) == A /\ UNCHANGED vars

LoadWorker == TakeLoad \/ FinishLoad \/ DropLoad
ImageWorker == TakeImage \/ FinishImage \/ DropImage
BackgroundWorker == TakeBackground \/ FinishBackground \/ DropBackground

SystemNext ==
  \/ ByService(Commands \/ Preparation \/ Update \/ Stage \/ Show)
  \/ ByRenderer(Renderer!Next)
  \/ HearEvent

\* Three goroutines that inspect within a time limit, the message loop with its
\* timer, the poller, and sessions that answer what they are asked.  Nobody has to
\* press anything, nothing has to fail, and no source has to end.
SystemFairness ==
  /\ WF_systemVars(ByService(LoadWorker))
  /\ WF_systemVars(ByService(ImageWorker))
  /\ WF_systemVars(ByService(BackgroundWorker))
  /\ WF_systemVars(ByRenderer(Renderer!Apply))
  /\ WF_systemVars(ByRenderer(Renderer!Tick))
  /\ WF_systemVars(ByRenderer(Renderer!Decode))
  /\ WF_systemVars(ByRenderer(Renderer!FadesOut))
  /\ WF_systemVars(HearEvent)

SystemSpec == SystemInit /\ [][SystemNext]_systemVars /\ SystemFairness

-----------------------------------------------------------------------------
(* Properties. *)

\* Types of both sides; the queue between emitScene and ss_poll keeps its limit.
SystemTypeOK == TypeOK /\ Renderer!TypeOK

\* Every behaviour of the two together is one of Coordinator with any renderer:
\* no event of the Windows bridge is one Coordinator does not expect.
CoordinatorSpec == Abstract!Spec

\* STOP is answered: sooner or later the service no longer says "stopping".
StopIsAnswered == svc.state = "stopping" ~> svc.state # "stopping"

\* A source that completed does not stay on the screens for ever, whatever
\* scene was on its way when it completed.
EndIsNoticed ==
  renderer.completed # 0 /\ renderer.completed = svc.foreground.id
    ~> renderer.completed # svc.foreground.id

\* The screens are never left waiting: STOP is answered, an end is noticed.
AnswersCome == StopIsAnswered /\ EndIsNoticed

\* "stopped" confirms silence: when the service takes it for the answer to STOP,
\* nothing plays, nothing is about to, and nothing fades but what a newer scene has
\* replaced since: a background, as no source has played.
StoppedIsSilent ==
  [][svc.state = "stopping" /\ svc'.state = "stopped" /\ events' # events
       => /\ renderer.loading = 0 /\ renderer.incoming.id = 0 /\ renderer.foreground.id = 0
          /\ renderer.tail => Head(events).sceneRevision < renderer.applied.revision]_systemVars

\* Once nothing is under way, what the service believes is so: the source it
\* waits for, plays or holds paused is one the renderer has, and the stage is on
\* when it says so.
BeliefIsReal ==
  Renderer!Quiescent /\ ~svc.closed =>
    /\ svc.foreground.id # 0 =>
         svc.foreground.id \in {renderer.loading, renderer.incoming.id,
                                renderer.foreground.id}
    /\ svc.state \in {"stopped", "error"} => Renderer!Silent \/ renderer.tail
    /\ svc.stageEnabled = renderer.stageEnabled

\* "paused/playing acknowledge transport application" (bridge.h:37): once nothing
\* is under way, a player in the state that was asked for has been heard.
ReportsAreHeard ==
  Renderer!Quiescent /\ renderer.foreground.id = svc.generation
    /\ renderer.foreground.operation = "none"
    /\ renderer.foreground.transportRevision = svc.transportRevision
    /\ renderer.foreground.seekRevision = svc.foreground.seekRevision
  => svc.state = IF renderer.foreground.paused THEN "paused" ELSE "playing"

\* "An accepted changed/inaccessible source fails into silence and blackout"
\* (media-compatibility.md:47): once nothing is under way, the service waits for no
\* source that the renderer has given up.
FailuresAreHeard ==
  Renderer!Quiescent /\ ~svc.closed /\ svc.foreground.id # 0 =>
    svc.foreground.id \in {renderer.loading, renderer.incoming.id, renderer.foreground.id}

\* "authoritative completion arrives in Events" (backend.go:96): once nothing is
\* under way, a source that stands at its end has been taken for ended.
CompletionIsTaken ==
  LET p == renderer.foreground IN
  Renderer!Quiescent /\ svc.state = "playing" /\ p.id = svc.foreground.id
    /\ p.operation = "none" /\ ~Renderer!NeedsStart(p) /\ ~Renderer!NeedsPause(p)
    /\ p.over
  => p.ended
=============================================================================
