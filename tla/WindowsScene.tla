---------------------------- MODULE WindowsScene ----------------------------
(***************************************************************************)
(* The Windows renderer, platform/bridge_windows.cpp: what happens to a    *)
(* scene between ss_scene, which any thread may call, and the events that  *)
(* ss_poll hands back.                                                     *)
(*                                                                         *)
(* One thread owns every window and every session and runs one message     *)
(* handler after another: a scene that was stored, a source the loader     *)
(* thread has prepared, the 20 ms timer, Escape, a change of devices.      *)
(* ss_scene may store a newer revision in the middle of a handler, which   *)
(* the handler notices where it asks sceneCurrent; step and slot say where *)
(* the running handler is between two such looks.  A handler starts with   *)
(* processSceneCommand: that is a task of its own here, since a scene      *)
(* stored just after it leads to the same states.                          *)
(*                                                                         *)
(* Left out: what is drawn and how loud it is (StagePictures.tla has the   *)
(* pictures), and with it the time a fade takes; the Start/Stop/Stage      *)
(* calls kept for the diagnostic harness; the event that lists the devices *)
(* anew; quitting.                                                         *)
(***************************************************************************)
EXTENDS Naturals, Sequences

CONSTANTS
  Cues, NoCue,
  EventLimit,   \* capacity of the event queue (256)
  ShortMedia,   \* sources may end before the thread has noticed their start
  FaultKinds,   \* what may go wrong: "load", "session", "cleanup", "display",
                \* "gain", "device", "background", "escape"
  MaxFaults     \* bound: how often

VARIABLES
  wanted,    \* the newest scene given to ss_scene: sceneRevision and latestScene.
             \* Written by the service only.
  renderer,  \* what the window thread owns
  events     \* the queue behind emitScene, ss_poll and the channel to Go

\* Playback, for the foreground role.  over: the session has come to its end and
\* said so; ended: that was taken for the end of the source (nativeEnded).
Player ==
  [id : Nat, ready : BOOLEAN, operation : {"none", "start", "pause"},
   operationRevision : Nat, operationSeekRevision : Nat,
   transportRevision : Nat, seekRevision : Nat, started : BOOLEAN, paused : BOOLEAN,
   playing : BOOLEAN, over : BOOLEAN, ended : BOOLEAN]
NewPlayer(id) ==
  [id |-> id, ready |-> FALSE, operation |-> "none",
   operationRevision |-> 0, operationSeekRevision |-> 0,
   transportRevision |-> 0, seekRevision |-> 0, started |-> FALSE, paused |-> FALSE,
   playing |-> FALSE, over |-> FALSE, ended |-> FALSE]
NoPlayer == NewPlayer(0)

\* the part of the last applied scene that later handlers compare or repeat
Applied == [revision : Nat, generation : Nat, foregroundID : Nat, paused : BOOLEAN,
            transportRevision : Nat, seekRevision : Nat, background : Cues \cup {NoCue}]
Part(scene) ==
  [revision |-> scene.revision, generation |-> scene.generation,
   foregroundID |-> scene.foregroundID, paused |-> scene.paused,
   transportRevision |-> scene.transportRevision, seekRevision |-> scene.seekRevision,
   background |-> scene.background]

EventKinds == {"stage", "background-error", "device-lost", "error", "playing",
               "paused", "progress", "ended", "stopped", "escape"}

TypeOK ==
  /\ renderer \in
       [applied : Applied, stageEnabled : BOOLEAN, loading : Nat,
        incoming : Player, foreground : Player, tail : BOOLEAN, completed : Nat,
        stoppedGeneration : Nat, fatal : Nat,
        step : {"idle", "read", "say", "end", "sayEnd"},
        slot : {"incoming", "foreground"}, faults : 0 .. MaxFaults]
  /\ events \in Seq([kind : EventKinds, generation : Nat, transportRevision : Nat,
                     sceneRevision : Nat, stageEnabled : BOOLEAN])
  /\ Len(events) <= EventLimit

Init ==
  /\ renderer =
       [applied |-> [revision |-> 0, generation |-> 0, foregroundID |-> 0,
                     paused |-> FALSE, transportRevision |-> 0, seekRevision |-> 0,
                     background |-> NoCue],
        stageEnabled |-> FALSE, loading |-> 0, incoming |-> NoPlayer,
        foreground |-> NoPlayer, tail |-> FALSE, completed |-> 0,
        stoppedGeneration |-> 0, fatal |-> 0, step |-> "idle", slot |-> "foreground",
        faults |-> 0]
  /\ events = <<>>

-----------------------------------------------------------------------------
(* sceneCurrent and the event queue. *)

Idle == renderer.step = "idle"

\* latestScene holds the newest scene until processSceneCommand applies it
Pending == renderer.applied.revision # wanted.revision

Current == renderer.applied.revision # 0 /\ ~Pending

\* the events under a scene and with a stage of r; unlike the macOS renderer
\* emitScene asks nothing
Event(r, kind, generation, transport) ==
  [kind |-> kind, generation |-> generation, transportRevision |-> transport,
   sceneRevision |-> r.applied.revision, stageEnabled |-> r.stageEnabled]

\* at the limit the oldest event goes
Queue(queue, event) ==
  IF Len(queue) < EventLimit THEN Append(queue, event) ELSE Append(Tail(queue), event)

\* a handler that ends with the state r and one event
Tells(r, kind, generation, transport) ==
  /\ renderer' = r
  /\ events' = Queue(events, Event(r, kind, generation, transport))

Faulty(kind) == kind \in FaultKinds /\ renderer.faults < MaxFaults
Fault(r) == [r EXCEPT !.faults = @ + 1]

\* slip: clearScene(false)
ClearKeepingStage(r) ==
  [r EXCEPT !.loading = 0, !.incoming = NoPlayer, !.foreground = NoPlayer,
            !.tail = FALSE, !.completed = 0, !.stoppedGeneration = 0, !.step = "idle"]

\* clearScene(true): new tokens for every role, so that nothing prepared,
\* completed or loading before counts any more
Clear(r) ==
  [r EXCEPT !.loading = 0, !.incoming = NoPlayer, !.foreground = NoPlayer,
            !.tail = FALSE, !.completed = 0, !.stoppedGeneration = 0, !.step = "idle",
            !.stageEnabled = FALSE]

-----------------------------------------------------------------------------
(* processSceneCommand. *)

\* slip: "stopped" is announced for the first scene without a source only
StopDueOnChange(scene) ==
  scene.foregroundID = 0 /\ scene.foregroundID # renderer.applied.foregroundID

\* a scene that plays nothing is answered with "stopped" once all is silent
StopDue(scene) ==
  /\ scene.foregroundID = 0
  /\ \/ scene.generation # renderer.applied.generation
     \/ scene.foregroundID # renderer.applied.foregroundID

\* retireWithFade: what leaves may keep its sound or its picture for the fade; a
\* paused source silences the sounds that fade
Tails(leaves, paused) ==
  {renderer.tail} \cup (IF leaves THEN {TRUE} ELSE {}) \cup (IF paused THEN {FALSE} ELSE {})

Retires(scene) ==
  \/ scene.foregroundID = 0 /\ renderer.foreground.playing
  \/ renderer.applied.background # NoCue

\* The scene's source: kept, loading anew, or retired with what it replaces.
\* The one that plays goes on until the new one has started.
WithSource(r, scene) ==
  IF scene.foregroundID = r.applied.foregroundID THEN r
  ELSE [r EXCEPT !.incoming = NoPlayer, !.completed = 0, !.loading = scene.foregroundID,
                 !.foreground = IF scene.foregroundID = 0 THEN NoPlayer ELSE @]

Enter(scene) ==
  [WithSource(renderer, scene) EXCEPT
     !.applied = Part(scene), !.stageEnabled = scene.stage,
     !.stoppedGeneration = IF StopDue(scene) THEN scene.generation ELSE @]

\* a scene that still asks for the source that has completed is told again
Reminder(r, scene) ==
  /\ scene.foregroundID # 0 /\ r.foreground.id = 0 /\ r.incoming.id = 0
  /\ r.completed = scene.foregroundID

ApplyHard ==
  /\ Idle /\ Pending /\ wanted.hard
  /\ LET r == [Clear(renderer) EXCEPT !.applied = Part(wanted)] IN
     /\ renderer' = r
     /\ events' = Queue(Queue(events, Event(r, "stage", wanted.generation, 0)),
                        Event(r, "stopped", wanted.generation, 0))

\* enableStage fails: the display is gone
ApplyWithoutDisplay ==
  /\ Idle /\ Pending /\ ~wanted.hard
  /\ wanted.stage /\ ~renderer.stageEnabled /\ Faulty("display")
  /\ Tells([Clear(Fault(renderer)) EXCEPT !.applied = Part(wanted)],
           "error", wanted.generation, wanted.transportRevision)

ApplyScene ==
  \E tail \in Tails(Retires(wanted), wanted.paused) :
    /\ Idle /\ Pending /\ ~wanted.hard
    /\ LET r == [Enter(wanted) EXCEPT !.tail = tail]
           told == Queue(events, Event(r, "stage", wanted.generation, 0))
       IN /\ renderer' = r
          /\ events' = IF Reminder(r, wanted)
                       THEN Queue(told, Event(r, "ended", wanted.foregroundID,
                                              wanted.transportRevision))
                       ELSE told

\* a gain cannot be set: noticed by the next tick, whatever scene it finds
ApplyWithoutGain ==
  \E generation \in {wanted.generation, wanted.foregroundID} \ {0} :
    /\ Idle /\ Pending /\ ~wanted.hard /\ Faulty("gain")
    /\ renderer.foreground.id # 0
    /\ Tells([Fault(Enter(wanted)) EXCEPT !.fatal = generation],
             "stage", wanted.generation, 0)

\* queueScene refuses: eight retired sessions wait to be shut down
ApplyWhileCleaning ==
  /\ Idle /\ Pending /\ ~wanted.hard /\ Faulty("cleanup")
  /\ wanted.foregroundID \notin {0, renderer.applied.foregroundID}
  /\ LET r == Clear(Fault(Enter(wanted))) IN
     /\ renderer' = r
     /\ events' = Queue(Queue(events, Event(Enter(wanted), "stage", wanted.generation, 0)),
                        Event(r, "error", wanted.foregroundID, wanted.transportRevision))

-----------------------------------------------------------------------------
(* readyMessage: the loader thread has prepared the source, or could not. *)

Loads ==
  /\ Idle /\ renderer.loading # 0
  /\ renderer' = [renderer EXCEPT !.incoming = NewPlayer(renderer.loading), !.loading = 0]
  /\ UNCHANGED events

LoadFails ==
  /\ Idle /\ renderer.loading # 0 /\ Faulty("load")
  /\ Tells(Clear(Fault(renderer)), "error",
           renderer.loading, renderer.applied.transportRevision)

-----------------------------------------------------------------------------
(* tickScene, which pumps the incoming player and the present one.          *)

\* the timer's handler has come to the player in slot, and reads its events
Pumping(slot) ==
  /\ renderer[slot].id # 0
  /\ \/ Idle /\ Current /\ renderer.fatal = 0
     \/ renderer.step = "read" /\ renderer.slot = slot

\* foregroundCurrent
IsCurrent(p) == Current /\ p.id = renderer.applied.foregroundID

\* emitForeground would speak for p
MaySpeak(p) ==
  /\ IsCurrent(p) /\ p.operation = "none"
  /\ p.transportRevision = renderer.applied.transportRevision

\* the handler goes on with the player p at step
Goes(slot, p, step) ==
  /\ renderer' = [renderer EXCEPT ![slot] = p, !.slot = slot, !.step = step]
  /\ UNCHANGED events

ReadReady ==
  \E slot \in {"incoming", "foreground"} :
    /\ Pumping(slot) /\ ~renderer[slot].ready
    /\ Goes(slot, [renderer[slot] EXCEPT !.ready = TRUE], "read")

ReadStarted ==
  \E slot \in {"incoming", "foreground"} :
    LET p == renderer[slot] IN
    /\ Pumping(slot) /\ p.operation = "start"
    /\ Goes(slot, [p EXCEPT !.started = TRUE, !.paused = FALSE, !.operation = "none",
                            !.seekRevision = p.operationSeekRevision, !.over = FALSE],
            "read")

ReadPaused ==
  \E slot \in {"incoming", "foreground"} :
    LET p == renderer[slot] IN
    /\ Pumping(slot) /\ p.operation = "pause"
    /\ Goes(slot, [p EXCEPT !.paused = TRUE, !.operation = "none"], "read")

\* an operation for an older transport revision failed: nobody waits for it
ReadStaleFailure ==
  \E slot \in {"incoming", "foreground"} :
    LET p == renderer[slot] IN
    /\ Pumping(slot) /\ p.operation # "none" /\ Faulty("session")
    /\ p.operationRevision # renderer.applied.transportRevision
    /\ renderer' = [Fault(renderer) EXCEPT ![slot].operation = "none",
                                          !.slot = slot, !.step = "read"]
    /\ UNCHANGED events

\* The end counts under the intent that is applied, and only if none is stored.
EndsSource(p) ==
  /\ IsCurrent(p) /\ ~renderer.applied.paused
  /\ p.seekRevision = renderer.applied.seekRevision

\* the session of p may post MESessionEnded; one that waits behind an operation
\* counts for nothing
MayEnd(p) ==
  /\ p.started /\ ~p.paused /\ ~p.over /\ p.operation = "none"
  /\ p.playing \/ ShortMedia

\* the first look, taken apart from the second one that judges the end
BeginReading ==
  \E slot \in {"incoming", "foreground"} :
    /\ Idle /\ Pumping(slot) /\ MayEnd(renderer[slot])
    /\ Goes(slot, renderer[slot], "read")

ReadEnd ==
  /\ renderer.step = "read"
  /\ LET p == renderer[renderer.slot] IN
     /\ MayEnd(p)
     /\ Goes(renderer.slot,
             [p EXCEPT !.over = TRUE, !.ended = p.ended \/ EndsSource(p)], "read")

\* a failure of the source of the scene brings everything down ...
PlayerFails ==
  \E slot \in {"incoming", "foreground"} :
    /\ Pumping(slot) /\ Faulty("session")
    /\ renderer[slot].id = renderer.applied.foregroundID
    /\ Tells(Clear(Fault(renderer)), "error",
             renderer[slot].id, renderer.applied.transportRevision)

\* ... that of a source on its way out only shortens its stay
LeavingPlayerFails ==
  \E tail \in {renderer.tail, TRUE} :
    /\ Pumping("foreground") /\ Faulty("session")
    /\ renderer.foreground.id # renderer.applied.foregroundID
    /\ renderer' = [Fault(renderer) EXCEPT !.foreground = NoPlayer, !.tail = tail,
                                          !.step = "idle"]
    /\ UNCHANGED events

\* reconcileForegroundTransport may act on p, all events being read
Reconciles(p) == IsCurrent(p) /\ p.ready /\ p.operation = "none"

\* a start resumes, seeks or begins
NeedsStart(p) ==
  \/ ~p.started \/ p.seekRevision # renderer.applied.seekRevision
  \/ p.paused /\ ~renderer.applied.paused

NeedsPause(p) == ~NeedsStart(p) /\ ~p.paused /\ renderer.applied.paused

\* one asynchronous operation at a time, for the intent applied now
Requests(slot, operation) ==
  LET p == renderer[slot] IN
  Goes(slot,
       [p EXCEPT !.operation = operation,
                 !.operationRevision = renderer.applied.transportRevision,
                 !.operationSeekRevision = renderer.applied.seekRevision,
                 !.ended = @ /\ operation # "start"],
       "idle")

RequestStart ==
  \E slot \in {"incoming", "foreground"} :
    /\ Pumping(slot) /\ Reconciles(renderer[slot]) /\ NeedsStart(renderer[slot])
    /\ Requests(slot, "start")

RequestPause ==
  \E slot \in {"incoming", "foreground"} :
    /\ Pumping(slot) /\ Reconciles(renderer[slot]) /\ NeedsPause(renderer[slot])
    /\ Requests(slot, "pause")

\* The native state is what the scene asks for.  The incoming player takes the
\* place of the present one; the acknowledgement looks at the revision again.
Settle ==
  \E slot \in {"incoming", "foreground"} :
  \E tail \in IF slot = "incoming"
              THEN Tails(renderer.foreground.id # 0, renderer.applied.paused)
              ELSE {renderer.tail} :
    LET p == renderer[slot]
        fresh == ~p.playing \/ p.transportRevision # renderer.applied.transportRevision
    IN
    /\ Pumping(slot) /\ Reconciles(p) /\ ~NeedsStart(p) /\ ~NeedsPause(p)
    /\ fresh \/ renderer.step = "read" \/ p.ended
    /\ renderer' =
         [renderer EXCEPT
            ![slot] = [p EXCEPT !.transportRevision = renderer.applied.transportRevision,
                                !.playing = TRUE],
            !.foreground = IF slot = "incoming" THEN NoPlayer ELSE @,
            !.tail = tail, !.slot = slot, !.step = IF fresh THEN "say" ELSE "end"]
    /\ UNCHANGED events

\* nothing to reconcile, or no authority to
Leave ==
  /\ renderer.step = "read" /\ ~Reconciles(renderer[renderer.slot])
  /\ renderer' = [renderer EXCEPT !.step = "idle"]
  /\ UNCHANGED events

\* the player of the running handler
Pumped == renderer[renderer.slot]

\* emitForeground: silent when a newer scene has been stored
Say ==
  /\ renderer.step = "say"
  /\ renderer' = [renderer EXCEPT !.step = "end"]
  /\ events' = IF MaySpeak(Pumped)
               THEN Queue(events, Event(renderer, IF Pumped.paused THEN "paused" ELSE "playing",
                                        Pumped.id, Pumped.transportRevision))
               ELSE events

\* the source is over under the intent that is applied
Ends(p) == p.ended /\ MaySpeak(p) /\ ~renderer.applied.paused

EndIsDue ==
  /\ renderer.step = "end" /\ Ends(Pumped)
  /\ renderer' = [renderer EXCEPT !.step = "sayEnd"]
  /\ UNCHANGED events

\* the player stays; an incoming one becomes the present one
Stays ==
  /\ renderer.step = "end" /\ ~Ends(Pumped)
  /\ renderer' = [renderer EXCEPT !.foreground = Pumped, !.incoming =
                     IF renderer.slot = "incoming" THEN NoPlayer ELSE @, !.step = "idle"]
  /\ UNCHANGED events

\* slip: nobody remembers which source has completed
CompletedNothing(slot) == 0

\* a present source that has completed is remembered by its token; an incoming
\* one is halted
Completed(slot) == IF slot = "foreground" THEN renderer.foreground.id ELSE renderer.completed

SayEnd ==
  \E tail \in Tails(renderer.slot = "foreground", FALSE) :
    /\ renderer.step = "sayEnd"
    /\ renderer' = [renderer EXCEPT ![renderer.slot] = NoPlayer, !.tail = tail,
                                    !.completed = Completed(renderer.slot), !.step = "idle"]
    /\ events' = IF MaySpeak(Pumped)
                 THEN Queue(events, Event(renderer, "ended", Pumped.id,
                                          Pumped.transportRevision))
                 ELSE events

\* the failure that an older handler met
Fails ==
  /\ Idle /\ Current /\ renderer.fatal # 0
  /\ Tells([Clear(renderer) EXCEPT !.fatal = 0], "error",
           renderer.fatal, renderer.applied.transportRevision)

\* the end of the last fade
FadesOut ==
  /\ Idle /\ Current /\ renderer.fatal = 0 /\ renderer.tail
  /\ renderer' = [renderer EXCEPT !.tail = FALSE]
  /\ UNCHANGED events

\* slip: silence is reported while the old sound still fades
SilentButForTail ==
  renderer.foreground.id = 0 /\ renderer.incoming.id = 0

Silent ==
  renderer.foreground.id = 0 /\ renderer.incoming.id = 0 /\ ~renderer.tail

ReportStopped ==
  /\ Idle /\ Current /\ renderer.fatal = 0
  /\ renderer.stoppedGeneration # 0 /\ Silent
  /\ Tells([renderer EXCEPT !.stoppedGeneration = 0], "stopped",
           renderer.stoppedGeneration, 0)

\* every quarter of a second; one such report in the queue is as good as many
Progresses ==
  /\ Idle /\ renderer.fatal = 0
  /\ renderer.foreground.playing /\ MaySpeak(renderer.foreground)
  /\ \A i \in DOMAIN events : events[i].kind # "progress"
  /\ Tells(renderer, "progress", renderer.foreground.id,
           renderer.foreground.transportRevision)

\* a gain cannot be set in the middle of a fade
FadeFails ==
  /\ Idle /\ Current /\ renderer.fatal = 0 /\ Faulty("gain")
  /\ renderer.foreground.playing \/ renderer.tail
  /\ Tells(Clear(Fault(renderer)), "error",
           renderer.applied.generation, renderer.applied.transportRevision)

-----------------------------------------------------------------------------
(* The other handlers. *)

\* a background that cannot be decoded, prepared or shown
BackgroundFails ==
  /\ Idle /\ Faulty("background")
  /\ renderer.applied.background # NoCue /\ renderer.stageEnabled
  /\ Tells(Fault(renderer), "background-error", renderer.applied.generation, 0)

\* checkDevices: the display or the sound device in use has gone
LosesDevice ==
  /\ Idle /\ Faulty("device")
  /\ \/ renderer.stageEnabled \/ renderer.incoming.id # 0
     \/ renderer.foreground.id # 0 \/ renderer.tail
  /\ Tells(Clear(Fault(renderer)), "device-lost", renderer.applied.generation, 0)

\* Escape, or closing the stage window
PressEscape ==
  /\ Idle /\ Faulty("escape") /\ renderer.applied.revision # 0
  /\ Tells(Clear(Fault(renderer)), "escape", renderer.applied.generation, 0)

-----------------------------------------------------------------------------
Apply == ApplyHard \/ ApplyWithoutDisplay \/ ApplyScene \/ ApplyWithoutGain \/ ApplyWhileCleaning

\* what the window thread does without waiting for a session
Tick ==
  \/ RequestStart \/ RequestPause \/ Settle \/ Leave \/ Say \/ EndIsDue \/ Stays \/ SayEnd
  \/ Fails \/ ReportStopped

\* what the sessions and the loader do by themselves, sooner or later
Decode == Loads \/ ReadReady \/ ReadStarted \/ ReadPaused

SourceEnds == BeginReading \/ ReadEnd

Faults ==
  \/ LoadFails \/ ReadStaleFailure \/ PlayerFails \/ LeavingPlayerFails \/ FadeFails
  \/ BackgroundFails \/ LosesDevice \/ PressEscape

Next == Apply \/ Tick \/ Decode \/ SourceEnds \/ FadesOut \/ Progresses \/ Faults

\* the poller hands the oldest event to the service
Deliver ==
  /\ events # <<>>
  /\ events' = Tail(events)
  /\ UNCHANGED renderer

\* nothing is under way between the service and the renderer
Quiescent == Idle /\ events = <<>> /\ ~Pending /\ renderer.fatal = 0
=============================================================================
