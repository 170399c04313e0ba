---------------------------- MODULE NativeScene ----------------------------
(***************************************************************************)
(* The macOS renderer, platform/bridge_darwin.m: what happens to a scene   *)
(* between ss_scene, which any thread may call, and the events that        *)
(* ss_poll hands back.                                                     *)
(*                                                                         *)
(* Everything but ss_scene runs on the main queue, one task after another, *)
(* but a task is not atomic: ss_scene stores a newer revision at any point *)
(* of it, and the task looks at that revision again and again              *)
(* (currentScene).  todo holds the steps of the running task that are      *)
(* still to come; a step is what happens between two such looks.           *)
(*                                                                         *)
(* Left out: what is drawn and how loud it is, and with it the time a       *)
(* background takes to fade in; images, whose only event                   *)
(* (background-error) says of the stage what the stage event says; the     *)
(* hidden seek and the wait for the first frame of a video paused while it *)
(* loads, which are part of loading here; the event that lists the         *)
(* devices anew; ss_quit.                                                  *)
(***************************************************************************)
EXTENDS Naturals, Sequences

CONSTANTS
  Cues, NoCue,
  VideoBackgrounds,  \* cues whose background is a moving picture
  BackgroundAudio,   \* the stage setting: background videos are heard
  EventLimit,        \* capacity of the event queue (256)
  MaxFaults          \* bound: decoder and device failures, presses of Escape

VARIABLES
  wanted,    \* the newest scene given to ss_scene: requestedSceneRevision and
             \* latestCommand.  Written by the service only.
  renderer,  \* the main queue's own state
  events     \* the queue behind emitScene, ss_poll and the channel to Go

\* SSScenePlayer of the foreground.  rate: play was called; running: the clock
\* moves (timeControlStatus); soughtRevision: completedSeekRevision.
Player ==
  [id : Nat, loaded : BOOLEAN, failed : BOOLEAN, rate : BOOLEAN, running : BOOLEAN,
   started : BOOLEAN, reported : BOOLEAN, atEnd : BOOLEAN, paused : BOOLEAN,
   seeking : BOOLEAN, transportRevision : Nat, seekRevision : Nat, soughtRevision : Nat]
NewPlayer(id) ==
  [id |-> id, loaded |-> FALSE, failed |-> FALSE, rate |-> FALSE, running |-> FALSE,
   started |-> FALSE, reported |-> FALSE, atEnd |-> FALSE, paused |-> FALSE,
   seeking |-> FALSE, transportRevision |-> 0, seekRevision |-> 0, soughtRevision |-> 0]
NoPlayer == NewPlayer(0)

\* sceneBackground, as far as it decides who keeps the sound
Background == [cue : Cues \cup {NoCue}, started : BOOLEAN]
NoBackground == [cue |-> NoCue, started |-> FALSE]

\* the scene last applied, as far as events repeat it
Applied == [revision : Nat, generation : Nat, transportRevision : Nat]

EventKinds == {"stage", "background-error", "device-lost", "error", "playing",
               "paused", "progress", "ended", "stopped"}
Task == [do : EventKinds \cup {"ready", "finish", "mix"}, generation : Nat]

TypeOK ==
  /\ renderer \in
       [applied : Applied, attempted : Nat, escapedAt : Nat, endedID : Nat,
        stoppedPending : BOOLEAN, stageEnabled : BOOLEAN, foreground : Player,
        background : Background, tail : BOOLEAN, todo : Seq(Task), faults : 0 .. MaxFaults]
  /\ events \in Seq([kind : EventKinds \cup {"escape"}, generation : Nat,
                     transportRevision : Nat, sceneRevision : Nat, stageEnabled : BOOLEAN])
  /\ Len(events) <= EventLimit

Init ==
  /\ renderer =
       [applied |-> [revision |-> 0, generation |-> 0, transportRevision |-> 0],
        attempted |-> 0, escapedAt |-> 0, endedID |-> 0,
        stoppedPending |-> FALSE, stageEnabled |-> FALSE, foreground |-> NoPlayer,
        background |-> NoBackground, tail |-> FALSE, todo |-> <<>>, faults |-> 0]
  /\ events = <<>>

-----------------------------------------------------------------------------
(* currentScene and the event queue. *)

\* A newer ss_scene, or Escape without one, ends the authority of the applied
\* scene.  ss_scene clears the emergency flag as it stores a revision, so the
\* flag is the revision under which Escape was pressed.
Current ==
  /\ renderer.applied.revision # 0
  /\ renderer.escapedAt # wanted.revision
  /\ renderer.applied.revision = wanted.revision

\* slip: the queue has no limit
QueueUnbounded(event) == events' = Append(events, event)

\* at the limit the oldest event goes
Queue(event) ==
  events' = IF Len(events) < EventLimit THEN Append(events, event)
            ELSE Append(Tail(events), event)

Say(kind, generation) ==
  Queue([kind |-> kind, generation |-> generation,
         transportRevision |-> renderer.applied.transportRevision,
         sceneRevision |-> renderer.applied.revision,
         stageEnabled |-> renderer.stageEnabled])

Do(do, generation) == [do |-> do, generation |-> generation]

\* the main thread is free for the next task
Idle == renderer.todo = <<>>

\* the running task goes on with step
Doing(step) == ~Idle /\ Head(renderer.todo).do = step

\* the step leads to others before the rest of its task
Continue(r, steps) == [r EXCEPT !.todo = steps \o Tail(@)]

-----------------------------------------------------------------------------
(* Applying a scene. *)

\* slip: stopScene alone
TearDownKeepingStage(r) ==
  [r EXCEPT !.foreground = NoPlayer, !.background = NoBackground, !.tail = FALSE,
            !.stoppedPending = FALSE]

\* stopScene and hideSceneStage
TearDown(r) ==
  [r EXCEPT !.foreground = NoPlayer, !.background = NoBackground, !.tail = FALSE,
            !.stoppedPending = FALSE, !.stageEnabled = FALSE]

\* transportPaused:revision:seekRevision:seconds:
Transport(p, scene) ==
  IF p.id = 0 THEN p
  ELSE [p EXCEPT !.paused = scene.paused, !.transportRevision = scene.transportRevision,
                 !.seekRevision = scene.seekRevision,
                 !.seeking = @ /\ p.seekRevision = scene.seekRevision,
                 !.reported = @ /\ p.transportRevision = scene.transportRevision
                                /\ p.paused = scene.paused,
                 !.rate = @ /\ ~scene.paused, !.running = @ /\ ~scene.paused]

\* the player the scene asks for: the present one, a new one, or none for a
\* source that has ended
Choose(scene) ==
  IF renderer.foreground.id = scene.foregroundID THEN renderer.foreground
  ELSE IF scene.foregroundID = renderer.endedID THEN NoPlayer
  ELSE NewPlayer(scene.foregroundID)

ChooseBackground(scene) ==
  IF scene.background \notin VideoBackgrounds THEN NoBackground
  ELSE IF renderer.background.cue = scene.background THEN renderer.background
  ELSE [cue |-> scene.background, started |-> FALSE]

\* what the applied scene replaces may be audible and fade
Retires(scene) ==
  \/ renderer.foreground.running /\ renderer.foreground.id # scene.foregroundID
  \/ renderer.background.started /\ renderer.background.cue # scene.background

\* slip: the end of a source is reported once
NoReminder(scene) == <<>>

\* a scene that still asks for the source that ended is told again
Reminder(scene) ==
  IF scene.foregroundID # 0 /\ scene.foregroundID = renderer.endedID
  THEN <<Do("ended", scene.foregroundID)>> ELSE <<>>

Accept(r) ==
  [r EXCEPT !.attempted = wanted.revision,
            !.applied = [revision |-> wanted.revision, generation |-> wanted.generation,
                         transportRevision |-> wanted.transportRevision]]

Pending == Idle /\ renderer.attempted < wanted.revision

\* Escape came after the scene
ApplyNothing ==
  /\ Pending /\ renderer.escapedAt = wanted.revision
  /\ renderer' = [renderer EXCEPT !.attempted = wanted.revision]
  /\ UNCHANGED events

ApplyHard ==
  /\ Pending /\ renderer.escapedAt # wanted.revision /\ wanted.hard
  /\ renderer' = [TearDown(Accept(renderer)) EXCEPT
                    !.todo = <<Do("stage", wanted.generation),
                               Do("stopped", wanted.generation)>>]
  /\ UNCHANGED events

\* enableStage fails: the display is gone
ApplyWithoutDisplay ==
  /\ Pending /\ renderer.escapedAt # wanted.revision /\ ~wanted.hard
  /\ wanted.stage /\ ~renderer.stageEnabled
  /\ renderer.faults < MaxFaults
  /\ renderer' = [TearDown(Accept(renderer)) EXCEPT
                    !.faults = @ + 1, !.todo = <<Do("error", wanted.generation)>>]
  /\ UNCHANGED events

ApplyScene ==
  \E fades \in {FALSE, Retires(wanted)} :
    /\ Pending /\ renderer.escapedAt # wanted.revision /\ ~wanted.hard
    /\ LET player == Transport(Choose(wanted), wanted) IN
       renderer' =
         [Accept(renderer) EXCEPT
            !.stageEnabled = wanted.stage,
            !.stoppedPending = wanted.foregroundID = 0,
            !.foreground = player,
            !.background = ChooseBackground(wanted),
            \* a paused source silences what fades
            !.tail = (@ \/ fades) /\ (player.id # 0 => ~player.paused),
            !.todo = <<Do("ready", 0), Do("mix", 0), Do("stage", wanted.generation)>>
                       \o Reminder(wanted)]
    /\ UNCHANGED events

-----------------------------------------------------------------------------
(* Steps of a task. *)

\* a look at the newest revision that found it changed: nothing happens, and
\* the next applyScene decides
StepOvertaken ==
  /\ ~Idle /\ ~Current
  /\ renderer' = Continue(renderer, <<>>)
  /\ UNCHANGED events

\* emitScene
Emit ==
  /\ ~Idle /\ Head(renderer.todo).do \in EventKinds /\ Current
  /\ Say(Head(renderer.todo).do, Head(renderer.todo).generation)
  /\ renderer' = Continue(renderer, <<>>)

\* slip: "stopped" is reported while the old sound still fades
StoppedByNow == renderer.stoppedPending /\ renderer.foreground.id = 0

\* completeSceneFade: silence is reported once nothing is heard any more
StoppedIsDue ==
  renderer.stoppedPending /\ renderer.foreground.id = 0 /\ ~renderer.tail

\* mixScene, which ends the fade when there is none left to run
Mix ==
  /\ Doing("mix") /\ Current
  /\ renderer' = IF StoppedIsDue
                 THEN Continue([renderer EXCEPT !.stoppedPending = FALSE],
                               <<Do("stopped", renderer.applied.generation)>>)
                 ELSE Continue(renderer, <<>>)
  /\ UNCHANGED events

\* what ready does with the player p; what it emits and mixes comes after
ReadyWith(p, steps) ==
  /\ Doing("ready") /\ Current
  /\ renderer' = Continue([renderer EXCEPT !.foreground = p], steps)
  /\ UNCHANGED events

\* the part of ready that acts: a prepared player of the current scene
Prepared(p) == p.id # 0 /\ p.loaded /\ ~p.failed

\* ready reports an intent once
Report(p, kind) ==
  IF p.reported THEN <<>> ELSE <<Do(kind, p.id)>>

ReadyTooEarly ==
  /\ ~Prepared(renderer.foreground) /\ ~renderer.foreground.failed
  /\ ReadyWith(renderer.foreground, <<>>)

\* a failure that came while an older scene was applied
ReadyFails ==
  /\ renderer.foreground.failed
  /\ ReadyWith(NoPlayer, <<Do("error", renderer.foreground.id), Do("mix", 0)>>)

ReadySeeks ==
  LET p == renderer.foreground IN
  /\ Prepared(p) /\ p.seekRevision # p.soughtRevision
  /\ ReadyWith([p EXCEPT !.seeking = TRUE, !.rate = FALSE, !.running = FALSE],
               <<Do("mix", 0)>>)

\* Marked as reported before emitScene looks at the revision again.
ReadyPaused ==
  LET p == renderer.foreground IN
  /\ Prepared(p) /\ p.seekRevision = p.soughtRevision /\ p.paused
  /\ ReadyWith([p EXCEPT !.rate = FALSE, !.running = FALSE, !.reported = TRUE],
               Report(p, "paused") \o <<Do("mix", 0)>>)

ReadyAtEnd ==
  LET p == renderer.foreground IN
  /\ Prepared(p) /\ p.seekRevision = p.soughtRevision /\ ~p.paused
  /\ p.started /\ ~p.rate /\ p.atEnd
  /\ ReadyWith(p, <<Do("finish", 0)>>)

\* play is asked for; the clock may have been running before
ReadyPlays ==
  LET p == renderer.foreground IN
  /\ Prepared(p) /\ p.seekRevision = p.soughtRevision /\ ~p.paused
  /\ ~(p.started /\ ~p.rate /\ p.atEnd)
  /\ IF p.running
     THEN ReadyWith([p EXCEPT !.started = TRUE, !.reported = TRUE],
                    Report(p, "playing") \o <<Do("mix", 0)>>)
     ELSE ReadyWith([p EXCEPT !.rate = TRUE], <<>>)

\* finishSceneForeground: only the clock standing at the end of the present
\* transport intent retires the source
Finish ==
  LET p == renderer.foreground IN
  /\ Doing("finish") /\ Current
  /\ renderer' =
       IF p.id # 0 /\ ~p.paused /\ p.seekRevision = p.soughtRevision /\ p.atEnd
       THEN Continue([renderer EXCEPT !.foreground = NoPlayer, !.endedID = p.id],
                     <<Do("mix", 0), Do("ended", p.id)>>)
       ELSE Continue(renderer, <<>>)
  /\ UNCHANGED events

-----------------------------------------------------------------------------
(* Other tasks of the main queue: what the decoder, the timers and the      *)
(* operating system have to say.                                           *)

\* a task that starts with the foreground as p
Observe(p, steps) ==
  /\ Idle
  /\ renderer' = [renderer EXCEPT !.foreground = p, !.todo = steps]
  /\ UNCHANGED events

Loads ==
  /\ renderer.foreground.id # 0 /\ ~renderer.foreground.loaded
  /\ Observe([renderer.foreground EXCEPT !.loaded = TRUE], <<Do("ready", 0)>>)

Runs ==
  LET p == renderer.foreground IN
  /\ p.rate /\ ~p.running
  /\ Observe([p EXCEPT !.running = TRUE], <<Do("ready", 0)>>)

\* the position sought may be the end
Sought ==
  \E atEnd \in BOOLEAN :
    /\ renderer.foreground.seeking
    /\ Observe([renderer.foreground EXCEPT
                  !.seeking = FALSE, !.soughtRevision = renderer.foreground.seekRevision,
                  !.atEnd = atEnd],
               <<Do("ready", 0)>>)

ReachesEnd ==
  LET p == renderer.foreground IN
  /\ p.started /\ p.running
  /\ Observe([p EXCEPT !.atEnd = TRUE, !.rate = FALSE, !.running = FALSE],
             <<Do("finish", 0)>>)

\* the quarter-second timer; one such report in the queue is as good as many
Progresses ==
  /\ Idle /\ Current /\ renderer.foreground.running
  /\ \A i \in DOMAIN events : events[i].kind # "progress"
  /\ Say("progress", renderer.foreground.id)
  /\ UNCHANGED renderer

\* scenePlayerFailed: remembered if a newer scene is on its way
PlayerFails ==
  LET p == renderer.foreground IN
  /\ Idle /\ renderer.faults < MaxFaults
  /\ p.id # 0 /\ ~p.failed
  /\ renderer' =
       IF Current
       THEN [renderer EXCEPT !.foreground = NoPlayer, !.faults = @ + 1,
                             !.todo = <<Do("error", p.id), Do("mix", 0)>>]
       ELSE [renderer EXCEPT !.foreground.failed = TRUE, !.faults = @ + 1]
  /\ UNCHANGED events

BackgroundStarts ==
  /\ Idle /\ Current /\ renderer.stageEnabled
  /\ renderer.background.cue # NoCue /\ ~renderer.background.started
  /\ renderer' = [renderer EXCEPT !.background.started = TRUE, !.todo = <<Do("mix", 0)>>]
  /\ UNCHANGED events

\* a failure under an older scene is remembered, and happens here then
BackgroundFails ==
  /\ Idle /\ Current /\ renderer.faults < MaxFaults
  /\ renderer.background.cue # NoCue
  /\ renderer' = [renderer EXCEPT
                    !.background = NoBackground, !.faults = @ + 1,
                    !.todo = <<Do("background-error", renderer.applied.generation),
                               Do("mix", 0)>>]
  /\ UNCHANGED events

\* the retiring sound keeps the floor until the background is there to take it
TailStays ==
  /\ renderer.foreground.id = 0 /\ renderer.stageEnabled /\ BackgroundAudio
  /\ renderer.background.cue # NoCue /\ ~renderer.background.started

\* slip: the fade timer stops without completeSceneFade
FadesOutSilently ==
  /\ Idle /\ Current /\ renderer.tail /\ ~TailStays
  /\ renderer' = [renderer EXCEPT !.tail = FALSE]
  /\ UNCHANGED events

\* the last tick of the fade timer
FadesOut ==
  /\ Idle /\ Current /\ renderer.tail /\ ~TailStays
  /\ renderer' = [renderer EXCEPT !.tail = FALSE, !.todo = <<Do("mix", 0)>>]
  /\ UNCHANGED events

\* the retiring source comes to its own end first
TailEnds ==
  /\ Idle /\ renderer.tail
  /\ renderer' = [renderer EXCEPT !.tail = FALSE, !.todo = <<Do("mix", 0)>>]
  /\ UNCHANGED events

\* sceneCheckDevices: the display or the sound device in use has gone
LosesDevice ==
  /\ Idle /\ renderer.faults < MaxFaults
  /\ renderer.stageEnabled \/ renderer.foreground.loaded \/ renderer.tail
  /\ renderer' = [TearDown(renderer) EXCEPT
                    !.faults = @ + 1,
                    !.todo = <<Do("device-lost", renderer.applied.generation)>>]
  /\ UNCHANGED events

\* sceneEmergency; before the first scene only the event is new
PressEscape ==
  /\ Idle /\ renderer.faults < MaxFaults
  /\ renderer' = [TearDown(renderer) EXCEPT
                    !.faults = @ + 1,
                    !.escapedAt = IF renderer.applied.revision = 0 THEN @
                                  ELSE wanted.revision]
  /\ Queue([kind |-> "escape", generation |-> renderer.applied.generation,
            transportRevision |-> 0, sceneRevision |-> 0, stageEnabled |-> FALSE])

-----------------------------------------------------------------------------
Apply == ApplyNothing \/ ApplyHard \/ ApplyWithoutDisplay \/ ApplyScene

Step ==
  \/ StepOvertaken \/ Emit \/ Mix \/ Finish
  \/ ReadyTooEarly \/ ReadyFails \/ ReadySeeks \/ ReadyPaused \/ ReadyAtEnd \/ ReadyPlays

\* what the decoder does by itself, sooner or later
Decode == Loads \/ Runs \/ Sought \/ ReachesEnd \/ BackgroundStarts

Fade == FadesOut \/ TailEnds

Faults == PlayerFails \/ BackgroundFails \/ LosesDevice \/ PressEscape

Next == Apply \/ Step \/ Decode \/ Fade \/ Progresses \/ Faults

\* the poller hands the oldest event to the service
Deliver ==
  /\ events # <<>>
  /\ events' = Tail(events)
  /\ UNCHANGED renderer

\* nothing is under way between the service and the renderer
Quiescent ==
  Idle /\ events = <<>> /\ renderer.attempted = wanted.revision
=============================================================================
