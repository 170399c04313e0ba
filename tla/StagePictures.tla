---------------------------- MODULE StagePictures ----------------------------
(***************************************************************************)
(* What the Windows renderer, platform/bridge_windows.cpp, shows: the      *)
(* players of a scene, the windows they draw into, and the fade from one   *)
(* picture to the next.                                                    *)
(*                                                                         *)
(* The window thread owns all of it, and every action is one of its        *)
(* handlers or one step of the 20 ms timer.  A scene enters as what is in  *)
(* it and what changed since the previous one; the events the renderer     *)
(* sends are the subject of WindowsScene.tla.                              *)
(*                                                                         *)
(* A fade takes as many frames as it likes: time shows only in what may    *)
(* come next.  Tokens are compared for equality and nothing else, so a     *)
(* player carries the answers instead: whether its token is still its      *)
(* role's, the one shown, the one a fade comes from.  Left out: gains,     *)
(* except that a tail sounds until its ramp ends; a sound device replaced  *)
(* under a source that plays; the pointer; repainting.                     *)
(***************************************************************************)
EXTENDS Naturals, FiniteSets

CONSTANTS
  SceneWindows,       \* sceneVideoWindows, for the foreground (three)
  BackgroundWindows,  \* backgroundWindows (two)
  NoWindow,
  Foregrounds, Images, Backgrounds,  \* what scenes may hold
  VisualFades, AudioFades,           \* whether pictures and sounds fade
  Failures,           \* whether decoders, displays and devices may fail
  MaxScenes           \* bound: scenes applied

PicturesAssumption ==
  /\ IsFiniteSet(SceneWindows) /\ Cardinality(SceneWindows) >= 3
  /\ IsFiniteSet(BackgroundWindows) /\ Cardinality(BackgroundWindows) >= 2
  /\ SceneWindows \cap BackgroundWindows = {} /\ NoWindow \notin SceneWindows \cup BackgroundWindows
  /\ Foregrounds \subseteq {"none", "audio", "video"}
  /\ Backgrounds \subseteq {"none", "image", "video"}
  /\ Images \subseteq BOOLEAN /\ VisualFades \subseteq BOOLEAN /\ AudioFades \subseteq BOOLEAN
  /\ Failures \in BOOLEAN /\ MaxScenes \in Nat

VARIABLE stage    \* what the window thread owns

Slots == {"foreground", "incoming", "background", "image", "retiring", "visualRetiring"}
Roles == {"foreground", "background", "image"}
Windows == SceneWindows \cup BackgroundWindows \cup {NoWindow}

\* Playback: as far as pictures go.  own, shown, from: its token is that of its role,
\* of the picture shown, of the one a fade comes from.  sounds: the ramp of a tail
\* has not ended.
Player == [present : BOOLEAN, role : Roles, window : Windows, video : BOOLEAN, playing : BOOLEAN,
           own : BOOLEAN, shown : BOOLEAN, from : BOOLEAN, sounds : BOOLEAN]
NoPlayer == [present |-> FALSE, role |-> "foreground", window |-> NoWindow, video |-> FALSE,
             playing |-> FALSE, own |-> FALSE, shown |-> FALSE, from |-> FALSE, sounds |-> FALSE]

\* Request, in the loader's queue or with the loader
Request == [due : BOOLEAN, window : Windows, video : BOOLEAN]
NoRequest == [due |-> FALSE, window |-> NoWindow, video |-> FALSE]

SceneOf == [foreground : Foregrounds \cup {"none"}, image : Images \cup {FALSE},
            background : Backgrounds \cup {"none"}, stage : BOOLEAN,
            visualFade : BOOLEAN, audioFade : BOOLEAN]
NoScene == [foreground |-> "none", image |-> FALSE, background |-> "none",
            stage |-> FALSE, visualFade |-> FALSE, audioFade |-> FALSE]

\* VisualTransition.  shown, from: those tokens are not zero; their players may be
\* gone.  source, mixed: those frames hold pixels.
Transition == [shown : BOOLEAN, from : BOOLEAN, active : BOOLEAN, frozen : BOOLEAN,
               source : BOOLEAN, mixed : BOOLEAN]
NoTransition == [shown |-> FALSE, from |-> FALSE, active |-> FALSE, frozen |-> FALSE,
                 source |-> FALSE, mixed |-> FALSE]

\* failed: the token that failed or completed is still the role's.  late: a newer
\* scene is stored.  lost: the renderer cleared everything by itself and the service
\* has not answered with a hard stop yet.
TypeOK ==
  /\ stage \in [scene : SceneOf, enabled : BOOLEAN, players : [Slots -> Player],
               request : [Roles -> Request], failed : [Roles -> BOOLEAN], visual : Transition, late : BOOLEAN, lost : BOOLEAN,
               scenes : 0 .. MaxScenes]
  /\ \A slot \in Slots : LET p == stage.players[slot] IN
       /\ p.present /\ slot \in Roles => p.role = slot
       /\ p.window \in {NoWindow} \cup
            IF p.role = "foreground" THEN SceneWindows ELSE BackgroundWindows

Init ==
  stage = [scene |-> NoScene, enabled |-> FALSE,
           players |-> [slot \in Slots |-> NoPlayer],
           request |-> [role \in Roles |-> NoRequest],
           failed |-> [role \in Roles |-> FALSE], visual |-> NoTransition,
           late |-> FALSE, lost |-> FALSE, scenes |-> 0]

-----------------------------------------------------------------------------
(* Tokens, players and windows.  The operators take and give the state of a *)
(* handler that is running, s.                                              *)

Present(s, slot) == s.players[slot].present

\* ++nextSceneToken: nothing that was loading for the role counts any more
NewToken(s, role) ==
  [s EXCEPT !.request[role] = NoRequest, !.failed[role] = FALSE,
            !.players = [slot \in Slots |->
               IF @[slot].role = role THEN [@[slot] EXCEPT !.own = FALSE] ELSE @[slot]]]

Halt(s, slot) == [s EXCEPT !.players[slot] = NoPlayer]

\* visualPlayback
Shown(s) == {slot \in Slots : s.players[slot].shown}
From(s) == {slot \in Slots : s.players[slot].from}

\* the tokens of a transition that has no picture to come from, or none at all
ComesFrom(s, slots) ==
  [s EXCEPT !.visual.from = slots # {},
            !.players = [slot \in Slots |-> [@[slot] EXCEPT !.from = slot \in slots]]]
ShowsOnly(s, slots) ==
  [s EXCEPT !.visual.shown = slots # {},
            !.players = [slot \in Slots |-> [@[slot] EXCEPT !.shown = slot \in slots]]]
Cancel(s) == [ShowsOnly(ComesFrom(s, {}), {}) EXCEPT !.visual = NoTransition]

\* p has a picture: pixels, or a video that plays
Shows(p) == IF p.video THEN p.playing ELSE p.present /\ p.role # "foreground"

\* clearScene(true)
Clear(s) ==
  LET fresh == NewToken(NewToken(NewToken(s, "foreground"), "background"), "image") IN
  [fresh EXCEPT !.visual = NoTransition, !.players = [slot \in Slots |-> NoPlayer],
                !.enabled = FALSE]

Owned(s, window) ==
  \E slot \in Slots \ {"image"} : s.players[slot].video /\ s.players[slot].window = window

Free(s, pool) == {window \in pool : ~Owned(s, window)}

\* slip: a hidden tail is never asked to give its window back
AvailableWithoutTail(s, pool) ==
  IF Free(s, pool) # {} THEN CHOOSE window \in Free(s, pool) : TRUE ELSE NoWindow

\* availableSceneWindow: a free one, else the one of the tail that is only heard
Available(s, pool) ==
  LET tail == s.players["retiring"] IN
  IF Free(s, pool) # {} THEN CHOOSE window \in Free(s, pool) : TRUE
  ELSE IF tail.video /\ tail.window \in pool THEN tail.window
  ELSE NoWindow

\* what asking for a window does to that tail
Reclaimed(s, pool) ==
  IF Free(s, pool) = {} /\ s.players["retiring"].window \in pool
  THEN Halt(s, "retiring") ELSE s

Queued(s, role, window, video) ==
  [s EXCEPT !.request[role] = [due |-> TRUE, window |-> window, video |-> video]]

-----------------------------------------------------------------------------
(* Leaving the scene. *)

\* retainedVisual: the picture of p is still needed
Retained(s, p) ==
  /\ s.enabled
  /\ \/ s.scene.visualFade /\ p.shown
     \/ s.visual.active /\ ~s.visual.frozen /\ p.from

\* captureVisual on the player there is in slots, if any; readable: its surface, if
\* it is a video
Captures(s, slots, readable) ==
  readable \/ \A slot \in slots : ~s.players[slot].video

\* freezeVisualTransition: go on from the pixels that are on the screen
Freeze(s, readable) ==
  IF s.visual.active /\ s.visual.mixed
  THEN [ComesFrom(s, {}) EXCEPT !.visual.source = TRUE, !.visual.frozen = TRUE]
  ELSE IF Shown(s) # {}
  THEN [s EXCEPT !.visual.source = TRUE,
                 !.visual.frozen = @ \/ Captures(s, Shown(s), readable)]
  ELSE s

\* releaseRetiringVisual: what is still heard moves to the hidden slot, unless that
\* is taken
Release(s, replace) ==
  LET leaves == s.players["visualRetiring"] IN
  IF ~leaves.sounds THEN Halt(s, "visualRetiring")
  ELSE IF Present(s, "retiring") /\ ~replace THEN s
  ELSE [s EXCEPT !.players["retiring"] = leaves, !.players["visualRetiring"] = NoPlayer]

MakeRoom(s, readable) ==
  IF Present(s, "visualRetiring") THEN Release(Freeze(s, readable), TRUE) ELSE s

\* retireWithFade of the player in slot; audible: it can be heard
Retire(s, slot, audible, readable) ==
  LET p == s.players[slot]
      tail == [p EXCEPT !.sounds = audible /\ p.playing /\ s.scene.audioFade]
  IN IF Retained(s, p)
     THEN [Halt(MakeRoom(s, readable), slot) EXCEPT !.players["visualRetiring"] = tail]
     ELSE IF tail.sounds THEN [Halt(s, slot) EXCEPT !.players["retiring"] = tail]
     ELSE Halt(s, slot)

-----------------------------------------------------------------------------
(* The picture of the scene. *)

WantsImage(s) == s.scene.image /\ ~s.failed["image"]
WantsVideo(s) == s.scene.foreground = "video" /\ ~s.failed["foreground"]
WantsBackground(s) == s.scene.background # "none" /\ ~s.failed["background"]

OfScene(s, role) == s.players[role].own /\ Shows(s.players[role])

\* requestedVisual: the highest layer that the scene has ...
Layer(s) ==
  IF s.scene.image /\ (WantsImage(s) \/ OfScene(s, "image")) THEN "image"
  ELSE IF s.scene.foreground = "video" /\ (WantsVideo(s) \/ OfScene(s, "foreground"))
  THEN "foreground"
  ELSE IF WantsBackground(s) THEN "background" ELSE "none"

\* ... and whether its player is still being prepared
Awaited(s) == Layer(s) # "none" /\ ~OfScene(s, Layer(s))

Requested(s) == {Layer(s)} \cap Slots

IsShown(s) == Requested(s) = Shown(s) /\ s.visual.shown = (Requested(s) # {})

\* finishVisualTransition
Finish(s) ==
  [ComesFrom(s, {}) EXCEPT !.visual = [NoTransition EXCEPT !.shown = s.visual.shown]]

\* slip: a picture that cannot be read back is waited for
FrameWhenReadable(s, readable) ==
  IF Captures(s, From(s) \cup Shown(s), readable)
  THEN {Finish(s), [s EXCEPT !.visual.source = TRUE, !.visual.mixed = TRUE]}
  ELSE {s}

\* the frame of a fade: mixed, or the last one; after 1.5 s without pixels the fade
\* is given up
Frame(s, readable) ==
  LET from == s.visual.from => From(s) # {}
      source == IF s.visual.frozen THEN s.visual.source
                ELSE from /\ Captures(s, From(s), readable)
  IN {Finish(s),
      [s EXCEPT !.visual.source = @ \/ from, !.visual.mixed = @ \/ source]}

Fading(s) == s.visual.active /\ s.enabled /\ ~s.late

\* tickVisualTransition: nothing within 33 ms of the last frame
Ticked(s, readable) == {s} \cup (IF Fading(s) THEN Frame(s, readable) ELSE {})

\* a fade that is interrupted goes on from what it shows; a paused source is frozen
\* before it leaves
Held(s, readable, paused) ==
  IF s.visual.active THEN Freeze(s, readable)
  ELSE [s EXCEPT !.visual.source = paused,
                 !.visual.frozen = paused /\ Captures(s, Shown(s), readable)]

Faded(s, readable, paused) ==
  LET held == Held(s, readable, paused)
      began == ShowsOnly(ComesFrom(held, IF held.visual.frozen THEN {} ELSE Shown(held)),
                         Requested(s))
      \* a picture that is gone is still one to come from
      whole == IF held.visual.frozen THEN began
               ELSE [began EXCEPT !.visual.from = held.visual.shown]
  IN IF s.scene.visualFade /\ (s.visual.shown \/ (s.visual.active /\ s.visual.mixed))
     THEN [whole EXCEPT !.visual.active = TRUE]
     ELSE Finish(whole)

\* sceneVisuals under the newest scene, as the states it may leave
Visuals(s, readable, paused) ==
  IF ~s.enabled THEN {Cancel(s)}
  ELSE IF Awaited(s) THEN {s}
  ELSE Ticked(IF IsShown(s) THEN s ELSE Faded(s, readable, paused),
              readable)

\* a handler that ends with sceneVisuals from s: a newer scene may have been stored,
\* and the source shown may be paused
Draws(s, readable) ==
  \/ /\ s.scenes < MaxScenes
     /\ stage' = Cancel([s EXCEPT !.late = TRUE])
  \/ \E paused \in {FALSE} \cup {s.players[slot].role = "foreground" : slot \in Shown(s)} :
       stage' \in Visuals(s, readable, paused)

\* whether what plays can be heard, and whether the surfaces of videos can be read
Audible == IF \E slot \in Slots : stage.players[slot].playing THEN BOOLEAN ELSE {FALSE}
Readable == IF \E slot \in Slots : stage.players[slot].video THEN BOOLEAN ELSE {TRUE}

-----------------------------------------------------------------------------
(* processSceneCommand. *)

\* a request that needs a window and has none is refused
Refused(s, role) == s.request[role].due /\ s.request[role].video /\ s.request[role].window = NoWindow

\* the foreground: kept, retired, or loading anew while the present one plays on
WithForeground(s, changed, audible, readable) ==
  LET fresh == NewToken(Halt(s, "incoming"), "foreground") IN
  IF ~changed THEN s
  ELSE IF s.scene.foreground = "none" THEN Retire(fresh, "foreground", audible, readable)
  ELSE Queued(Reclaimed(fresh, SceneWindows), "foreground",
              Available(fresh, SceneWindows), s.scene.foreground = "video")

WithImage(s, changed, readable) ==
  LET fresh == NewToken(Retire(s, "image", FALSE, readable), "image") IN
  IF ~changed THEN s
  ELSE IF s.scene.image THEN Queued(fresh, "image", NoWindow, FALSE) ELSE fresh

\* the background leaves with the stage and comes back with it
WithBackground(s, wasOn, changed, audible, readable) ==
  LET leaves == changed \/ ~s.enabled
      left == IF leaves THEN Retire(NewToken(s, "background"), "background", audible, readable)
              ELSE s
  IN IF s.enabled /\ s.scene.background # "none" /\ (changed \/ ~wasOn)
     THEN Queued(Reclaimed(NewToken(left, "background"), BackgroundWindows), "background",
                 Available(left, BackgroundWindows), s.scene.background = "video")
     ELSE left

\* silencePausedTails
Silenced(s, paused) ==
  [s EXCEPT
     !.players["retiring"] = IF paused /\ @.role = "foreground" THEN NoPlayer ELSE @,
     !.players["visualRetiring"].sounds = @ /\ ~(paused /\
        s.players["visualRetiring"].role = "foreground")]

\* the scene that was stored is the one applied now
Counted(s) == [s EXCEPT !.late = FALSE, !.scenes = @ + 1]

Entered(scene, changed, audible, readable, paused) ==
  LET on == [Counted(stage) EXCEPT !.scene = scene, !.enabled = scene.stage]
      one == WithForeground(on, "foreground" \in changed, audible, readable)
      two == WithImage(one, "image" \in changed, readable)
      three == WithBackground(two, stage.scene.stage, "background" \in changed,
                              audible, readable)
  IN Silenced(three, paused)

\* what has another kind than before has changed
Changes(scene) ==
  {changed \in SUBSET {"foreground", "image", "background"} :
     /\ scene.foreground # stage.scene.foreground => "foreground" \in changed
     /\ scene.image # stage.scene.image => "image" \in changed
     /\ scene.background # stage.scene.background => "background" \in changed
     /\ "foreground" \in changed => {scene.foreground, stage.scene.foreground} # {"none"}
     /\ "image" \in changed => TRUE \in {scene.image, stage.scene.image}
     /\ "background" \in changed => {scene.background, stage.scene.background} # {"none"}}

Scenes ==
  [foreground : Foregrounds, image : Images, background : Backgrounds, stage : BOOLEAN,
   visualFade : VisualFades, audioFade : AudioFades]

\* The scene is applied, and no request in it is refused: the property WindowsSuffice
\* shows that for want of a window none is.
ApplyScene ==
  \E scene \in Scenes : \E changed \in Changes(scene) :
  \E audible \in Audible, readable \in Readable :
  \E paused \in IF scene.foreground = "none" THEN {FALSE} ELSE BOOLEAN :
    /\ stage.scenes < MaxScenes
    /\ Draws(Entered(scene, changed, audible, readable, paused), readable)

\* a hard stop, whatever was going on
ApplyHard ==
  \E scene \in Scenes :
    /\ stage.scenes < MaxScenes
    /\ ~scene.stage /\ scene.foreground = "none" /\ ~scene.image
    /\ stage' = [Clear(Counted(stage)) EXCEPT !.scene = scene, !.lost = FALSE]

\* The display is gone, or eight retired sessions wait for the cleaner.
ApplyAndFail ==
  \E scene \in Scenes :
    /\ stage.scenes < MaxScenes
    /\ Failures /\ scene.stage /\ ~stage.enabled
    /\ stage' = [Clear(Counted(stage)) EXCEPT !.scene = scene, !.lost = TRUE]

-----------------------------------------------------------------------------
(* readyMessage. *)

\* a player for the request of the role; a video plays once its session has started
PlayerFor(s, role) ==
  [NoPlayer EXCEPT !.present = TRUE, !.own = TRUE, !.role = role,
                   !.window = s.request[role].window, !.video = s.request[role].video]

Served(s, role) == [s EXCEPT !.request[role] = NoRequest]

Timely(role) == ~stage.late /\ stage.request[role].due

ReadyForeground ==
  \E readable \in Readable :
    /\ Timely("foreground")
    /\ Draws([Served(stage, "foreground")
               EXCEPT !.players["incoming"] = PlayerFor(stage, "foreground")], readable)

\* a picture takes the place of the one its layer had
ReadyPicture(role) ==
  \E audible \in Audible, readable \in Readable :
    /\ Timely(role)
    /\ Draws([Served(Retire(stage, role, audible, readable), role)
               EXCEPT !.players[role] = PlayerFor(stage, role)], readable)

\* the layer below is shown instead
ReadyPictureFails(role) ==
  \E readable \in Readable :
    /\ Failures /\ Timely(role)
    /\ Draws([Served(stage, role) EXCEPT !.failed[role] = TRUE], readable)

-----------------------------------------------------------------------------
(* tickScene. *)

\* the incoming player starts: what it replaces leaves with a fade
IncomingPlays ==
  \E audible \in Audible, readable \in Readable :
    LET left == Retire(stage, "foreground", audible, readable) IN
    /\ ~stage.late /\ Present(stage, "incoming")
    /\ Draws([Halt(left, "incoming") EXCEPT
                !.players["foreground"] = [stage.players["incoming"] EXCEPT !.playing = TRUE]],
             readable)

\* the source is over, or one on its way out has failed
ForegroundEnds ==
  \E audible \in Audible, readable \in Readable :
    LET p == stage.players["foreground"]
        left == Retire(stage, "foreground", audible, readable)
    IN /\ ~stage.late /\ Present(stage, "foreground")
       /\ Draws([left EXCEPT !.failed["foreground"] = @ \/ p.own], readable)

BackgroundPlays ==
  \E readable \in Readable :
    /\ ~stage.late
    /\ stage.players["background"].video /\ ~stage.players["background"].playing
    /\ Draws([stage EXCEPT !.players["background"].playing = TRUE], readable)

BackgroundFails ==
  \E audible \in Audible, readable \in Readable :
    LET p == stage.players["background"] IN
    /\ Failures /\ ~stage.late /\ p.video
    /\ Draws([Retire(stage, "background", audible, readable)
               EXCEPT !.failed["background"] = @ \/ p.own], readable)

\* pumpRetiringPlayback: what is left of a picture that failed on its way out is its
\* last frame
TailFails ==
  \E slot \in {"retiring", "visualRetiring"} :
    LET p == stage.players[slot]
        still == stage.visual.active /\ p.from /\ stage.visual.source
    IN /\ Failures /\ ~stage.late /\ p.video /\ (Retained(stage, p) \/ p.sounds)
       /\ stage' = [IF still THEN ComesFrom(stage, {}) ELSE stage
                    EXCEPT !.players[slot].sounds = FALSE, !.visual.frozen = @ \/ still]

\* advanceRamp comes to the end of the tail's ramp
RampEnds ==
  \E slot \in {"retiring", "visualRetiring"} :
    /\ ~stage.late /\ stage.players[slot].sounds
    /\ stage' = [stage EXCEPT !.players[slot].sounds = FALSE]

FadeGoesOn ==
  \E readable \in Readable :
    /\ Fading(stage) /\ stage' \in Frame(stage, readable) \ {Finish(stage)}

\* a fade lasts no longer than its time, or 1.5 s without pixels
FadeEnds(readable) ==
  /\ Fading(stage) /\ Finish(stage) \in Frame(stage, readable)
  /\ stage' = Finish(stage)

TailLeaves ==
  /\ ~stage.late /\ Present(stage, "retiring") /\ ~stage.players["retiring"].sounds
  /\ stage' = Halt(stage, "retiring")

PictureLeaves ==
  /\ ~stage.late /\ Present(stage, "visualRetiring")
  /\ ~Retained(stage, stage.players["visualRetiring"])
  /\ stage' = Release(stage, FALSE)

\* A source that cannot be prepared or played, a gain that cannot be set, a device
\* that is gone, Escape, a closed window: everything is cleared.
LosesAll ==
  /\ Failures
  /\ stage' = [Clear(stage) EXCEPT !.lost = TRUE]

-----------------------------------------------------------------------------
Apply == ApplyScene \/ ApplyHard \/ ApplyAndFail

Ready ==
  \/ ReadyForeground
  \/ ReadyPicture("background") \/ ReadyPictureFails("background")
  \/ ReadyPicture("image") \/ ReadyPictureFails("image")

Tick ==
  \/ IncomingPlays \/ ForegroundEnds \/ BackgroundPlays \/ BackgroundFails \/ TailFails
  \/ RampEnds \/ FadeGoesOn \/ (\E readable \in Readable : FadeEnds(readable)) \/ TailLeaves \/ PictureLeaves

Next == Apply \/ Ready \/ Tick \/ LosesAll

vars == stage

\* A stored scene is applied, the loader answers, sessions start, ramps and fades take their time, the timer
\* ticks.  Nobody has to send a scene, nothing has to fail or to end, and the surface of
\* a video need never be readable.
Fairness ==
  /\ WF_vars(stage.late /\ Apply)
  /\ WF_vars(ReadyForeground)
  /\ WF_vars(ReadyPicture("background") \/ ReadyPictureFails("background"))
  /\ WF_vars(ReadyPicture("image") \/ ReadyPictureFails("image"))
  /\ WF_vars(IncomingPlays) /\ WF_vars(BackgroundPlays)
  /\ WF_vars(RampEnds) /\ WF_vars(FadeEnds(FALSE))
  /\ WF_vars(TailLeaves) /\ WF_vars(PictureLeaves)

Spec == Init /\ [][Next]_vars /\ Fairness

-----------------------------------------------------------------------------
(* Properties. *)

\* No two videos draw into one window, and no window is promised to a source while
\* another one draws into it: availableSceneWindow looks at the players only.
WindowsAreOwn ==
  /\ \A one, two \in Slots \ {"image"} :
       one # two /\ stage.players[one].video /\ stage.players[two].video
         => stage.players[one].window # stage.players[two].window
  /\ \A role \in Roles :
       stage.request[role].due /\ stage.request[role].video
         => ~Owned(stage, stage.request[role].window)

\* Three windows for sources and two for backgrounds are enough for what plays, what
\* is on its way and two tails: no cue is refused for want of a window.
WindowsSuffice ==
  \A role \in Roles : ~Refused(stage, role)

\* the picture of the scene is on the stage, and of earlier ones nothing is left
Settled ==
  /\ ~stage.visual.active /\ ~Present(stage, "retiring")
  /\ ~Present(stage, "visualRetiring") /\ ~Present(stage, "incoming")
  /\ stage.enabled => ~Awaited(stage) /\ IsShown(stage)

\* "never leave a frozen overlay covering an otherwise healthy video"
\* (bridge_windows.cpp:754): if no more scenes come, the stage settles on the picture
\* of the last one, unless the renderer has cleared it and waits for the service.
PictureSettles ==
  <>[][~Apply]_vars => <>[](Settled \/ stage.lost)
=============================================================================
