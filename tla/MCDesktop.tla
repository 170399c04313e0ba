------------------------------ MODULE MCDesktop ------------------------------
(***************************************************************************)
(* Small instances of the parts of the native side on Windows that share   *)
(* no state: the user-interface thread with its dialogs, the Admin window, *)
(* and the pictures of the stage.                                          *)
(*                                                                         *)
(* As in MCHost a behaviour exercises one part and the others rest.  The   *)
(* pictures run twice: once with moving pictures only and one scene more,  *)
(* for the windows they share, once with images, for the fades.            *)
(***************************************************************************)
EXTENDS Naturals

CONSTANTS TaskLimit, PostFails, MaxInputs,    \* DesktopShell
          MaxShows,                           \* AdminWindow
          SceneWindows, BackgroundWindows, NoWindow,  \* StagePictures
          Foregrounds, Images, Backgrounds, VisualFades, AudioFades, Failures,
          MaxScenes, FadingScenes  \* bounds: scenes of the two parts

VARIABLES
  part,
  shell, start, channel, controller, main, inputs,
  admin, callback, browser, profile, shows,
  stage

shellVars == <<shell, start, channel, controller, main, inputs>>
adminVars == <<admin, callback, browser, profile, shows>>

Shell == INSTANCE DesktopShell
Admin == INSTANCE AdminWindow
Pictures == INSTANCE StagePictures

ASSUME DesktopAssumption ==
  Shell!ShellAssumption /\ Admin!ShowsAssumption /\ Pictures!PicturesAssumption

DesktopInit ==
  /\ part \in {"shell", "admin", "moving", "fading"}
  /\ Shell!Init /\ Admin!Init /\ Pictures!Init
  /\ part # "shell" => shell.wakes = 1

\* The scenes of the two parts: moving pictures only, or images and few scenes.
MovingScenes == ~stage'.scene.image
FewScenes ==
  /\ stage'.scene.background = "none"
  /\ stage'.scenes + (IF stage'.late THEN 1 ELSE 0) <= FadingScenes

DesktopNext ==
  /\ \/ part = "shell" /\ Shell!Next /\ UNCHANGED <<adminVars, stage>>
     \/ part = "admin" /\ Admin!Next /\ UNCHANGED <<shellVars, stage>>
     \/ part = "moving" /\ Pictures!Next /\ MovingScenes /\ UNCHANGED <<shellVars, adminVars>>
     \/ part = "fading" /\ Pictures!Next /\ FewScenes /\ UNCHANGED <<shellVars, adminVars>>
  /\ UNCHANGED part

desktopVars == <<part, shellVars, adminVars, stage>>

\* The fairness of the shell and of the fades, as their modules state it; what a
\* part could do in its initial state is asked of it only when it is the one that runs.
ShellFairness ==
  /\ WF_shellVars(part = "shell" /\ Shell!Drain)
  /\ WF_shellVars(Shell!DialogIsCreated) /\ WF_shellVars(Shell!DialogAppears)
  /\ WF_shellVars(Shell!DialogObeys) /\ WF_shellVars(Shell!HearShutdown)
  /\ WF_shellVars(Shell!TimerTicks) /\ WF_shellVars(Shell!ThreadEnds)
  /\ WF_shellVars(Shell!Enqueue \/ Shell!Wake \/ Shell!WakeFails)
  /\ WF_shellVars(Shell!TakeResult) /\ WF_shellVars(Shell!Complete)
  /\ WF_shellVars(Shell!WorkEnds) /\ WF_shellVars(Shell!HearQuit)
  /\ WF_shellVars(Shell!PostShutdown)

Fades == part = "fading"
FadingFairness ==
  /\ WF_stage(Fades /\ stage.late /\ Pictures!Apply)
  /\ WF_stage(Fades /\ Pictures!ReadyForeground)
  /\ \A role \in {"background", "image"} :
       WF_stage(Fades /\ (Pictures!ReadyPicture(role) \/ Pictures!ReadyPictureFails(role)))
  /\ WF_stage(Fades /\ Pictures!IncomingPlays) /\ WF_stage(Fades /\ Pictures!BackgroundPlays)
  /\ WF_stage(Fades /\ Pictures!RampEnds) /\ WF_stage(Fades /\ Pictures!FadeEnds(FALSE))
  /\ WF_stage(Fades /\ Pictures!TailLeaves) /\ WF_stage(Fades /\ Pictures!PictureLeaves)

DesktopSpec == DesktopInit /\ [][DesktopNext]_desktopVars /\ ShellFairness /\ FadingFairness

-----------------------------------------------------------------------------
(* The properties of the parts, each stated in its module.                 *)

\* DesktopShell: there is never a second dialog over the first, and a request for a
\* playlist dialog is queued, on the screen or answered; queued means with a message to
\* come, unless the one for the next task was refused (desktop_windows.cpp,
\* playlistfile/controller.go).
DialogsAreSound == Shell!TypeOK /\ Shell!OneDialog /\ Shell!RequestIsSomewhere
\* DesktopShell: a shutdown that was announced ends the thread, whatever dialog is
\* open, and whoever asks for a playlist dialog sees it or gets an answer, unless the
\* message for the next task was refused.
DialogsEnd == part = "shell" => Shell!ShutdownCompletes /\ Shell!RequestIsShownOrAnswered

\* AdminWindow: no page comes to life once the host stops, the profile is removed only
\* when nobody uses it, and a failure before that leaves Reload possible (uiMain,
\* createWebView).
AdminEndsCleanly ==
  [](Admin!ProfileIsUnused /\ Admin!ReloadIsPossible) /\ Admin!NothingStartsLate

\* StagePictures: no two videos draw into one window, and no cue is refused for want
\* of one (availableSceneWindow).
WindowsAreShared == Pictures!TypeOK /\ Pictures!WindowsAreOwn /\ Pictures!WindowsSuffice
\* StagePictures: the stage settles on the picture of the last scene.
PictureSettles ==
  Fades => (<>[][~(Fades /\ Pictures!Apply)]_stage => <>[](Pictures!Settled \/ stage.lost))
=============================================================================
