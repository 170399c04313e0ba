-------------------------- MODULE MCWindowsSystem --------------------------
(***************************************************************************)
(* An instance of WindowsSystem.tla for TLC: transport, stage, background  *)
(* and emergency stop meet the whole renderer.                             *)
(*                                                                         *)
(* A behaviour meets either the faults the renderer reports for what plays *)
(* (heard) or every fault there is, those of applying a scene included:    *)
(* when the report of one of these is lost the service goes on believing   *)
(* what is not so.                                                         *)
(***************************************************************************)
EXTENDS WindowsSystem

CONSTANTS a, b

VARIABLE heard    \* only faults that are heard of occur

AudioAndVideo == [cue \in Cues |-> IF cue = a THEN "audio" ELSE "video"]

Calm == INSTANCE WindowsSystem WITH FaultKinds <- {"device", "background", "escape"}

\* play, pause, seek, volume and STOP
Playing == PressForeground \/ PressForegroundAgain \/ Seek \/ SetMasterVolume \/ Stop
\* with the stage, a background and the emergency stop
Screen ==
  \/ Playing \/ LoadWorker
  \/ PressBackground \/ BackgroundWorker
  \/ Stage \/ EmergencyStop

ScreenInit == SystemInit /\ heard \in BOOLEAN
ScreenNext ==
  /\ \/ ByService(Screen)
     \/ ~heard /\ ByRenderer(Renderer!Next)
     \/ heard /\ Calm!ByRenderer(Calm!Renderer!Next)
     \/ HearEvent
  /\ UNCHANGED heard

ScreenSpec ==
  /\ ScreenInit
  /\ [][ScreenNext]_<<heard, systemVars>>
  /\ SystemFairness

\* Once nothing is under way, what the service believes is so (BeliefIsReal), unless a
\* scene could not be applied (bridge_windows.cpp, applyScene and reportTransport).
HeardBeliefIsReal == heard => BeliefIsReal
=============================================================================
