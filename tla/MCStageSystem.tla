--------------------------- MODULE MCStageSystem ---------------------------
(***************************************************************************)
(* Instances of StageSystem.tla for TLC.  Each specification lets one      *)
(* group of the service's operations meet the whole renderer.              *)
(***************************************************************************)
EXTENDS StageSystem

CONSTANTS a, b

AllAudio == [cue \in Cues |-> "audio"]
AllVideo == [cue \in Cues |-> "video"]
AudioAndVideo == [cue \in Cues |-> IF cue = a THEN "audio" ELSE "video"]

Together(operations) ==
  \/ ByService(operations)
  \/ ByRenderer(Renderer!Next)
  \/ HearEvent

\* play, pause, seek, volume and STOP
Playing == PressForeground \/ PressForegroundAgain \/ Seek \/ SetMasterVolume \/ Stop

\* with the stage, a moving background and the emergency stop
ScreenSpec ==
  SystemInit /\ [][Together(\/ Playing \/ LoadWorker
                           \/ PressBackground \/ BackgroundWorker
                           \/ Stage \/ EmergencyStop)]_systemVars
ScreenFairSpec == ScreenSpec /\ SystemFairness

\* PLAY and volume only: the shortest way to an acknowledgement that is lost
VolumeSpec ==
  SystemInit /\ [][Together(PressForeground \/ SetMasterVolume \/ LoadWorker)]_systemVars
=============================================================================
