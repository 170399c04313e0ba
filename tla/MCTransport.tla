---------------------------- MODULE MCTransport ----------------------------
(***************************************************************************)
(* An instance of StageSystem.tla for TLC: the transport of one cue meets  *)
(* the whole renderer.  Either the cue is a sound that is played, with     *)
(* three inputs and two faults, or it is a moving background that comes    *)
(* and goes, with the inputs of the configuration and no fault.            *)
(***************************************************************************)
EXTENDS MCStageSystem

VARIABLE asSound

Sound == INSTANCE StageSystem
  WITH InitialKind <- AllAudio, InitialButtons <- {}, VideoBackgrounds <- {},
       MaxInputs <- 3, MaxFaults <- 2

\* a background that comes and goes while the stage is switched and all is stopped
Silencing == PressBackground \/ PressBackgroundAgain \/ BackgroundWorker \/ Stage \/ Stop

SoundNext ==
  \/ Sound!ByService(\/ Sound!PressForeground \/ Sound!PressForegroundAgain
                     \/ Sound!Seek \/ Sound!SetMasterVolume \/ Sound!Stop
                     \/ Sound!LoadWorker)
  \/ Sound!ByRenderer(Sound!Renderer!Next)

TransportNext ==
  /\ \/ asSound /\ SoundNext
     \/ ~asSound /\ (ByService(Silencing) \/ ByRenderer(Renderer!Next))
     \/ HearEvent
  /\ UNCHANGED asSound

TransportSpec ==
  /\ \/ asSound = TRUE /\ Sound!SystemInit
     \/ asSound = FALSE /\ SystemInit
  /\ [][TransportNext]_<<asSound, systemVars>>
=============================================================================
