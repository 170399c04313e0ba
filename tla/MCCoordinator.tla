--------------------------- MODULE MCCoordinator ---------------------------
(***************************************************************************)
(* Instances of Coordinator.tla for TLC.  Each specification lets one      *)
(* group of operations interleave with the preparation workers; the whole  *)
(* Next is explored with fewer inputs.                                     *)
(***************************************************************************)
EXTENDS Coordinator

CONSTANTS a, b

\* a is known to be sound; b has never been inspected
SoundAndUnknown == [cue \in Cues |-> IF cue = a THEN "audio" ELSE "unknown"]
Both == {a, b}
JustB == {b}

\* everything a controller can ask, and everything the renderer can report
PlaybackSpec == Init /\ [][Commands \/ Preparation \/ Native]_vars

\* stage switching and the update reservation against PLAY and STOP
Presses == PressImage \/ PressImageAgain \/ PressForeground
StageSpec ==
  Init /\ [][Presses \/ Preparation \/ Native \/ EmergencyStop \/ Stage \/ Update]_vars

\* edits of the saved show against PLAY, STOP and Quit
ShowSpec ==
  Init /\ [][\/ Presses \/ PressBackground \/ PressBackgroundAgain \/ Stop \/ Close
             \/ Preparation \/ Show]_vars

\* PLAY and playlist edits only: the shortest way to a cue that left the show
KeptCueSpec ==
  Init /\ [][\/ PressForeground \/ TakeLoad \/ FinishLoad
             \/ BeginPlaylist \/ PreparePlaylist \/ CommitPlaylist]_vars
=============================================================================
