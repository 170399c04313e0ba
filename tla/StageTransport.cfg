SPECIFICATION TransportSpec
CONSTANTS
  a = a
  b = b
  Cues = {a}
  NoCue = NoCue
  ImagePaths = {}
  InitialShow = {a}
  InitialKind <- AllVideo
  InitialButtons = {a}
  InitialDefault = NoCue
  MaxInputs = 4
  VideoBackgrounds = {a}
  BackgroundAudio = TRUE
  EventLimit = 4
  MaxFaults = 0
INVARIANTS
  BeliefIsReal
PROPERTIES
  StoppedIsSilent
CHECK_DEADLOCK FALSE
