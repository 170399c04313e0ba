SPECIFICATION VolumeSpec
CONSTANTS
  a = a
  b = b
  Cues = {a}
  NoCue = NoCue
  ImagePaths = {}
  InitialShow = {a}
  InitialKind <- AllAudio
  InitialButtons = {}
  InitialDefault = NoCue
  MaxInputs = 2
  VideoBackgrounds = {}
  BackgroundAudio = FALSE
  EventLimit = 8
  MaxFaults = 0
INVARIANTS
  ReportsAreHeard
CHECK_DEADLOCK FALSE
