SPECIFICATION SystemSpec
CONSTANTS
  a = a
  b = b
  Cues = {a, b}
  NoCue = NoCue
  ImagePaths = {}
  InitialShow = {a}
  InitialKind <- AudioAndVideo
  InitialButtons = {}
  InitialDefault = NoCue
  MaxInputs = 2
  VideoBackgrounds = {b}
  BackgroundAudio = TRUE
  EventLimit = 2
  MaxFaults = 1
INVARIANT SystemInv
CHECK_DEADLOCK FALSE
