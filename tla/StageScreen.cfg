SPECIFICATION ScreenFairSpec
CONSTANTS
  a = a
  b = b
  Cues = {a, b}
  NoCue = NoCue
  ImagePaths = {}
  InitialShow = {a, b}
  InitialKind <- AudioAndVideo
  InitialButtons = {b}
  InitialDefault = NoCue
  MaxInputs = 2
  VideoBackgrounds = {b}
  BackgroundAudio = TRUE
  EventLimit = 3
  MaxFaults = 1
PROPERTIES
  CoordinatorSpec
  AnswersCome
CHECK_DEADLOCK FALSE
