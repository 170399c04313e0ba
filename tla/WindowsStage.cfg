SPECIFICATION ScreenSpec
CONSTANTS
  a = a
  b = b
  Cues = {a, b}
  NoCue = NoCue
  ImagePaths = {}
  InitialShow = {a, b}
  InitialKind <- AudioAndVideo
  InitialButtons = {b}
  InitialDefault = NoCue
  MaxInputs = 2
  EventLimit = 3
  ShortMedia = FALSE
  FaultKinds = {"load", "session", "cleanup", "display", "gain", "device", "background", "escape"}
  MaxFaults = 1
INVARIANT HeardBeliefIsReal
PROPERTIES
  CoordinatorSpec
  StoppedIsSilent
  AnswersCome
CHECK_DEADLOCK FALSE
