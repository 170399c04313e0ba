SPECIFICATION PlaybackSpec
CONSTANTS
  a = a
  b = b
  Cues = {a, b}
  NoCue = NoCue
  ImagePaths = {}
  InitialShow <- Both
  InitialKind <- SoundAndUnknown
  InitialButtons = {}
  InitialDefault = NoCue
  MaxInputs = 4
INVARIANTS
  WorkMatchesState
  NeverWedged
  AcksAwaited
  SceneInSync
PROPERTY StopHolds
\* the inputs are bounded: every behaviour ends
CHECK_DEADLOCK FALSE
