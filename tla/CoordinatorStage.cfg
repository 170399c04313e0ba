SPECIFICATION StageSpec
CONSTANTS
  a = a
  b = b
  Cues = {a, b}
  NoCue = NoCue
  ImagePaths <- JustB
  InitialShow <- Both
  InitialKind <- SoundAndUnknown
  InitialButtons = {}
  InitialDefault = NoCue
  MaxInputs = 4
INVARIANTS
  ReservedIdle
  OffIsRespected
PROPERTY ChangesAreNotified
\* the inputs are bounded: every behaviour ends
CHECK_DEADLOCK FALSE
