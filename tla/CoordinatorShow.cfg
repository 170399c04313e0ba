SPECIFICATION ShowSpec
CONSTANTS
  a = a
  b = b
  Cues = {a, b}
  NoCue = NoCue
  ImagePaths <- JustB
  InitialShow <- Both
  InitialKind <- SoundAndUnknown
  InitialButtons <- JustB
  InitialDefault = b
  MaxInputs = 3
INVARIANTS
  SelectionsExist
\* the inputs are bounded: every behaviour ends
CHECK_DEADLOCK FALSE
