SPECIFICATION KeptCueSpec
CONSTANTS
  a = a
  b = b
  Cues = {a, b}
  NoCue = NoCue
  ImagePaths = {}
  InitialShow <- Both
  InitialKind <- SoundAndUnknown
  InitialButtons = {}
  InitialDefault = NoCue
  MaxInputs = 3
INVARIANTS
  ActiveCueExists
\* the inputs are bounded: every behaviour ends
CHECK_DEADLOCK FALSE
