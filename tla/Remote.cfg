SPECIFICATION RemoteSpec
CONSTANTS
  Gates = {g1, g2}
  NoGate = NoGate
  CloudflareAvailable = TRUE
  UndoMayFail = FALSE
  MaxOps = 3
  MaxAttempts = 3
  MaxBoots = 2
  r1 = r1
  r2 = r2
  Browsers = {b1, b2}
  MaxSessions = 2
  Lifetime = 1
  GuessLimit = 1
  MaxRequests = 3
  MaxTime = 2
INVARIANTS
  PairingIsSound
  OneWayIn
  ServeIsClean
PROPERTIES
  AnswersAreOwn
  StopHasALane
  TunnelGoesOn
  SwitchSettles
  ServeEnds
CHECK_DEADLOCK FALSE
