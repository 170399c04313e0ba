SPECIFICATION HostSpec
CONSTANTS
  MaxSaves = 4
  MaxCrashes = 3
  AutoInstall = TRUE
  MaxChecks = 2
  MaxPresses = 2
  Kind = "bundle"
  Ids = {c1, c2}
  Sources = {p, q}
  None = None
  MaxEdits = 2
  MaxAsked = 2
  Identities = {i1, i2, i3, i4}
  LogLimit = 2
  MaxTaken = 5
  Streams = {a, b, c}
  StreamPlaces = 2
  MaxChanges = 1
  Connections = {k1, k2, k3}
  SlotLimit = 2
INVARIANTS
  StoreInv
  ReservationIsOwned
  ActsOnce
PROPERTIES
  StoreIsDurable
  HelperIsSafe
  UpdateSettles
  ResultsAreTrue
  StreamsKeepUp
  SlotsComeBack
CHECK_DEADLOCK FALSE
