SPECIFICATION DesktopSpec
CONSTANTS
  TaskLimit = 2
  PostFails = TRUE
  MaxInputs = 5
  MaxShows = 3
  SceneWindows = {w1, w2, w3}
  BackgroundWindows = {b1, b2}
  NoWindow = NoWindow
  Foregrounds = {"none", "video"}
  Images = {TRUE, FALSE}
  Backgrounds = {"none", "video"}
  VisualFades = {TRUE}
  AudioFades = {TRUE}
  Failures = TRUE
  MaxScenes = 3
  FadingScenes = 2
INVARIANTS
  DialogsAreSound
  WindowsAreShared
PROPERTIES
  DialogsEnd
  AdminEndsCleanly
  PictureSettles
CHECK_DEADLOCK FALSE
