SPECIFICATION FairSpec
CONSTANTS
  k1 = k1
  k2 = k2
  NULL = NULL
  Unset = Unset
  Conns = {k1, k2}
  MaxReplies = 2
  MINIMUM_BACKLIGHT = 1
  MAXIMUM_BACKLIGHT = 3
  STEP = 2
  Automatic = TRUE
  Levels = {2}
INVARIANTS
  OneScreenshot
  TouchpadRemembered
  BacklightVisible
PROPERTIES
  OwnEnd
  ScreenshotEnds
