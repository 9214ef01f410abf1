CONSTANTS
  XRES = 2
  YRES = 2
  Colors = {0, 65535}
  Rects <- InnerRects
  Lines <- SomeLines
  Figures <- SomeFigures
  MaxPower = 2
  MaxPolls = 2
  TypedStream = FALSE
  Restarts = TRUE
  ResetWorks = TRUE
SPECIFICATION FairSpec
INVARIANTS
  PictureExact
  PowerExact
PROPERTY
  CallsReturn
