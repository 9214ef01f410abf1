CONSTANTS
  XRES = 2
  YRES = 2
  Colors = {0, 65535}
  Rects <- WideRects
  Lines <- SomeLines
  Figures <- SomeFigures
  MaxPower = 1
  MaxPolls = 2
  TypedStream = FALSE
  Restarts = TRUE
  ResetWorks = FALSE
SPECIFICATION Spec
INVARIANTS
  PictureExact
