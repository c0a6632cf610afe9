SPECIFICATION LcdSpec
CONSTANTS
  FB_XMAX = 800
  FB_YMAX = 480
  PANEL_X = 480
  PANEL_Y = 272
  Fonts <- MCFonts
  Xs <- MCXs
  Ys <- MCYs
  PUTS = 64
  MaxText = 8
CHECK_DEADLOCK FALSE
INVARIANTS
  InFrame
  AllShown
