CONSTANTS
  LineCap = 3
  HistoryCap = 2
  Letters = {"a", "b"}
  Shifted <- MCShifted
  Width = 7
  Height = 5
  PaneLeft = 2
  PaneRight = 4
  PaneTop = 1
  PaneBottom = 3
  Glyphs <- MCGlyphs
  Codes <- MCCodes
  Banner <- MCBanner
  Outputs <- MCOutputs
  MaxKeys = 7
  BootKeys = 3
SPECIFICATION Spec
INVARIANTS
  TypeOK
  LineIsShown
  PromptIsShown
PROPERTIES
  FrameStays
CHECK_DEADLOCK FALSE
