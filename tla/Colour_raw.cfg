CONSTANTS
  Gamma <- MCGamma
  MaxLevel <- MCMaxLevel
  Levels = {0, 255}
  Blends = {0, 255}
  TestLevels <- MCTestLevels
  BreathTimes = {0}
SPECIFICATION ColourSpec
INVARIANT WithinMaxBrightness
CHECK_DEADLOCK FALSE
