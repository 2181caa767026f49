SPECIFICATION Spec
CONSTANTS
  StackDepth = 50
  IntMax = 1000
  Summer <- MCSummer
  Texts <- MCTexts
  Starts <- MCStarts
  MaxFires = 2
CHECK_DEADLOCK FALSE
INVARIANT NextMatches
