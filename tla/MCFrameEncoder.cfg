SPECIFICATION FrameSpec
CONSTANTS
  TILE = 2
  COLS = 3
  ROWS = 2
  Colors = {0, 1}
  Black = 0
  Coords <- SomeCoords
  Sizes <- SomeSizes
  MaxDraws = 2
CHECK_DEADLOCK FALSE
INVARIANTS
  FrameTypeOK
  StalePixelIsDirty
  RunsAreMaximal
