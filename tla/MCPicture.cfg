SPECIFICATION Spec
CONSTANTS
  GRID_ROWS = 5
  GRID_COLS = 13
  MAX_X = 5
PROPERTIES
  MovesCovered
