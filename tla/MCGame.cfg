SPECIFICATION FairSpec
CONSTANTS
  GRID_ROWS = 5
  GRID_COLS = 4
  MAX_X = 5
  MAX_SCORE = 2
INVARIANTS
  ColumnsFit
  Stacked
  ShiftIsRemoval
  LocksOnContact
PROPERTIES
  EscapesOnlyFacingWest
  BlocksLand
  FullRowsGo
