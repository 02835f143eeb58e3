SPECIFICATION Spec
CONSTANTS
  GRID_ROWS = 30
  GRID_COLS = 31
  SHIFT_CLEAR = FALSE
  MAX_ROWS = 3
  Places <- MCPlaces
  Heaps <- MCHeaps
  MAX_SCORE = 280
INVARIANTS
  TextRefreshed
  DigitReadable
