SPECIFICATION Spec
CONSTANTS
  DISP_COLS = 6
  DISP_ROWS = 8
  BYTE = 4
  BUFSIZE = 8
  BLOCK_COLS <- MCBlockCols
  SCORE_SIZE <- MCScoreSize
INVARIANTS
  BoxSent
  NeverMisplaced
