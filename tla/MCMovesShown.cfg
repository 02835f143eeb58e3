SPECIFICATION ShownSpec
CONSTANTS
  Strips = {1, 2}
  Marks = {"score", "block"}
  Pictures <- MCPictures
  NewPictures <- MCNewPictures
  FirstPicture <- MCFirstPicture
  Masks = {{1, 2}}
  SCORE_BOX = {1}
  STACKSIZE = 3
INVARIANTS
  MovesShown
