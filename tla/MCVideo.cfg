SPECIFICATION FairSpec
CONSTANTS
  Strips = {1, 2}
  Marks = {"score", "block"}
  Pictures <- MCPictures
  NewPictures <- MCNewPictures
  FirstPicture <- MCFirstPicture
  Masks = {{1, 2}, {2}}
  SCORE_BOX = {1}
  STACKSIZE = 2
INVARIANTS
  TypeOK
  WholeFrames
  RefreshKept
PROPERTIES
  MutexReturned
  RefreshHappens
  ScoreShown
  TakesTurns
  ShowsFrames
