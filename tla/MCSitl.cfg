SPECIFICATION FairSpec
CONSTANTS
  Button = {left, enter}
  STACKSIZE = 3
  MAX_QUEUE = 3
INVARIANTS
  StatesTrackKeys
  WindowCurrent
PROPERTIES
  QuitHonoured
