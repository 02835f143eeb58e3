SPECIFICATION FairSpec
CONSTANTS
  NBUTTONS = 3
  PATIENT = {1}
INVARIANTS
  OneWindow
  StateTracksLevel
  Debounced
PROPERTIES
  PressesArrive
