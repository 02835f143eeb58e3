SPECIFICATION Spec
CONSTANTS
  Sleepers = {s1, s2}
  Buttons = {b1}
  Delays = {3, 5}
  DEBOUNCE = 4
  WRAP = 10
  TIMEDELTA = 2
  VT_MAX_DELAY = 8
  SLACK = 2
INVARIANTS
  DeltasExact
  AlarmSwitched
PROPERTIES
  KeepsDeadlines
