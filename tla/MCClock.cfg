SPECIFICATION Spec
CONSTANTS
  TICKS_PER_MS = 2
  WRAP = 256
  SECOND = 100
  PERIOD = 100
  WORD = 4000
  MAX_PASS = 5
  MAX_NOW = 1200
INVARIANTS
  NotOverdue
  SitlOverdueBound
PROPERTIES
  EarlyOnlyAtWrap
