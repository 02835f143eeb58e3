SPECIFICATION Spec
CONSTANTS
  main = main
  video = video
  blink = blink
  high = high
  Idle = idle
  None = None
  Threads = {main, video, blink, high, idle}
  First = main
  Mutexes = {1, 2}
  vbuf = 2
  RealPrio <- MCRealPrio
  Uses <- MCUses
  NapsWith <- MCNapsWith
  Suspends = {video, high}
INVARIANTS
  ListsExact
  HighestRuns
  PriorityExact
  VideoYields
PROPERTIES
  HandedToHighest
  MessageKept
  TakesTurns
