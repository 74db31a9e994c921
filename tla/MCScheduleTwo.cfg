SPECIFICATION Spec
CONSTANTS
  Schedule = {1}
  Host = {h1, h2}
  Specs <- Pair
  Grace = 0
  Retain = 1
  MaxTimerDelay = 2
  MaxRetryDelay = 1
  MaxClock = 1
  MaxRevision = 2
  MaxEdits = 1
  MaxFaults = 0
  MaxStops = 0
  MaxJumps = 1
INVARIANT PendingExact
PROPERTY SettledOnce
SYMMETRY Symmetry
CHECK_DEADLOCK FALSE
