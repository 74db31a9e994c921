SPECIFICATION FairSpec
CONSTANTS
  Schedule = {1}
  Host = {1}
  Specs <- Mixed
  Grace = 0
  Retain = 1
  MaxTimerDelay = 2
  MaxRetryDelay = 2
  MaxClock = 3
  MaxRevision = 2
  MaxEdits = 2
  MaxFaults = 1
  MaxStops = 1
  MaxJumps = 0
INVARIANT OutcomeTrue
 
 
PROPERTY PendingSettles
CHECK_DEADLOCK FALSE
