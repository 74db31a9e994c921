SPECIFICATION FairSpec
CONSTANTS
  a1 = a1
  a2 = a2
  j1 = j1
  j2 = j2
  Attempt = {a1, a2}
  Job = {j1, j2}
  JobOf <- Pair
  Limit = 1
  MaxKey = 2
  MaxFaults = 1
INVARIANTS
  ControlsHeard
  QuietWhenIdle
PROPERTY ControlReaches
CHECK_DEADLOCK FALSE
