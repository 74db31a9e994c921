SPECIFICATION FairSpec
CONSTANTS
  Worker = {w1, w2}
  Job = {j1}
  NoJob = none
  MaxLeases = 3
  MaxFaults = 1
  MaxStops = 1
INVARIANTS
  StoppedQuiet
  ObserveAccepted
PROPERTIES
  StopEnds
  JobsServed
CHECK_DEADLOCK FALSE
