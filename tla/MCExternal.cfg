SPECIFICATION Spec
CONSTANTS
  Tx = {1}
  File = {1, 2}
  Deletes = {2}
  MaxAttempts = 2
  External = TRUE
INVARIANT RolledBackLeavesNothing
 
PROPERTY NoLateWrite
CHECK_DEADLOCK FALSE
