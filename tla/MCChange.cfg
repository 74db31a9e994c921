SPECIFICATION FairSpec
CONSTANTS
  Tx = {1}
  File = {1, 2}
  Deletes = {2}
  MaxAttempts = 3
  External = FALSE
INVARIANT BackupKept
PROPERTY Implements
 
CHECK_DEADLOCK FALSE
