CONSTANTS
  Session = {"s1"}
  Turn = {1}
  SessionOf <- OneSession
  Interrupt = {}
  Steer = {"g1"}
  Tool = {1, 2, 3}
  Idempotent = {1, 2}
  Deferred = {1}
  Approval = {1}
  Parallel = {2, 3}
  MaxClaims = 3
  MaxSteps = 2
  ProviderMaxAttempts = 2
  ToolMaxAttempts = 2
SPECIFICATION Spec
CHECK_DEADLOCK FALSE
INVARIANTS
  SuspensionOwner
  ClaimNeverPoisoned
  ToolStartsBounded
  RunningToolOwned
PROPERTIES
  CancelSticks
  ProviderNotRepeated
