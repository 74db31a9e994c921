CONSTANTS
  Session = {"s1"}
  Turn = {1}
  SessionOf <- OneSession
  Interrupt = {}
  Steer = {}
  Tool = {1}
  Idempotent = {}
  Deferred = {}
  Approval = {}
  Parallel = {}
  MaxClaims = 2
  MaxSteps = 1
  ProviderMaxAttempts = 1
  ToolMaxAttempts = 1
SPECIFICATION Spec
CHECK_DEADLOCK FALSE
INVARIANTS
  DecisionsAvailable
