CONSTANTS
  Session = {"s1"}
  Turn = {1}
  SessionOf <- OneSession
  Interrupt = {"i1"}
  Steer = {}
  Tool = {1, 2}
  Idempotent = {2}
  Deferred = {2}
  Approval = {2}
  Parallel = {}
  MaxClaims = 2
  MaxSteps = 2
  ProviderMaxAttempts = 1
  ToolMaxAttempts = 2
  MaxRequests = 1
  MaxFaults = 1
SPECIFICATION RunnerSpec
CHECK_DEADLOCK FALSE
INVARIANTS
  NotAbandoned
  StepFollowsResults
  
  AbortHasControl
  EndsAsAsked
  
