CONSTANTS
  Session = {"s1"}
  Turn = {1}
  SessionOf <- OneSession
  Interrupt = {}
  Steer = {"g1"}
  Tool = {}
  Idempotent = {}
  Deferred = {}
  Approval = {}
  Parallel = {}
  MaxClaims = 2
  MaxSteps = 2
  ProviderMaxAttempts = 2
  ToolMaxAttempts = 2
  MaxRequests = 2
  MaxFaults = 1
SPECIFICATION FairRunnerSpec
CHECK_DEADLOCK FALSE
INVARIANTS
  SafeResume
PROPERTIES
  RunnerEnds
  TurnsEnd
