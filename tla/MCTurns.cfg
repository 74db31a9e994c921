CONSTANTS
  Session = {"s1"}
  Turn = {1, 2}
  SessionOf <- OneSession
  Interrupt = {"i1"}
  Steer = {"g1"}
  Tool = {}
  Idempotent = {}
  Deferred = {}
  Approval = {}
  Parallel = {}
  MaxClaims = 2
  MaxSteps = 1
  ProviderMaxAttempts = 1
  ToolMaxAttempts = 1
SPECIFICATION Spec
CHECK_DEADLOCK FALSE
INVARIANTS
  TypeOK
  ExactOwner
  
  
PROPERTIES
  EndedForGood
  StartsInOrder
