SPECIFICATION FairSpec
CONSTANTS
  Jobs = {1, 2, 3}
  Workers = {w1, w2}
  Operators = {}
  Ops = {}
  NSteps = 2
  JobTypes <- MCJobTypes
  TypeOf <- MCTypeOf
  TypeLimit <- MCTypeLimit
  GpuTypes <- MCGpuTypes
  GpuLimit = 1
  Policy <- MCPolicy
  MaxAttempts = 1
  AutoCap = 2
  AuthCap = 1
  StableIds = {}
  InputJobs = {}
  HeartbeatReliable = TRUE
  Faults = {"crash"}
  FaultBound = 1
  AttemptBound = 4
  NoOne = NoOne
INVARIANTS
  TypeOK
  ExclusiveExecution
  GpuMachineBudget
  AttemptsWithinBudget
PROPERTIES
  ImplementsLifecycle
  EveryJobSettles
