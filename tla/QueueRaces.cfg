SPECIFICATION Spec
CONSTANTS
  Jobs = {1, 2}
  Workers = {w1, w2}
  Operators = {o1}
  Ops = {"retry", "cancel"}
  NSteps = 2
  JobTypes <- MCJobTypes
  TypeOf <- MCTypeOf
  TypeLimit <- MCTypeLimit
  GpuTypes <- MCGpuTypes
  GpuLimit = 1
  Policy <- MCPolicy
  MaxAttempts = 1
  AutoCap = 2
  AuthCap = 1
  StableIds = {}
  InputJobs = {}
  HeartbeatReliable = TRUE
  Faults = {}
  FaultBound = 0
  AttemptBound = 2
  NoOne = NoOne
INVARIANTS
  SlotBudget
  CompletedIsDone
