SPECIFICATION FairSpec
CONSTANTS
  Jobs = {1}
  Workers = {w1}
  Operators = {o1}
  Ops = {"retry", "cancel", "resume", "delete"}
  NSteps = 2
  JobTypes <- MCJobTypes
  TypeOf <- MCTypeOf
  TypeLimit <- MCTypeLimit
  GpuTypes <- MCGpuTypes
  GpuLimit = 1
  Policy <- MCPolicy
  MaxAttempts = 1
  AutoCap = 2
  AuthCap = 1
  StableIds = {w1}
  InputJobs = {1}
  HeartbeatReliable = FALSE
  Faults = {"crash", "error"}
  FaultBound = 2
  AttemptBound = 3
  NoOne = NoOne
INVARIANTS
  RunningIsRecoverable
  WaitingIsParked
PROPERTIES
  RunningEnds
