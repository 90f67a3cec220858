SPECIFICATION Spec
CONSTANTS
  Jobs = {1}
  Workers = {w1}
  Operators = {o1}
  Ops = {"cancel"}
  NSteps = 1
  JobTypes <- MCJobTypes
  TypeOf <- MCTypeOf
  TypeLimit <- MCTypeLimit
  GpuTypes <- MCGpuTypes
  GpuLimit = 1
  Policy <- MCPolicy
  MaxAttempts = 1
  AutoCap = 2
  AuthCap = 1
  StableIds = {}
  InputJobs = {}
  HeartbeatReliable = TRUE
  Faults = {}
  FaultBound = 0
  AttemptBound = 3
  NoOne = NoOne
PROPERTIES
  TerminalStays
