SPECIFICATION FairSpec
CONSTANTS
  Schedules = {s1, s2}
  Old = {s2}
  Dispatchers = {d1}
  Workers = 1
  MaxAge = 2
  MaxTries = 2
  Labels = {"GROWING"}
  Deltas = {"more"}
  Horizon = 6
  OpsUntil = 3
  OpBound = 1
  FaultBound = 1
CHECK_DEADLOCK FALSE
INVARIANTS
  TypeOK
  ActiveIsScheduled
PROPERTIES
  ResultKept
  OperatorStarts
  TrackingEnds
  CollectionsEnd
