SPECIFICATION FairLaneSpec
CONSTANTS
  N = 3
  Workers = {w1, w2}
  Operators = {}
  Requests = {}
  Modes = {"auto_to_tts"}
  Limit = 2
  Fails = {"tts"}
  Answers = {"ok"}
  Dialogues = {"speech", "silent"}
  JobBound = 20
  RequestBound = 0
  LossBound = 0
  Overlap = "short"
CHECK_DEADLOCK FALSE
INVARIANTS
  LaneBudget
  LaneLoad
  NothingStranded
  CallbackFinds
  OneLiveJob
PROPERTIES
  EverythingSettles
