SPECIFICATION LaneSpec
CONSTANTS
  N = 1
  Workers = {w1}
  Operators = {o1}
  Requests = {"hold"}
  Modes = {"auto_to_tts"}
  Limit = 1
  Fails = {}
  Answers = {"ok"}
  Dialogues = {"speech"}
  JobBound = 20
  RequestBound = 1
  LossBound = 0
  Overlap = "short"
CHECK_DEADLOCK FALSE
PROPERTIES
  HoldStops
