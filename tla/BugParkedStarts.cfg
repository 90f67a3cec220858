SPECIFICATION FairLaneSpec
CONSTANTS
  N = 2
  Workers = {w1}
  Operators = {}
  Requests = {}
  Modes = {"auto_to_tts"}
  Limit = 1
  Fails = {"download"}
  Answers = {"ok"}
  Dialogues = {"speech"}
  JobBound = 20
  RequestBound = 0
  LossBound = 0
  Overlap = "none"
CHECK_DEADLOCK FALSE
PROPERTIES
  ParkedStarts
