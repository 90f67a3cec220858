SPECIFICATION LaneSpec
CONSTANTS
  N = 1
  Workers = {w1}
  Operators = {o1}
  Requests = {"hold", "resume", "set_auto", "start", "media_ready", "approve_text", "approve_quality", "retry", "cancel", "enqueue", "block"}
  Modes = {"auto_to_tts", "auto_to_render", "manual"}
  Limit = 1
  Fails = {"tts"}
  Answers = {"ok", "refused", "fresh", "review", "can_render", "pass", "blocked"}
  Dialogues = {"speech", "uncertain"}
  JobBound = 8
  RequestBound = 3
  LossBound = 1
  Overlap = "none"
CHECK_DEADLOCK FALSE
PROPERTIES
  HoldStops
  ProgressKept
