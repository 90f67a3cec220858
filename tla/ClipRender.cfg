SPECIFICATION LaneSpec
CONSTANTS
  N = 1
  Workers = {w1, w2}
  Operators = {}
  Requests = {}
  Modes = {"auto_to_render"}
  Limit = 1
  Fails = {"preview"}
  Answers = {"ok", "preview", "can_render", "ocr_review", "residual", "blocked", "pass", "fail", "residual_new"}
  Dialogues = {"speech", "silent", "uncertain"}
  JobBound = 9
  RequestBound = 0
  LossBound = 0
  Overlap = "short"
CHECK_DEADLOCK FALSE
INVARIANTS
  TypeOK
  RemediationBounded
  InputsReady
  CallbackFinds
