SPECIFICATION Spec
CONSTANTS
  Drafts = {d1}
  NoDraft = NoDraft
  N = 1
  Requests = {q1}
  Refreshers = {r1}
  MaxApprovals = 1
  Effects = {"none", "cool", "hold"}
CHECK_DEADLOCK FALSE
INVARIANTS
  ReferenceKept
