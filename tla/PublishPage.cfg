SPECIFICATION Spec
CONSTANTS
  Drafts = {d1}
  NoDraft = NoDraft
  N = 2
  Requests = {q1, q2}
  Refreshers = {r1}
  MaxApprovals = 2
  Effects = {"none"}
SYMMETRY Symmetry
CHECK_DEADLOCK FALSE
INVARIANTS
  TypeOK
  OneCanonical
  ReferenceFollowed
  OnePostPerApproval
  PublishedIsBacked
PROPERTIES
  ImplementsPublishOnce
