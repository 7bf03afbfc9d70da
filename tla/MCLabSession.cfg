CONSTANTS
  None = None
  c1 = c1
  c2 = c2
  Call = {c1, c2}
  Report <- MCReport
  GoodWindow = 300
  MaxRequests = 3
SPECIFICATION Spec
SYMMETRY CallSymmetry
CHECK_DEADLOCK FALSE
INVARIANTS SampledIsEarned HitIsNeverBlocked MixedOnlyByOverlap
