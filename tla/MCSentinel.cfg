CONSTANTS
  None = None
  s1 = s1
  s2 = s2
  Sig = {s1, s2}
  Window = 1
  DedupeTtl = 2
  MinSamples = 2
  MinInterval = 2
  Capacity = 1
  RigEnabled = TRUE
SPECIFICATION Spec
CHECK_DEADLOCK FALSE
INVARIANTS CountedOnce
PROPERTIES PatchesAreSpaced SubscriberGetsThrough SilencedByItsPatch
