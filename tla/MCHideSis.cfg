CONSTANTS
  None = None
  MaxEvents = 14
SPECIFICATION StorySpec
CHECK_DEADLOCK FALSE
INVARIANTS StoryTypeOK NeverBlocked DignityGateFollowsMode ReplayNeverFlatters
PROPERTIES EndingOnlyImproves
