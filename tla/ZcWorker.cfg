CONSTANTS
  ZQueues = 2
  ZTags = {1, 2}
  ZSlots = 1
  ZRequests = 2
  ZRotations = 1
  ZRetries = 2
  ZNone = ZNone
  ZScenarios <- ZcCombos
SPECIFICATION ZSpec
CHECK_DEADLOCK FALSE
INVARIANTS SlotsHeld WritesAreHonest
PROPERTIES ZcProgress
