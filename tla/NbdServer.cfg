CONSTANTS
  Clients = {"c1", "c2"}
  Budget = 2
  Requests = 2
  Total = 3
  Inflight = 2
  SesScenarios <- SessionCombos
SPECIFICATION SesSpec
CHECK_DEADLOCK FALSE
INVARIANTS SessionsSound AnsweredIsDurable
PROPERTIES SessionProgress
