SPECIFICATION PipelineSpec
CONSTANTS
  Clients = {a, b}
  Asks <- MCAsks
  Limit = 2
  Window = 2
  CleanupEvery = 2
  MaxTime = 2
  MaxRequests = 4
SYMMETRY Addresses
CHECK_DEADLOCK FALSE
INVARIANTS RefusalsAudited
PROPERTIES LimiterExact
