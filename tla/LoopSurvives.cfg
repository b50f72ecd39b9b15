SPECIFICATION Spec
CONSTANTS
  Ids <- MCIds
  BackOnline <- MCBackOnline
  Deferred <- MCDeferred
  OriginOf <- MCOriginOf
  PriorityRank <- MCPriorityRank
  ReceivedAt <- MCReceivedAt
  LowRank = 30
  Holds <- MCHolds
  Backoff <- MCBackoff
  QueueMaxDepth = 1
  NoId = NoId
  MaxTimeoutRetries = 1
  MaxCycleSteps = 1
  MaxCrashes = 0
  MaxDbFaults = 1
  MaxSignals = 0
  MaxPauses = 0
INVARIANT LoopSurvives
CHECK_DEADLOCK FALSE
