SPECIFICATION FairSpec
CONSTANTS
  Ids <- MCIds
  BackOnline <- MCBackOnline
  Deferred <- MCDeferred
  OriginOf <- MCOriginOf
  PriorityRank <- MCPriorityRank
  ReceivedAt <- MCReceivedAt
  LowRank = 30
  Holds <- MCHolds
  Backoff <- MCBackoff
  QueueMaxDepth = 1
  NoId = NoId
  MaxTimeoutRetries = 1
  MaxCycleSteps = 1
  MaxCrashes = 1
  MaxDbFaults = 0
  MaxSignals = 0
  MaxPauses = 1
INVARIANT PauseHolds
PROPERTIES
  
  LifecycleKept
