SPECIFICATION Spec
CONSTANTS
  Ids <- MCIds
  BackOnline <- MCBackOnline
  Deferred <- MCDeferred
  OriginOf <- MCOriginOf
  PriorityRank <- MCPriorityRank
  ReceivedAt <- MCReceivedAt
  LowRank = 30
  Holds <- MCHolds
  Backoff <- MCBackoff
  QueueMaxDepth = 1
  NoId = NoId
  MaxTimeoutRetries = 2
  MaxCycleSteps = 2
  MaxCrashes = 0
  MaxDbFaults = 1
  MaxSignals = 1
  MaxPauses = 0
INVARIANTS
  TypeOK
  SingleFlight
  RunsAccounted
  OutwardAccounted
PROPERTIES
  FinishedForever
CHECK_DEADLOCK FALSE
