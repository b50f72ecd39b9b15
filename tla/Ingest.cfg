SPECIFICATION Spec
CONSTANTS
  Definitions <- MCDefinitions
  Directories <- MCDirectories
  Shipped <- MCShipped
  MaxAccidents = 2
  Capacity = 1
  MaxTime = 2
  TierNames = {"public", "self"}
  Tiers <- MCTiers
  ReachesOf <- MCReaches
  Providers = {"token"}
  TrustOf <- MCTrustOf
  Signed <- MCSigned
  Webhooks <- MCWebhooks
  MaxItems = 2
  MaxPosts = 1
INVARIANTS
  TypeOK
  ReloadsSettle
  WheelIsCurrent
  EveryTimeFires
  NoItemTwice
  

  
CHECK_DEADLOCK FALSE
