SPECIFICATION Spec
CONSTANTS
  TierNames <- MCTierNames
  Tiers <- MCTiers
  ReachesOf <- MCReachesOf
  Prompts <- MCPrompts
  StateOf <- MCStateOf
  Transitions <- MCTransitions
  Sticky = {"perceive"}
  Threads = {t1}
  Stimuli <- MCStimuli
  ReflectEntry = "reflect"
  ReflectThread = t1
  Scheduled = TRUE
  StartsOf = {"perceive"}
  Servers = {"inlined"}
  TrustOf <- MCTrustOf
  BatonTtl = 1
  ReflectInterval = 2
  MaxCycleSteps = 2
  MaxFanoutWidth = 2
  MaxLineageDepth = 1
  MaxArrivals = 1
  MaxRetries = 1
  MaxTime = 2
INVARIANTS
  TypeOK
  StepsWithinTaint
  
  LineageBounded
  GrantsSpaced
CHECK_DEADLOCK FALSE
