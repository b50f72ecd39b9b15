SPECIFICATION Spec
CONSTANTS
  TierNames <- MCTierNames
  Tiers <- MCTiers
  ReachesOf <- MCReachesOf
  Prompts <- MCPrompts
  StateOf <- MCStateOf
  Transitions <- MCTransitions
  Sticky = {"perceive"}
  Threads = {t1}
  Stimuli <- MCStimuli
  ReflectEntry = "reflect"
  ReflectThread = t1
  Scheduled = TRUE
  StartsOf = {"perceive"}
  Servers = {"inlined"}
  TrustOf <- MCTrustOf
  BatonTtl = 1
  ReflectInterval = 1
  MaxCycleSteps = 1
  MaxFanoutWidth = 1
  MaxLineageDepth = 1
  MaxArrivals = 1
  MaxRetries = 0
  MaxTime = 0
INVARIANT SessionsIsolated

CHECK_DEADLOCK FALSE
