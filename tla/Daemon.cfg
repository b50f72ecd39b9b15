SPECIFICATION Spec
CONSTANTS
  TierNames = {"public", "self"}
  Tiers <- MCTiers
  ReachesOf <- MCReaches
  Registry <- MCRegistry
  PostTools <- MCPostTools
  SettleTools <- MCSettleTools
  Policies <- MCPolicies
  DryRun <- MCDryRun
  MemoryFloor = "self"
  Prompts <- MCPrompts
  SoulRoot <- MCRoot
  BuiltinCalls <- MCBuiltinCalls
  Tools <- MCTools
  Effect <- MCEffect
  Batch <- MCBatch
  Messages = {"m1", "m2", "m3"}
  MaxWakes = 1
  MaxAttempts = 2
  MaxSteps = 2
  Agents <- MCAgents
  Guest <- MCGuest
  RunName <- MCRunName
  WorkerCalls <- MCWorkerCalls
  MaxWorkers = 2
  MaxTime = 1
  Modules = {"telegram"}
  BackoffStart = 1
  BackoffCap = 3
  HealthyUptime = 2
  MaxStreak = 4
  MaxAccidents = 1
  Deployments <- MCDeployments
INVARIANTS
  TypeOK
  
  ActedIsFinal
  
  
  RestartsPaced
CHECK_DEADLOCK FALSE
