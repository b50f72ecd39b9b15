SPECIFICATION Spec
CONSTANTS
  Duties = {"none"}
  Keys = {chatA, chatB}
  NoKey = NoKey
  Mode <- MCMode
  Window = 1
  InitialWindow = 1
  DailyCredits = 2
  MaxWindow = 2
  Day = 2
  Opening <- MCOpening
  Closing <- MCClosing
  OpensAt = 0
  RetryDelay = 1
  MaxTime = 2
  MaxItems = 2
  MaxBatch = 1
  MaxRetries = 1
  MaxAccidents = 0
INVARIANT AlwaysAFreshWake
CHECK_DEADLOCK FALSE
