SPECIFICATION Spec
CONSTANTS
  Duties = {"latest", "batch", "adaptive"}
  Keys = {chatA}
  NoKey = NoKey
  Mode <- MCMode
  Window = 1
  InitialWindow = 1
  DailyCredits = 2
  MaxWindow = 2
  Day = 2
  Opening <- MCOpening
  Closing <- MCClosing
  OpensAt = 1
  RetryDelay = 1
  MaxTime = 2
  MaxItems = 3
  MaxBatch = 2
  MaxRetries = 1
  MaxAccidents = 1
INVARIANTS
  TypeOK
  CarriedOnce
  OneOpenRow
  CreditsCountWakes
  LostOnlyByAccident
PROPERTY PayloadsOnlyGrow
CHECK_DEADLOCK FALSE
