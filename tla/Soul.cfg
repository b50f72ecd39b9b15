SPECIFICATION Spec
CONSTANTS
  Paths <- MCPaths
  DirOf <- MCDirOf
  Genesis = {"prompt"}
  SoulRemotes <- MCSoulRemotes
  LegacyUrl <- MCLegacyUrl
  Roles = {"soul", "builder"}
  Identities = {"soul"}
  Entered = {"Perceive", "Express", "Reflect"}
  MaxAttempts = 2
  MaxSteps = 2
  Texts = {x, y}
  MaxEdits = 2
  MaxAccidents = 1
  Threads = {t1}
  DayLength = 1
  KeepDays = 1
  MaxNotes = 1
  Lookback = 1
  SessionTtl = 0
  MaxTime = 1
  MaxNoted = 2
INVARIANTS
  TypeOK
  LeftoversExplained
  CleanMeansPushed
  NothingUnwritten
  CountsAgree
  NotesAreNewest
  DiffIsNew
PROPERTIES
  SweepsOnlyItsOwn
CHECK_DEADLOCK FALSE
