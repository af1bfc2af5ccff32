SPECIFICATION OperationSpec
CONSTANTS
  p1 = p1
  p2 = p2
  k1 = k1
  k2 = k2
  s1 = s1
  Pids = {p1, p2}
  Commands = {k1, k2}
  Kinds <- AllKinds
  MaxStarts = 2
  MaxCrashes = 1
  Stalls = TRUE
  UnlinkRaces = FALSE
  MaxInstalls = 4
  MaxKills = 1
  MaxRetained = 6
  Cooldown = 2
  GrowthFiles = 2
  Window = 2
  MaxEvaluations = 3
  MaxChanges = 3
  Observed = {s1}
  MaxEvidence = 2
  MaxBuffered = 2
  MaxSettings = 1
  MaxClosings = 2
  CallsOutlive = TRUE
  Files = {"f1"}
  MaxStoredRows = 3
  MaxMishaps = 2
  KeptSessions = {"r1"}
  Periods = {2}
  MaxDay = 3
  MaxWritten = 2
  MaxChoices = 2
  Batch = 1
  HistoryDays = 1
  Resets = TRUE
  Items = {i1, i2}
  MaxRevision = 3
  MaxMutations = 4
  MaxRestores = 1
  MaxSaved = 2
  ReusesBackups = FALSE
  Operations = {o1, o2}
  MaxFileRows = 2
  LocksRace = FALSE
  DaemonsRace = FALSE
  MaxRequests = 3
  MaxOthers = 1
  MaxTokens = 1
  CommandsRace = FALSE
  Sessions = {e1}
  Nowhere = Nowhere
  Reader = Reader
  MaxHelpers = 1
  MaxEvents = 3
  MaxStops = 1
  GitDirs = {d1, d2}
  Commits = {v1}
  MaxGrants = 3
  MaxQueued = 2
  MaxMoves = 1
SYMMETRY Interchangeable
PROPERTIES
  AllClearIsTrue
CHECK_DEADLOCK FALSE
