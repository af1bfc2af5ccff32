SPECIFICATION DeliverySpec
CONSTANTS
  Contenders = {q1, q2, q3}
  Nobody = Nobody
  NoFile = NoFile
  GuardExpires = FALSE
  Envelopes = {e1, e2}
  Lifecycle = {e1}
  Observed = {e2}
  SheddingAt = 1
  MaxPending = 1
  MaxAbsolute = 1
  MaxCrashes = 1
  LiveEvents = {1, 2, 3}
  MaxReplay = 2
  MaxDrops = 1
  MaxReloads = 1
  FlushFails = TRUE
  LosesTail = FALSE
  s1 = s1
  f1 = f1
  h1 = h1
  Sessions = {s1}
  Files <- OneFile
  Hooks <- NoHooks
  SessionOf <- OneSession
  JobFiles = {f1}
  Events <- EventIds
  MaxRecords = 1
  MaxFired = 0
  MaxRotations = 1
  MaxRestarts = 1
  MaxForgets = 0
  MaxPauses = 1
  FlushThreshold = 2
  FaultyWrites = {"flush", "cursor", "forget"}
INVARIANTS
  SpoolLimitsHold
  NothingLost
  ViewIsPrefix
PROPERTIES
  DeadAreReaped
  EveryFileSettles
  CatchesUp
  RecordsBecomeDurable
CHECK_DEADLOCK FALSE
