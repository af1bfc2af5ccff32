SPECIFICATION ApartSpec
CONSTANTS
  s1 = s1
  f1 = f1
  h1 = h1
  Sessions = {s1}
  Files <- OneFile
  Hooks <- OneHook
  SessionOf <- OneSession
  JobFiles = {f1}
  Events <- EventIds
  MaxRecords = 2
  MaxFired = 1
  MaxRotations = 1
  MaxRestarts = 1
  MaxForgets = 1
  MaxPauses = 0
  FlushThreshold = 2
  FaultyWrites = {"flush", "cursor", "forget"}
INVARIANTS
  TypeOK
  CursorCoversDurable
  AckedIsDurable
  ForgottenStaysGone
  FileOrder
  NothingTorn
PROPERTY JobIsHonest
CHECK_DEADLOCK FALSE
