SPECIFICATION Spec
CONSTANTS
  s1 = s1
  f1 = f1
  h1 = h1
  Sessions = {s1}
  Files <- OneFile
  Hooks <- NoHooks
  SessionOf <- OneSession
  JobFiles = {}
  Events <- EventIds
  MaxRecords = 2
  MaxFired = 0
  MaxRotations = 0
  MaxRestarts = 0
  MaxForgets = 0
  MaxPauses = 0
  FlushThreshold = 2
  FaultyWrites = {"flush", "close"}
INVARIANT CursorCoversDurable
CHECK_DEADLOCK FALSE
