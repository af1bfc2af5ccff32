SPECIFICATION Spec
CONSTANTS
  s1 = s1
  f1 = f1
  h1 = h1
  Sessions = {s1}
  Files <- OneFile
  Hooks <- OneHook
  SessionOf <- OneSession
  JobFiles = {}
  Events <- EventIds
  MaxRecords = 1
  MaxFired = 1
  MaxRotations = 0
  MaxRestarts = 0
  MaxForgets = 1
  MaxPauses = 0
  FlushThreshold = 2
  FaultyWrites = {"flush", "close"}
INVARIANT ForgottenStaysGone
CHECK_DEADLOCK FALSE
