SPECIFICATION AloneSpec
CONSTANTS
  s1 = s1
  f1 = f1
  h1 = h1
  Sessions = {s1}
  Files <- OneFile
  Hooks <- OneHook
  SessionOf <- OneSession
  JobFiles = {}
  Events <- EventIds
  MaxRecords = 1
  MaxFired = 1
  MaxRotations = 0
  MaxRestarts = 1
  MaxForgets = 1
  MaxPauses = 0
  FlushThreshold = 2
  FaultyWrites = {"flush", "checkpoint", "fingerprint", "cursor", "forget"}
  k1 = k1
  e1 = e1
  Checks = {k1}
  Edits = {e1}
  LastTurn = 2
  TurnOf <- FirstTurn
  Disagreements = 1
  Archive = {a1, a2}
  MaxSeq = 3
  MaxVersion = 2
  MaxFailures = 1
  MaxHolds = 1
  Downgrades = FALSE
  m1 = m1
  m2 = m2
  Helpers = {w1, w2}
  Messages = {m1, m2}
  OldUsage <- BeforeUpgrade
  MaxUsage = 2
  BatchSize = 2
  RowsReturn = FALSE
  Calls = {q1, q2}
  Texts = {x1, x2}
  Handles = {1}
  MaxPolls = 1
  PrintsAll = TRUE
  Agents = {1}
  Patches = {1}
  MaxRolloutLines = 5
  Lanes = {"main", "agent"}
  Responses = {1, 2, 3}
  LaneOf <- AgentBetween
  MaxRecordLines = 3
  MaxTokens = 2
  MaxReadings = 1
  NamesPrompts = TRUE
  ResumesMidFile = FALSE
  MaxRows = 3
  MaxText = 2
  MaxRereads = 1
  g1 = g1
  Paths = {g1}
  MaxReported = 7
  Ties = FALSE
  MaxLag = 0
INVARIANT OrderNeverMatters
CHECK_DEADLOCK FALSE
