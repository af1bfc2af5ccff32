SPECIFICATION RecoverySpec
CONSTANTS
  c1 = c1
  c2 = c2
  r1 = r1
  Processes <- TwoAndRevoke
  Creators <- TwoCreate
  Target <- RevokesFirst
  MaxCredentials = 2
  Inodes = {1, 2}
  NoOne = NoOne
  MaxSequence = 3
  MaxRemovals = 1
  RowBudget = 2
  MaxRounds = 2
  MaxFaults = 1
  NumbersRepeat = FALSE
INVARIANTS
  MutualExclusion
  RevokedStaysRevoked
  NothingPassedOver
PROPERTIES
  ActsAtomically
  Recovers
  RowsArrive
CHECK_DEADLOCK FALSE
