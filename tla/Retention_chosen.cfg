SPECIFICATION RetentionSpec
CONSTANTS
  KeptSessions = {"r1", "r2"}
  Periods = {1}
  MaxDay = 3
  MaxWritten = 2
  MaxChoices = 2
  Batch = 1
  HistoryDays = 3
  Resets = FALSE
INVARIANT PolicyIsAsChosen
CHECK_DEADLOCK FALSE
