SPECIFICATION MaintenanceSpec
CONSTANTS
  Operations = {o1, o2}
  MaxFileRows = 1
  LocksRace = TRUE
  DaemonsRace = FALSE
INVARIANT OneOwner
CHECK_DEADLOCK FALSE
