SPECIFICATION Spec
CONSTANTS
  MaxRecords = 2
  PipeSize = 2
  MaxFaults = 1
INVARIANT ExitedOnItsOwn
CHECK_DEADLOCK FALSE
