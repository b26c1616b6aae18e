SPECIFICATION Spec
CONSTANTS
  Requests <- DownRequest
  Leftovers <- NoFrames
  MaxFaults = 0
  MaxInterrupts = 1
  MaxTls = 2
INVARIANT EveryPathSleeps
CHECK_DEADLOCK FALSE
