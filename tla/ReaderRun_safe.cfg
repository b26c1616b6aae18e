SPECIFICATION FairSpec
CONSTANTS
  Requests <- AllRequests
  Leftovers <- StaleFrames
  MaxFaults = 1
  MaxInterrupts = 1
  MaxTls = 2
INVARIANTS
  TypeOK
  GuardsAgree
  SleepAckTruth
  SleepAlwaysTried
  CleanHandover
  FirstErrorWins
  ExitZeroMeansAll
  ReleaseTruth
  NoHalfImage
PROPERTIES
  TouchProtocol
  Termination
CHECK_DEADLOCK FALSE
