SPECIFICATION FairSpec
CONSTANTS
  MaxRecords = 2
  PipeSize = 2
  MaxFaults = 1
INVARIANTS TypeOK OneHalter ReportIsTrue NoOrphan
PROPERTIES ReportsLosses StopReturns
CHECK_DEADLOCK FALSE
