SPECIFICATION Spec
CONSTANTS
  own = own
  other = other
  hub1 = hub1
  hub2 = hub2
  addr1 = addr1
  addr2 = addr2
  Readers <- MCReaders
  Interfaces <- MCInterfaces
  Addresses <- MCAddresses
  MaxMoves = 2
  MaxFaults = 1
  MaxInterrupts = 1
  MaxSegments = 3
SYMMETRY Names
INVARIANTS TypeOK NoGapNoTrouble SegmentFollowsReader NoRecorderLeft FirstFailureKept
CHECK_DEADLOCK FALSE
