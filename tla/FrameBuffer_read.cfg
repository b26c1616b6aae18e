SPECIFICATION Spec
CONSTANTS
  Header = 2
  MaxBody = 2
  Limit = 7
  MaxPad = 2
  MaxFrames = 4
INVARIANTS TypeOK InOrder NoFalseHeader
PROPERTY ReceiveIsLink
CHECK_DEADLOCK FALSE
