SPECIFICATION GateSpec
INVARIANTS
  GateTypeOK
  GateOrder
PROPERTY NothingAfterSleep
CHECK_DEADLOCK FALSE
