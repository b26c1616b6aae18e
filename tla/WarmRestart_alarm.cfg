SPECIFICATION Spec
CONSTANTS
  A = A
  B = B
  k1 = k1
  k2 = k2
  k3 = k3
  m1 = m1
  m2 = m2
  Ids <- MCIds
  Keys <- MCKeys
  Maps <- MCMaps
  MaxFaults = 1
  MaxChanges = 0
  MaxInterrupts = 0
INVARIANT AlarmIsReal
CHECK_DEADLOCK FALSE
