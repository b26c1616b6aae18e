SPECIFICATION Spec
CONSTANTS
  A = A
  B = B
  k1 = k1
  k2 = k2
  k3 = k3
  m1 = m1
  m2 = m2
  Ids <- MCIds
  Keys <- MCKeys
  Maps <- MCMaps
  MaxFaults = 2
  MaxChanges = 2
  MaxInterrupts = 2
SYMMETRY Names
INVARIANTS TypeOK OnlyTheDiscovered NeverLeftDisabled
CHECK_DEADLOCK FALSE
