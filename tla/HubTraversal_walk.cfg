SPECIFICATION Spec
CONSTANTS
  h1 = h1
  h2 = h2
  h3 = h3
  r1 = r1
  Hubs <- ThreeHubs
  Root = h1
  Readers <- OneReader
  Ports = 2
  MaxDepth = 1
  MaxChanges = 1
INVARIANTS
  TypeOK
  WalkIsExact
  CountedOnce
PROPERTY WalkEnds
CHECK_DEADLOCK FALSE
