\* The window may stop at any record and the controller may die: no deadlock check.
CONSTANTS
  Windows <- ThreeWindows
  Irps = {i1, i2}
  Snaplen = 250
  MaxLost = 2
  Corruptions = {"captured", "hlen"}
  MaxFaults = 1
SPECIFICATION Spec
INVARIANTS TypeOK FileIsPrefix CyclesAreReal ToolsAgree
SYMMETRY Pointers
CHECK_DEADLOCK FALSE
