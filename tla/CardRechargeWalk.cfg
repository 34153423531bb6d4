SPECIFICATION Spec
CONSTANTS
  Users = {u1}
  Cells = 1
  CmdCells = 1
  Modulus = 4
  MaxRequests = 1
  MaxFaults = 1
INVARIANT
  WalkEnds
CHECK_DEADLOCK FALSE
