SPECIFICATION Spec
CONSTANTS
  Users = {u1, u2}
  Cells = 1
  CmdCells = 1
  Modulus = 4
  MaxRequests = 3
  MaxFaults = 1
INVARIANTS
  TypeOK
  AppliedOnce
  EachIsAccountedFor
PROPERTY
  AppliedIsReported
CHECK_DEADLOCK FALSE
