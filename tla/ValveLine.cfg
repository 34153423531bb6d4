SPECIFICATION Spec
CONSTANTS
  Valves = {v1, v2}
  All = All
  TxCells = 9
  HtxCells = 1
  RxCells = 1
  HeatData = TRUE
  MaxRetry = 0
  MaxUrgent = 1
  MaxFaults = 1
INVARIANTS
  TypeOK
  ConfirmedIsKnown
PROPERTIES
  EventuallyConfirmed
  NormalProcessResumes
  HalfWrittenStays
