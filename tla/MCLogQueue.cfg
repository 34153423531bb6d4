SPECIFICATION Spec
CONSTANTS
  MaxRecords = 4
  RecordLength <- MCRecordLength
  MaxFaults = 4
INVARIANTS
  TypeOK
  IndexedRecordsAreWhole
  DequeuedWasSent
  SentInOrder
  RepeatsNeedFaults
PROPERTIES
  ImplementsDurableFifo
CHECK_DEADLOCK FALSE
