SPECIFICATION Spec
CONSTANTS
  QueueOrder <- MCOneQueue
  Timed = {}
  MaxSerial = 1
  Retries = 2
  Lifetime = 1
  MaxRecords = 1
  MaxCommands = 2
  MaxFaults = 2
INVARIANTS
  RepeatsNeedFaults
PROPERTIES
  StashedIsExecuted
