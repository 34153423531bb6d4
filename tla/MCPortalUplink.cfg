SPECIFICATION Spec
CONSTANTS
  QueueOrder <- MCOrder
  Timed = {"valve"}
  MaxSerial = 1
  Retries = 2
  Lifetime = 1
  MaxRecords = 2
  MaxCommands = 0
  MaxFaults = 2
INVARIANTS
  TypeOK
  NothingLost
  RegisteredAtServer
PROPERTIES
  ImplementsUplink
  EventuallyDequeued
