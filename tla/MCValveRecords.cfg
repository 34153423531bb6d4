SPECIFICATION Spec
CONSTANTS
  Keys <- MCKeys
  Users <- MCUsers
  Hashes <- MCHashes
  Cells = 4
  Payload = 2
  Overrun = 8
  MaxRecords = 4
  MaxFaults = 1
INVARIANTS
  TypeOK
  FetchedUpToPointer
  LoadedIsLastSave
  LoadIsWalkOfBalancedTree
CHECK_DEADLOCK FALSE
PROPERTY
  EventuallyFetched
