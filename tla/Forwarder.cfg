SPECIFICATION Spec
CONSTANTS
  Valves = {v1}
  CardCells = 1
  Records = 2
  MaxRequests = 1
  MaxConfigs = 1
  MaxFaults = 2
  MaxTrouble = 4
INVARIANTS
  TypeOK
  SuccessWasApplied
  SentIsFresh
  ConfiguredValvesAreCounted
PROPERTIES
  LostOnlyWhenNotReady
  EventuallyAnswered
CHECK_DEADLOCK FALSE
