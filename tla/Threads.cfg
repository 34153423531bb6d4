SPECIFICATION Spec
CONSTANTS
  RecordQueues = {"charge", "consume"}
  MaxSends = 1
  MaxUsers = 2
INVARIANTS
  UnlocksItsOwn
  OnlyLostStandStill
  LostHoldNothingWanted
CHECK_DEADLOCK FALSE
