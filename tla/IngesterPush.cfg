SPECIFICATION Spec
CONSTANTS
  Call <- MCCall
  Script <- MCScript
  NextDay <- MCNextDay
  MaxFile = 1
  HighWater = 1
  ArchivedCap = 10
  BatchMax = 1
  PushMode = TRUE
  MaxCrash = 1
  MaxLate = 0
  Faults = {"net"}
INVARIANTS HoldHasWork LineAccounted
