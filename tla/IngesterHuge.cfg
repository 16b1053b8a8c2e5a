SPECIFICATION Spec
CONSTANTS
  Call <- MCCall
  Script <- MCHugeScript
  NextDay = {}
  MaxFile = 1
  HighWater = 10
  ArchivedCap = 10
  BatchMax = 1
  PushMode = FALSE
  MaxCrash = 0
  MaxLate = 0
  Faults = {}
INVARIANT OnlyHugeSkipped
