SPECIFICATION Spec
CONSTANTS
  Call <- MCCall
  Script <- MCScript
  NextDay = {}
  MaxFile = 2
  HighWater = 0
  ArchivedCap = 10
  BatchMax = 1
  PushMode = FALSE
  MaxCrash = 0
  MaxLate = 0
  Faults = {}
INVARIANT LiveNeverDeleted
