SPECIFICATION FairSpec
CONSTANTS
  Call <- MCCall
  Script <- MCScript
  NextDay = {}
  MaxFile = 2
  HighWater = 1
  ArchivedCap = 10
  BatchMax = 1
  PushMode = FALSE
  MaxCrash = 1
  MaxLate = 1
  Faults = {"append", "open", "partial", "late"}
INVARIANTS OneVersionPerLife LineAccounted
PROPERTIES PendingDrains SpoolReclaimed
