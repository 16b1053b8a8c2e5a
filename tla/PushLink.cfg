SPECIFICATION FairSpec
CONSTANTS
  Records <- MCRecords
  Slot = {s1, s2}
  None = None
  MaxBatch = 2
  BackoffMin = 2
  BackoffMax = 3
  ShiftCap = 1
  Doublings = 1
  Unstorable <- MCUnstorable
  MaxFaults = 3
  MaxFails = 3
INVARIANTS ForgottenIsStored StoredOnce
PROPERTIES BackoffGrows Drains OlderArrive
CHECK_DEADLOCK FALSE
