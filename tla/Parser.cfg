SPECIFICATION Spec
CONSTANTS
  Scripts <- MCScripts
  Usages <- MCUsages
  Values <- MCValues
  MaxSamples = 1
INVARIANTS OnePass LinesAreKept ReindexKeeps RepairKeeps RepairRestores
CHECK_DEADLOCK FALSE
