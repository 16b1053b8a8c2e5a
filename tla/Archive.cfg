SPECIFICATION Spec
CONSTANTS
  viewer = viewer
  import = import
  first = first
  fixed = fixed
  other = other
  day1 = day1
  day2 = day2
  idA = idA
  idB = idB
  x = x
  None = None
  Writer = {viewer}
  Record = {first, fixed, other}
  Day = {day1, day2}
  Rid = {idA, idB}
  Content = {x}
  DayOf <- MCDayOf
  RidOf <- MCRidOf
  BlobOf <- MCBlobOf
  How = {"append", "new"}
  Faults = {"open", "poolWrite", "poolSync", "poolIndex", "dataWrite", "dataSync", "indexWrite", "indexSync", "kill", "power", "tear"}
  MaxTries = 3
  MaxCrash = 1
CHECK_DEADLOCK FALSE
INVARIANTS TypeOK CleanEntriesResolve AckedVisible NewNeverDuplicates
PROPERTY ImplementsStore
