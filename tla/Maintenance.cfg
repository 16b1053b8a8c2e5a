SPECIFICATION Spec
CONSTANTS
  Record <- MCRecord
  RidDay <- MCRidDay
  Wall <- MCWall
  Now = 6
  SearchDays = 1
  Span <- MCSpan
  YearStart = 2
  Filters <- MCFilters
  PageSizes <- MCPageSizes
  HoursPerDay = 2
  HourlyMaxDays = 1
  DailyMaxDays = 2
  DaysPerWeek = 2
  ChannelNames <- MCChannelNames
  ModelLimit = 1
  ChanLimit = 1
  TokenLimit = 1
  OrderOf <- MCOrderOf
  Repaired <- MCRepaired
  First <- MCFirst
  Source <- MCSource
  Arriving <- MCArriving
  MaxEntries = 3
  MaxRot = 1
INVARIANTS TypeOK CompletedMeansDone RangeLosesNothing PagesCover GetAgrees BreakdownsAddUp ViewsAgree
PROPERTIES NothingLost AddsOnlyWhatIsMissing
