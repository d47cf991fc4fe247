\* The smallest chart that shows relations of branches among those of stems.
CONSTANTS
  DaysPerYear = 4
  SpringDay = 1
  BirthDays <- BirthDaysTwo
  BirthMinutes <- BirthMinutesTwo
  Offsets <- OffsetsBound
  Todays <- TodaysAll
  Charts <- ChartsTen
  StemTexts = {"hehua,earth", "hehua,fire"}
  BranchTexts = {"chong"}
  Blank = "blank"
  Label <- LabelOf
  RelationLists <- ListsOfKinds
  None = None
SPECIFICATION Spec
INVARIANT RelationsKeepKind
CHECK_DEADLOCK FALSE
