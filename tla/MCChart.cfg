\* Two birth days and times, two places, ten charts, four days, five lists of relations.
CONSTANTS
  DaysPerYear = 4
  SpringDay = 1
  BirthDays <- BirthDaysTwo
  BirthMinutes <- BirthMinutesTwo
  Offsets <- OffsetsBound
  Todays <- TodaysAll
  Charts <- ChartsTen
  StemTexts = {"hehua,earth", "hehua,fire"}
  BranchTexts = {"chong"}
  Blank = "blank"
  Label <- LabelOf
  RelationLists <- ListsFive
  None = None
SPECIFICATION Spec
INVARIANTS TablesAgree LuckCovers NoonKeepsTheDay UnknownHourMasked RelationsAreNew
CHECK_DEADLOCK FALSE
