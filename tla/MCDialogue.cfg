\* One user with two messages, two birth dates and two hours; ranges of at most a day; entries expire after a minute.
CONSTANTS
  u1 = u1  male = male  d1 = d1  d2 = d2  h1 = h1  h2 = h2  m1 = m1  c1 = c1  act = act  s1 = s1  s2 = s2
  None = None
  Users <- UsersOne
  Genders <- GendersOne
  Dates <- DatesTwo
  Hours <- HoursTwo
  Minutes <- MinutesOne
  Cities <- CitiesOne
  Activities <- ActivitiesOne
  Days <- DaysThree
  Slots <- SlotsTwo
  MaxDays = 1
  Expiry = 1
  PerMinute = 1
SYMMETRY Symmetry
SPECIFICATION Spec
INVARIANTS AnswersTogether RangeBounded WizardsWithinContexts
