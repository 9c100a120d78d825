\* Two transactions over two months of two days of two hours, at either of two
\* moments and in three time zones; three names, one of them part of another.
SPECIFICATION SpendingSpec
CONSTANTS
  food = food
  fastfood = fastfood
  Ids = {1, 2}
  Amount <- Amounts
  InBase = {1}
  TagNames <- Called
  Like <- Containing
  Taxonomy = {"category"}
  SourceColumns = {"bank"}
  Rows <- SomeRows
  Instants = {0, 7}
  Offsets <- Zones
  HoursPerDay = 2
  DaysPerWeek = 3
  DaysPerMonth = 2
  MonthsPerYear = 2
  RecentDays = 1
  BreakdownMonths = 2
  LabelLimit = 2
  MaxInt = 3
  Untagged = Untagged
  Absent = Absent
INVARIANTS SlicesOpen WindowsAgree PagesCover
CHECK_DEADLOCK FALSE
