SPECIFICATION Spec
CONSTANTS
  Cells = {"a", "b", "c"}
  Near <- MCNear
  Reports <- MCReports
  Days = {0, 1, 2, 3, 4}
  ShortSpan = 3
  LongSpan = 5
  MaxAge = 2
  Hours = {0, 1}
  NoHour = NoHour
  WeekDays = 2
  Schemes = {"area", "person"}
  PerCapita = {"person"}
  WeightOf <- MCWeightOf
  Area <- MCArea
  People <- MCPeople
  Prior <- MCPrior
  HourPrior = 1
  DayPrior = 2
  Absent = Absent
  NotPending = NotPending
  Everything = Everything
  MaxChanges = 3
  MaxBuilds = 2
  MaxTunings = 1
CHECK_DEADLOCK FALSE
INVARIANTS RangeRanksAsWindow RanksByEvidence
