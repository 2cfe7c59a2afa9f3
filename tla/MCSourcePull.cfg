SPECIFICATION Spec
CONSTANTS
  a = a  b = b
  i1 = i1  i2 = i2  i3 = i3
  Ids = {i1, i2, i3}
  Parts <- PartsOfPull
  NameOrder <- ByName
  FirstPublished <- AtFirst
  PageSize = 2
  PageLimit = 3
  Modes = {"off", "delete"}
  AbsentPercent = 50
  StratumMinRows = 3
  WholeStratumMinRows = 2
  MaxChanges = 2
  MaxOutages = 1
  MaxPulls = 2
  MaxStops = 1
CHECK_DEADLOCK FALSE
INVARIANTS StandingRowsKept
PROPERTIES  ReplayChangesNothing
