SPECIFICATION FairSpec
CONSTANTS
  k1 = k1
  Keys = {k1}
  Oldest = 1
  Today = 6
  BackfillStart = 2
  Lookback = 2
  SliceDays = 1
  LongSpan = 3
  MaxAge = 2
  Revs = {0, 1}
  BadRev = 0
  DeleteWithdrawn = TRUE
  NoDay = NoDay
  NotPending = NotPending
  Everything = Everything
  MaxChanges = 2
  MaxStops = 1
  MaxCommands = 2
  MaxEdits = 0
INVARIANTS LongWindowsTrailBounded
PROPERTIES EventuallyCurrent
