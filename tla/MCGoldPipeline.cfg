SPECIFICATION Spec
CONSTANTS
  k1 = k1  k2 = k2
  Keys = {k1, k2}
  Oldest = 1
  Today = 4
  BackfillStart = 3
  Lookback = 2
  SliceDays = 1
  LongSpan = 2
  MaxAge = 2
  Revs = {0, 1}
  BadRev = 0
  DeleteWithdrawn = TRUE
  NoDay = NoDay
  NotPending = NotPending
  Everything = Everything
  MaxChanges = 1
  MaxStops = 1
  MaxCommands = 2
  MaxEdits = 1
SYMMETRY KeySymmetry
INVARIANTS TypeOK OneRowPerKey MarkCoversSilver MarkCoversExposure SelectableDaysExact CoveredIsLoaded
PROPERTIES NeverDropsPublished ImplementsMirror
