SPECIFICATION Spec
CONSTANTS
  Asks <- MCAsks
  Street <- MCStreet
  Plans <- MCPlans
  HourBlocks = 2
  WeekDays = 3
  Universe <- MCUniverse
  Near <- MCNear
  Windows <- MCWindows
  Gold <- MCGold
  MaxGen = 2
CHECK_DEADLOCK FALSE
INVARIANTS MapsOwnComparison OffersInOrder PickQualifies
