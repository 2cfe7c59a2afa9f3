SPECIFICATION FairSpec
CONSTANTS
  c1 = c1
  Cities = {c1}
  NoCity = NoCity
  Slices = 1
  MaxVersion = 2
  MaxFails = 1
  MaxCommands = 1
  MaxForces = 1
  MaxDeploys = 1
INVARIANTS TypeOK DependencyOrder UnrankedIsNoticed
PROPERTIES NoHotLoop EventuallyQuiet
