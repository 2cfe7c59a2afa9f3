SPECIFICATION Spec
CONSTANTS
  area = area  percapita = percapita
  day = day  evening = evening  dateOnly = dateOnly
  Runs = {deploy, byhand}
  Trees <- Checkouts
  Schemes = {area, percapita}
  Parent = area
  Child = percapita
  Classes = {day, evening, dateOnly}
  Rows <- RowCount
  Timed = {day, evening}
  Late = {evening}
  Legacy = {day, evening}
  Floor = 99
  Ceiling = 10
  MaxKills = 1
  NoRun = NoRun
  NoScheme = NoScheme
INVARIANTS SchemaHistory VerifiedTree  HourIsOwn
PROPERTIES ServedIsKept
