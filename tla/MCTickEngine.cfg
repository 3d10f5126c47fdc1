SPECIFICATION FairSpec
CONSTANTS
  drought = drought
  storm = storm
  Builds = {TRUE, FALSE}
  Events = {drought, storm}
  CategoryOf <- Category
  DurationOf <- Duration
  Viewers = {v1}
  TicksPerDay = 2
  MicrosPerMacro = 2
  SeasonTicks = 2
  MaxTick = 2
  MaxFailures = 1
  MaxRestarts = 1
  MaxChurn = 1
INVARIANTS
  TypeOK
  EachDisturbanceRedoesATickOnce
  NoStacking
  NothingOfAFailedTick
  SeasonNotOverdue
PROPERTIES
  WorldGoesOn
