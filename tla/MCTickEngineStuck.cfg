SPECIFICATION FairSpec
CONSTANTS
  drought = drought
  storm = storm
  Builds = {FALSE}
  Events = {drought}
  CategoryOf <- Category
  DurationOf <- Duration
  Viewers = {v1}
  TicksPerDay = 2
  MicrosPerMacro = 2
  SeasonTicks = 2
  MaxTick = 2
  MaxFailures = 0
  MaxRestarts = 0
  MaxChurn = 0
PROPERTY WorldAdvances
