SPECIFICATION ReadingSpec
CONSTANTS
  Packages <- MCPackages
  Consoles <- MCConsoles
  SkipInstalled = TRUE
  AllowDowngrade = FALSE
  MaxPicks = 3
  MaxFaults = 2
INVARIANTS
  PlanIsTheRecords
  ReadingsAreTakenBack
CHECK_DEADLOCK FALSE
