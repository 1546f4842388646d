SPECIFICATION Spec
CONSTANTS
  Facts <- MCFacts
  StartPages = {"Home", "StartupCheck"}
  Touched = {"Primary", "TabGuide", "InstallBack"}
  StandardPath = TRUE
CONSTRAINT Bounded
INVARIANTS
  PackageStaysInside
  BackLeadsOut
PROPERTY ConfirmedFirst
CHECK_DEADLOCK FALSE
