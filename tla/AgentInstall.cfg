\* Two files and the record, two agents; two calls of a run fail, one power cut.
SPECIFICATION InstallerSpec
CONSTANTS
  NumFiles = 2
  NumVersions = 2
  MaxFaults = 2
  MaxCrashes = 1
INVARIANTS
  CanBePutBack
  EndsWhole
