\* Three builds and a foreign program; two failing calls, two power cuts.
SPECIFICATION SpecTile
CONSTANTS
    one = one
    two = two
    Ours <- MCOurs
    Foreign = Foreign
    Torn = Torn
    Absent = Absent
    MaxFaults = 2
    MaxCuts = 2
INVARIANTS
  ACopyRemains
  ToldIsTrue
  TileOpensManager
PROPERTIES
  NewestIsKept
  RunningIsSpared
