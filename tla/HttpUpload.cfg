\* Opening and transferring one package after another, with one thing a browser does besides the script.
SPECIFICATION Spec
CONSTANTS
  c1 = c1
  c2 = c2
  Conns = {c1, c2}
  NoConn = NoConn
  Slots = 1
  SmallBodyLimit = 1
  RequestLimit = 2
  PartMax = 2
  FileSize = 2
  MaxTasks = 2
  MaxReads = 2
  Faults = {"stray", "aborted", "gone", "slow", "visit"}
  MaxFaults = 1
SYMMETRY ConnSymmetry
INVARIANTS
  ReadsTheFile
  NoConnectionIsLost
  RefusalIsHeard
\* The uploads are bounded: when they are over, everything stops.
CHECK_DEADLOCK FALSE
