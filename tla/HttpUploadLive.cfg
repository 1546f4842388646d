\* One package, opened on the thread that serves the page and transferred on another.
SPECIFICATION FairSpec
CONSTANTS
  c1 = c1
  c2 = c2
  Conns = {c1, c2}
  NoConn = NoConn
  Slots = 1
  SmallBodyLimit = 1
  RequestLimit = 4
  PartMax = 2
  FileSize = 2
  MaxTasks = 1
  MaxReads = 2
  Faults = {"gone"}
  MaxFaults = 1
PROPERTIES
  ReadReturns
  PlaceComesBack
\* The uploads are bounded: when they are over, everything stops.
CHECK_DEADLOCK FALSE
