\* Two buffers, a package with a compressed and a control content, and room for
\* the placeholders of one run, which an earlier run may still hold.
SPECIFICATION Spec
CONSTANTS
  NumSlots = 2
  NumContents = 3
  Size <- MCSize
  Reach <- MCReach
  Control = 3
  Gamecard <- MCGamecard
  MaxPlaceholders = 4
  FlushCells = 1
INVARIANTS
  RegisteredIsWhole
  TaskFileIsHonest
  WrittenIsInPlace
  DrainedIsComplete
PROPERTY
  TransferEnds
