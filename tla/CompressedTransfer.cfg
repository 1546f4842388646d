\* Every small .ncz pulled by Prepare, then twenty-four packages of two through the
\* installer's own ring of three slots, in five pieces.
SPECIFICATION StreamSpec
CONSTANTS
  NumSlots = 3
  NumPieces = 5
  HeaderSize = 2
  ChunkSize = 2
  ReadFiles <- MCReadFiles
  Packages <- MCPackages
INVARIANTS
  OneOwner
  DecodedInPlace
  WholeOrRefused
  SoundIsTaken
PROPERTIES
  ImplementsChannel
  StopReleasesReader
