\* Every source; a page that opens nothing, one that uploads and one that posts
\* addresses too; a card that may refuse to remove the task file.
SPECIFICATION Spec
CONSTANTS
  Packages = {p1, p2}
  p1 = p1
  p2 = p2
  Kinds = {"file", "url", "upload"}
  Pages = {{"start", "back", "target"}, {"start", "back", "target", "upload"}, {"start", "back", "target", "upload", "url"}}
  MaxRuns = 2
SYMMETRY PackageSymmetry
INVARIANTS
  TaskFileIsBacked
  TransferKeepsItsRun
  SourceOutlivesReader
  KeptIsOnFile
