\* A run after another, in which one call fails or the app ends.
SPECIFICATION Spec
CONSTANTS
  Kinds = {"game", "update"}
  Versions = {1, 2}
  Gamecard = TRUE
  MaxRuns = 2
  Faults = {"open", "register", "ticket", "list", "delete", "remove", "set", "commit", "clear", "push", "launch", "invalidate", "killed", "cut"}
  MaxFaults = 2
INVARIANTS
  DoneIsUsable
  LaunchCoversUpdates
  RestIsExact
PROPERTIES
  OthersAreSpared
\* The runs are bounded: when they are over, everything stops.
CHECK_DEADLOCK FALSE
