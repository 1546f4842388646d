SPECIFICATION Spec
CONSTANTS
    b1 = b1
    b2 = b2
    b2x = b2x
    h1 = h1
    h2 = h2
    Builds <- MCBuilds
    Version <- MCVersion
    Releases <- MCReleases
    None = None
    NoGame = NoGame
    Other = Other
CHECK_DEADLOCK TRUE
INVARIANTS
  OffersWhatThereIs
PROPERTIES
  WritesTheGamesBuild
