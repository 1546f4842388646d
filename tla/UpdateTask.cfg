\* Two releases appear, at a host that replaces its files one at a time.
SPECIFICATION FairSpec
CONSTANT MaxRelease = 2
INVARIANTS
  OfferIsNotBehind
PROPERTY SpinnerEnds
\* The app ends, and everything stops.
CHECK_DEADLOCK FALSE
