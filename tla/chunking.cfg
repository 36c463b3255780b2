\* Every short body, cut with the largest overlap for which the cut loop must end.
SPECIFICATION FairSpec
CONSTANTS
  Bodies <- MCBodies
  MaxChars = 6
  Overlap = 3
INVARIANTS
  TypeOK
  NothingLost
  PiecesFit
  InReadingOrder
PROPERTIES
  CutsShorten
  Terminates
\* The function returns.
CHECK_DEADLOCK FALSE
