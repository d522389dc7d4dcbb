CONSTANTS
  Inputs <- MCInputs
  Limits <- MCLimits
SPECIFICATION FairSpec
INVARIANTS
  TypeOK
  LimitKept
  PiecesShowCurves
  ChunksArePieces
PROPERTIES
  Ends
\* The call returns and the system stops.
CHECK_DEADLOCK FALSE
