CONSTANTS
  Prims <- MCPrims
  Asset <- MCAsset
  Authored <- MCAuthored
SPECIFICATION FairSpec
INVARIANTS
  TypeOK
  SelectionsRestored
  EveryCombinationOnce
PROPERTIES
  ScanEnds
\* The call returns and the system stops.
CHECK_DEADLOCK FALSE
