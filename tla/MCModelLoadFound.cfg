CONSTANTS
  Prims <- MCPrims
  Asset <- MCAsset
  Authored <- MCAuthored
SPECIFICATION Spec
INVARIANTS
  EveryReferenceFound
CHECK_DEADLOCK FALSE
