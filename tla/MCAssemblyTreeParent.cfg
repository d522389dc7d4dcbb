CONSTANTS
  Def <- MCDef
  Documents <- MCDocuments
  Suffix <- MCSuffix
  StrayPaths <- MCStrayPaths
SPECIFICATION Spec
INVARIANTS
  ParentResolved
CHECK_DEADLOCK FALSE
