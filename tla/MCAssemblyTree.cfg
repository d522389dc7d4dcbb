CONSTANTS
  Def <- MCDef
  Documents <- MCDocuments
  Suffix <- MCSuffix
  StrayPaths <- MCStrayPaths
SPECIFICATION Spec
INVARIANTS
  TypeOK
  PassesAgree
  EveryOccurrenceOnce
  LinksMatch
  PathsDistinct
\* The calls return and the system stops.
CHECK_DEADLOCK FALSE
