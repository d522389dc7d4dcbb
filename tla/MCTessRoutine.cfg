CONSTANTS
  Shapes <- MCShapes
  Wireframes <- MCWireframes
  AliasSteps = 3
  MaxRemeshPasses = 1
  MaxNull = 1
SPECIFICATION Spec
INVARIANTS
  TypeOK
  AliasesFollowed
  CornersHavePoints
  WeldedAcrossEdges
  CornersInPlace
  BoundaryDataInPlace
  CurvesTraceEdges
PROPERTIES
  RoutineReturns
\* The call returns and the routine stops.
CHECK_DEADLOCK FALSE
