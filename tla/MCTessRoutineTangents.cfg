CONSTANTS
  Shapes <- MCShapes
  Wireframes <- MCWireframes
  AliasSteps = 3
  MaxRemeshPasses = 0
  MaxNull = 0
SPECIFICATION Spec
INVARIANTS
  JunctionTangentsAccumulate
CHECK_DEADLOCK FALSE
