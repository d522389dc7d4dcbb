CONSTANTS
  NumJobs = 5
  Shape <- MCShape
  Param <- MCParam
  ShapeOf <- MCShapeOf
  ParamsOf <- MCParamsOf
  NearEndThreshold = 3
SPECIFICATION FairSpec
INVARIANTS
  TypeOK
  ReturnSettlesAll
  TallyNeverTruncated
  ActiveIsRunning
  CountedJobFits
PROPERTIES
  RoutineWrittenOnce
  PromiseSpec
  CallReturns
\* The call returns and the system stops.
CHECK_DEADLOCK FALSE
