CONSTANTS
  rod = rod
  gear = gear
  bolt = bolt
  Jobs <- MCJobs
  Paths <- MCPaths
  NoVariant = ""
  Prims <- MCPrims
  Child <- MCChild
  Found <- MCFound
  Earlier = 0
  Inactive <- MCInactive
SPECIFICATION Spec
INVARIANTS
  TypeOK
  SelectedWritten
PROPERTIES
  UnselectedKept
\* The call returns and the system stops.
CHECK_DEADLOCK FALSE
