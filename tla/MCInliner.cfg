SPECIFICATION FairSpec
CONSTANTS
  Func <- MCFunc
  Site <- MCSite
  Owner <- MCOwner
  Root = "root"
  Programs <- MCPrograms
  Paths <- MCPaths
  MaxDepth = 3
  MaxCalls = 3
INVARIANTS
  WorklistLive
  ResultIsUnfolded
  EndsOnlyIfItCan
PROPERTIES
  ImplementsContract
  Terminates
CHECK_DEADLOCK FALSE
