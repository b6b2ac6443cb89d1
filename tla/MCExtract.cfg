SPECIFICATION Spec
CONSTANTS
  Function <- MCFunction
  Variable <- MCVariable
  Alias <- MCAlias
  PieceOf <- MCPieceOf
  Modules <- MCModules
  Requests <- MCRequests
INVARIANTS
  ClosureInv
  ResultIsExtracted
  FailureIsClean
  NothingDangles
  RecursiveIsSelfContained
PROPERTY Returns
CHECK_DEADLOCK FALSE
