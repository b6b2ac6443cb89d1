SPECIFICATION Spec
CONSTANTS
  Function <- MCFunction
  Variable <- MCVariable
  Alias = {}
  PieceOf <- MCPieceOf
  Helper = {"load"}
  Instantiate = "instantiate"
  Runtime = {"rt"}
  DataSegments = {"data"}
  Inputs <- MCInputs
  Commands <- MCCommands
INVARIANT ModuleNameHonoured
CHECK_DEADLOCK FALSE
