SPECIFICATION Spec
CONSTANTS
  Function <- MCFunction
  Variable <- MCVariable
  Alias = {}
  PieceOf <- MCPieceOf
  Helper = {"load"}
  Instantiate = "instantiate"
  Runtime = {"rt"}
  DataSegments = {"data"}
  Inputs <- MCInputs
  Commands <- MCCommands
INVARIANTS
  StaysDeobfuscated
  InstanceOfProcessed
  OutputIsRight
  FailsOnlyOnNames
PROPERTY Ends
CHECK_DEADLOCK FALSE
