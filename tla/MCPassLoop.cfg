SPECIFICATION CachedSpec
CONSTANTS
  Body <- MCBody
  Libraries <- MCLibraries
  Analysis = {"analysis"}
  Views <- MCViews
  Nothing = Nothing
INVARIANTS
  NoMBALeft
  EndsAtFixedPoint
  StaleIsKnown
PROPERTY Terminates
CHECK_DEADLOCK FALSE
