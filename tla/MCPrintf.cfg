CONSTANTS
  IntMaxBound = 12
  IntMax = 12
  NL_ARGMAX = 3
  FloatLens = {2}
  Unset = Unset
  Formats <- TheFormats
  Values <- TheValues
SPECIFICATION Spec
INVARIANTS
  CountsRight
  ArgumentsRight
PROPERTY Ends
CHECK_DEADLOCK FALSE
