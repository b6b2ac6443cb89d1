SPECIFICATION MainSpec
CONSTANTS
  Threshold = {"unroll-threshold", "memssa-check-limit"}
  Setting = {"user"}
  Raised = "raised"
  Default = "default"
  MaxArgs = 4
INVARIANT OverrideHonoured
CHECK_DEADLOCK FALSE
