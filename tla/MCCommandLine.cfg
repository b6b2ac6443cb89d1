SPECIFICATION MainSpec
CONSTANTS
  Threshold = {"unroll-threshold", "memssa-check-limit"}
  Setting = {"user"}
  Raised = "raised"
  Default = "default"
  MaxArgs = 4
INVARIANTS
  UsageErrorIsUsers
  UserThresholdsKept
CHECK_DEADLOCK FALSE
