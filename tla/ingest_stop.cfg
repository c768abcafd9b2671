CONSTANTS
  Kinds = {"batch", "data"}
  BatchSize = 2
  MaxLog = 2
  MaxReplays = 0
  PublishFails = FALSE
  QuarantineFails = FALSE
  Faults = {"stop"}
  MaxFaults = 1
SPECIFICATION Spec
INVARIANT NothingSkipped
CHECK_DEADLOCK FALSE
