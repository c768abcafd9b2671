CONSTANTS
  Kinds = {"batch", "malformed", "nonobject"}
  BatchSize = 2
  MaxLog = 2
  MaxReplays = 1
  PublishFails = TRUE
  QuarantineFails = TRUE
  Faults = {"evict", "crash", "stop", "update"}
  MaxFaults = 3
SPECIFICATION Spec
INVARIANTS OnlyInterruptedSkipped RedeliveryBounded ReplayMeansPublished
CHECK_DEADLOCK FALSE
