CONSTANTS
  Kinds = {"batch", "data", "faulty", "malformed"}
  BatchSize = 2
  MaxLog = 4
  MaxReplays = 1
  PublishFails = FALSE
  QuarantineFails = FALSE
  Faults = {}
  MaxFaults = 0
SPECIFICATION FairSpec
INVARIANT TypeOK
PROPERTY Delivers
CHECK_DEADLOCK FALSE
