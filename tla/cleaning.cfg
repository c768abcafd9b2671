CONSTANTS
  None = None
  r1 = r1
  Runs = {r1}
  ApiRuns = {r1}
  ObjectRuns = {r1}
  InvalidRows = 1
  MaxTries = 2
  MaxRetries = 1
  Faults = {"load", "step", "output", "check", "checkpoint", "unreadable", "quarantine", "pg", "ambiguous", "sqlite", "kafka", "crash"}
  MaxFaults = 1
SPECIFICATION Spec
INVARIANTS TypeOK StagedOnce WorkNotRepeated OneOrigin ProductionSafe CompletedIsStaged RejectedKeptUnlessRefused
PROPERTY KeepsContract
CHECK_DEADLOCK FALSE
