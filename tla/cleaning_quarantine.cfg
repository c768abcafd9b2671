CONSTANTS
  None = None
  r1 = r1
  Runs = {r1}
  ApiRuns = {}
  ObjectRuns = {r1}
  InvalidRows = 2
  MaxTries = 1
  MaxRetries = 0
  Faults = {"quarantine"}
  MaxFaults = 1
SPECIFICATION Spec
INVARIANT RejectedKept
CHECK_DEADLOCK FALSE
