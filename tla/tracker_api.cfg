CONSTANTS
  CleanRuns = {c1}
  ErRuns = {}
  KafkaRuns = {}
  ChainRuns = {h1}
  Workers = {w1, w2}
  Poller = poller
  Steps <- TwoSteps
  TotalSteps = 1
  MaxRetries = 3
  MaxCrashes = 1
  LossyDisk = FALSE
  None = None
SPECIFICATION Spec
INVARIANTS TypeOK AtMostOneAttempt AttemptsCounted
PROPERTY CompletedIsFinal
