CONSTANTS
  CleanRuns = {c1}
  ErRuns = {}
  KafkaRuns = {}
  ChainRuns = {h1}
  Workers = {w1}
  Poller = poller
  Steps <- OneStep
  TotalSteps = 1
  MaxRetries = 1
  MaxCrashes = 0
  LossyDisk = FALSE
  None = None
SPECIFICATION Spec
INVARIANT CompletionChains
