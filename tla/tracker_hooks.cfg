CONSTANTS
  CleanRuns = {}
  ErRuns = {e1}
  KafkaRuns = {k1}
  ChainRuns = {}
  Workers = {w1}
  Poller = poller
  Steps <- OneStep
  TotalSteps = 1
  MaxRetries = 1
  MaxCrashes = 1
  LossyDisk = FALSE
  None = None
SPECIFICATION FairSpec
INVARIANT FailureExplained
PROPERTIES HistoryOnlyGrows RunSettles
