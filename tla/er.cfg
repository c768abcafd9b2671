CONSTANTS
  None = None
  Empty = Empty
  r1 = r1
  Runs = {r1}
  ConnectedRuns = {r1}
  Records = {1, 2, 3, 4}
  Initial = {1, 2, 3}
  Synthetic = {5, 6}
  Worlds <- MCWorlds
  MaxTries = 2
  MaxRetries = 1
  Faults = {"step", "output", "check", "checkpoint", "unreadable", "pg", "ambiguous", "sqlite", "kafka", "crash"}
  MaxFaults = 3
SPECIFICATION Spec
INVARIANTS TypeOK SameEntity GoldenPartition ReviewProposed ProposedOnce ResolvedOnce CompletedIsAnnounced CompletionIsLast ProductionSafe 
CHECK_DEADLOCK FALSE
