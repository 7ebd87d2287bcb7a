SPECIFICATION FairSpec
CONSTANTS
  map = map
  single = single
  Executions <- MCExecutions
  Units <- MCUnits
  Candidates <- MCCandidates
  MaxAttempts = 2
  AttemptLimit <- MCAttemptLimit
  Parallelism = 2
  Threads = 1
  SlotLimit = 1
  Timeouts = TRUE
INVARIANTS
  SlotsExact
  QueueExact
  QuietAfterAnswer
  CompletedWhole
PROPERTY
  EventuallyAnswered
CHECK_DEADLOCK FALSE
