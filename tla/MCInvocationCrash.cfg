SPECIFICATION Spec
CONSTANTS
  a = a
  b = b
  c = c
  d = d
  e = e
  f = f
  Workflows <- MCParallelCrash
  SchedulerInitialize <- Initialize
  SchedulerEvaluate <- EvaluateEdges
  SchedulerCompleted <- AdvanceCompleted
  SchedulerBlocked <- AdvanceBlocked
  SchedulerSkip <- SkipReady
INVARIANT
  NothingLost
