SPECIFICATION Spec
CONSTANTS
  a = a
  b = b
  c = c
  d = d
  e = e
  f = f
  Workflows <- MCInvocation
  SchedulerInitialize <- Initialize
  SchedulerEvaluate <- EvaluateEdges
  SchedulerCompleted <- AdvanceCompleted
  SchedulerBlocked <- AdvanceBlocked
  SchedulerSkip <- SkipReady
INVARIANTS
  ExitsDecided
  NothingLost
  WaitsExact
  ContextsExact
  QuietAtEnd
  ScheduledOnce
  FanInComplete
  IterationsSequential
  RecoveryGated
PROPERTY
  ContinueKeepsBranches
