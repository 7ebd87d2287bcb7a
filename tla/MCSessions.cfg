SPECIFICATION Spec
CONSTANTS
  None = None
  Restored = Restored
  Invokers = {c1, c2}
  Resumers = {r1}
  Scenarios <- MCScenarios
  RecoveryInterval = 2
  BatchLimit = 2
INVARIANTS
  OneActiveUntilReplaced
  ActiveReachable
  EvictedDurable
  NoResurrection
  NeverHalts
  RebuildExact
SYMMETRY MCSymmetry
CHECK_DEADLOCK FALSE
