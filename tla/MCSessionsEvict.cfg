SPECIFICATION Spec
CONSTANTS
  None = None
  Restored = Restored
  Invokers = {c1, c2}
  Resumers = {r1}
  Scenarios <- MCSlow
  RecoveryInterval = 2
  BatchLimit = 2
INVARIANT RetainedUntilDurable
SYMMETRY MCSymmetry
CHECK_DEADLOCK FALSE
