SPECIFICATION Spec
CONSTANTS
  None = None
  Restored = Restored
  Invokers = {c1, c2, c3}
  Resumers = {}
  Scenarios <- MCOld
  RecoveryInterval = 2
  BatchLimit = 2
INVARIANT OneActivePerSession
SYMMETRY MCSymmetry
CHECK_DEADLOCK FALSE
