SPECIFICATION MCSpec
CONSTANTS
  control = control
  session = session
  i1 = i1
  i2 = i2
  none = none
  Keys <- MCKeys
  Invocations <- MCInvocations
  NoInvocation = none
  Envelopes <- MCEnvelopes
  Sequences = {1}
  Low = 4
  High = 8
  Hard = 10
  MinEnvelopeBytes = 1
  TakeLimit = 2
INVARIANTS
  ReadyExact
  QueuedExact
  OutstandingExact
  BytesExact
  NewestSnapshotKept
