SPECIFICATION FairSpec
CONSTANTS
  control = control
  s1 = s1
  s2 = s2
  s3 = s3
  i1 = i1
  i2 = i2
  i3 = i3
  none = none
  NoInvocation = none
  Sequences = {}
  MinEnvelopeBytes = 1
  Keys <- MCKeys
  Invocations <- MCInvocations
  Envelopes <- MCStallEnvelopes
  Metadata <- MCStallMetadata
  Unserializable <- MCStallUnserializable
  Low = 2
  High = 6
  Hard = 10
  TakeLimit = 1
  BatchBytes = 4
  Scenarios <- MCStall
PROPERTIES
  EventuallySettled
CHECK_DEADLOCK FALSE
