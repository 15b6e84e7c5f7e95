SPECIFICATION Spec

CONSTANTS
  BufferDepth = 1
  MaxRequests = 3
  MaxFragments = 0
  SendBuffer = 1
  RecvBuffer = 2
  Transfers = {}
  CanBreak = FALSE

INVARIANTS
  QueueBound

PROPERTIES
  LossIsReported
  StreamOfRequests
