SPECIFICATION Spec

CONSTANTS
  BufferDepth = 1
  MaxRequests = 0
  MaxFragments = 0
  SendBuffer = 1
  RecvBuffer = 1
  Transfers = {}
  CanBreak = FALSE

INVARIANTS
  TransitionsIgnored
