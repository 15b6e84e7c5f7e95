SPECIFICATION FairSpec

CONSTANTS
  BufferDepth = 1
  MaxRequests = 1
  MaxFragments = 1
  SendBuffer = 1
  RecvBuffer = 1
  Transfers = {"BootWrite", "Poke32"}
  CanBreak = TRUE

INVARIANTS
  NoReplyOwed
  ReplyComes

PROPERTIES
  CallsReturn
