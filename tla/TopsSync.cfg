SPECIFICATION Spec

CONSTANTS
  BufferDepth = 1
  MaxRequests = 1
  MaxFragments = 2
  SendBuffer = 2
  RecvBuffer = 1
  Transfers = {"BootWrite", "Poke32", "Peek32"}
  CanBreak = FALSE

INVARIANTS
  TypeOK
  ModeAgreement
  CommandInMode
  DetectAgreement
  NoPanic
  ClosedIsClean
