SPECIFICATION MCSpec
CONSTANTS
  Apis = {"ops", "link"}
  Entries <- AnyRecord
  MaxEntries = 3
  Environments <- AllEnvironments
  Names <- MCNames
  HostName = "here"
  Available <- MCAvailable
INVARIANT TriesInOrder
INVARIANT OpensRight
PROPERTY ExhaustedMeansAll
PROPERTY OpenReturns
