SPECIFICATION Spec
CONSTANTS
  Apis = {"link"}
  Entries <- Good
  MaxEntries = 2
  Environments <- EnvironmentSet
  Names <- MCNames
  HostName = "here"
  Available <- MCAvailable
INVARIANT SearchEnded
