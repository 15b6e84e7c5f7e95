SPECIFICATION MCSpec
CHECK_DEADLOCK FALSE
CONSTANTS
  MaxFiles = 4
  HostFiles = 1
  ShellSlots = 4
  ShellFiles = 1
  Programs = 2
INVARIANT CallsInMode
INVARIANT ShellHolds
INVARIANT ProgramGetsItsWords
INVARIANT TableHolds
INVARIANT FileHolds
INVARIANT ReadsRecord
PROPERTY SessionGoesOn
PROPERTY HostTurns
