SPECIFICATION MCSpec
CONSTANTS
  Null = Null
  NoNode = NoNode
  Procs <- Five
  Host = 0
  Wires <- Pairs
  InputOf <- SquareIn
  OutputOf <- SquareOut
  LongMax = 300
  Counted = TRUE
  Rounds = 3
INVARIANT RoundsRight
INVARIANT ListsRestored
INVARIANT BootedRight
PROPERTY NetworksGoOn
