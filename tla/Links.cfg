SPECIFICATION Spec
\* Packets of a header of three bytes and at most two more, two of them.
CONSTANTS
  Header = 3
  MaxSize = 5
  Frag = 3
  Codes = {1, 3}
  Replies = {2, 3, 9}
  Lengths = {3, 4, 6}
  MaxPackets = 2
  MaxCode = 4
  Counts = {0, 1, 3}
  Timeouts = {0, 1, 2}
  Threshold = 5
  MaxLost = 4
  MaxVme = 2
  Word = 64
  Delays = {1, 3}
  Kinds = {16, 32}
  B = 2
  Values = {0, 1}
  MaxWords = 2
  MaxLate = 1
  TcpCounts = {1, 5}
  TcpTimeouts = {1, 4}
  TcpFrag = 2
  MaxMessages = 1
  MaxLeaked = 1
  SocketSizes = {1, 3}
  MaxBytes = 4
INVARIANT PacketsInOrder
INVARIANT BoardsRight
INVARIANT WordsRight
INVARIANT StreamsRight
PROPERTY CallsEnd
