SPECIFICATION MCSpec
CONSTANTS
  Null = Null
  InputSize = 3
  Statuses = {"fault"}
  InOrder = TRUE
INVARIANT RepliesToSender
INVARIANT OvertakenOnce
INVARIANT ClientsServed
PROPERTY AllAnswered
