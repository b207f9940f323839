CONSTANTS
  Room = 2
  SockRoom = 1
  MaxBacklog = 2
  MaxWakes = 2
SPECIFICATION CreditSpec
INVARIANT NeverStarves
CHECK_DEADLOCK FALSE
