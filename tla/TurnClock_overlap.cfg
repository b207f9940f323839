CONSTANTS
  c1 = c1
  c2 = c2
  turn = turn
  TurnCalls = {c1, c2}
  Guests = {}
  TurnCap = 4
  GuestCap = 3
  Horizon = 7
SPECIFICATION ClockSpec
INVARIANTS WaitingIsFree
CHECK_DEADLOCK FALSE
