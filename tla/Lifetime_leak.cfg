SPECIFICATION LifetimeSpec
CONSTANTS
  Ids = {r, w}
  r = r
  Wakes = {w}
  w = w
  MaxPending = 1
  MaxRestarts = 1
  DiskFails = TRUE
  MaxReloads = 1
  Talkers = {"chats", "voice"}
INVARIANT NothingArmedAfterClose
CHECK_DEADLOCK FALSE
