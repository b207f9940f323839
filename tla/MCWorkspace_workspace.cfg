CONSTANTS
  Ids = {r, w}
  r = r
  Wakes = {w}
  w = w
  MaxPending = 1
  MaxRestarts = 1
  DiskFails = TRUE
  MaxReloads = 1
  Talkers = {"chats", "voice"}
  MaxSwaps = 4
  Callbacks = {k1, k2}
  Requests = {q1, q2}
  MaxConsents = 1
  MaxTurns = 3
  MaxPasses = 2
  Conns = {x1, x2}
  e1 = e1
  Installable = {e1}
  Package <- MCPackage
  MaxCommands = 3
SPECIFICATION WorkspaceSpec
INVARIANTS TimersHold PluginsOutliveTurns OnlyLateTimersRemain OneGeneration CredentialHolds ExtensionsHold
PROPERTIES EveryTimerGoesOff SchedulerCatchesUp BackgroundEnds
\* A workspace that is closed has nothing left to do; credentials and folders stop at their bounds.
CHECK_DEADLOCK FALSE
