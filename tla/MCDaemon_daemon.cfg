SPECIFICATION DaemonSpec
CONSTANTS
  Readers = {r1, r2}
  Folders = {f1, f2}
  MaxDials = 3
  MaxArms = 4
  Phones = {d1, d2}
  Default = "default"
  Others = {"work"}
  MaxOpens = 5
  MaxStarts = 1
  Limit = 2
  MaxDepth = 2
  MaxSpawns = 2
  MaxSteps = 2
  MaxRound = 2
  MaxCalls = 2
  c1 = c1
  c2 = c2
  turn = turn
  TurnCalls = {c1, c2}
  Guests = {c1}
  TurnCap = 2
  GuestCap = 1
  Horizon = 3
  MaxRows = 3
  Sockets = {s1, s2}
  MaxPending = 1
  MaxCallers = 2
  MaxTries = 1
  MaxDowns = 1
  Documents = 2
  Contents = {"x", "y"}
  MaxEdits = 2
  MaxReopens = 1
  l1 = l1
  l2 = l2
  Lookups = {l1, l2}
  MaxSerial = 2
  Unfit = {}
  MaxRestarts = 1
  home = home
  Apps = {p1}
  Askers = {o1}
  SpaceNames = {home, den}
  Home = home
  Domains = {"skills", "servers", "plugins", "grants", "reminders", "agents"}
  InboxRoom = 1
  MaxChanges = 2
  MaxOrders = 1
  MaxSockets = 2
  MaxVisits = 1
INVARIANTS
  RegistryHolds TurnHolds
  ClockHolds
  HouseholdHolds
  KnowledgeHolds
  LibraryHolds MirrorsHold
PROPERTY MailboxHolds
\* Bounded parts that reach their bounds stop there.
CHECK_DEADLOCK FALSE
