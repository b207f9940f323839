\* A device that loses its connection in the middle of an approval, of a list or of a chat
\* and comes back; a terminal that opens a chat; the questions and the keyboard of a terminal.
SPECIFICATION DevicesSpec
CONSTANTS
  Asks = {a1}
  c1 = c1
  c2 = c2
  d1 = d1
  Conns = {c1, c2}
  Options = {once}
  Deny = deny
  NoConn = NoConn
  QueueCap = 1
  Devices = {d1}
  DeviceOf <- OneDevice
  World = {"presence", "cut", "stall"}
  Runs = {r1, r2}
  Kept = 1
  Screens = {s1}
  LineRoom = 1
  MaxStamps = 2
  MaxLines = 2
  MaxLooks = 1
  r1 = r1
  r2 = r2
  q1 = q1
  q2 = q2
  Questions = {q1, q2}
  Kinds = {"phone", "terminal"}
  Rounds = 2
  OutRoom = 1
  FeedRoom = 1
  MaxOpens = 2
  MaxNotices = 1
  k1 = k1
  k2 = k2
  Asking = {k1, k2}
  Talks = {x1}
  Fires = {x2}
  ClearRoom = 1
  MaxKeys = 4
  FewKeys = 1
INVARIANTS ActiveSeesOpen ListsHold ConversationHolds TerminalHolds
\* Every Ask returns once, and the bounded parts stop at their bounds.
CHECK_DEADLOCK FALSE
