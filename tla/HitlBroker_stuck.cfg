\* Liveness when the link may be cut.
CONSTANTS
  Asks = {a1}
  c1 = c1
  d1 = d1
  Conns = {c1}
  Devices = {d1}
  DeviceOf <- OneConn
  Options = {once}
  Deny = deny
  NoConn = NoConn
  QueueCap = 1
  World = {"broadcast", "cut"}
SPECIFICATION BrokerFairSpec
PROPERTIES AskReturns
\* Every Ask returns once and connections are not reopened: the system may stop.
CHECK_DEADLOCK FALSE
