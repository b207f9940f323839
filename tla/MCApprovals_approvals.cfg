\* Two devices race for one approval while broadcasts fill their queues; and three kinds of run
\* ask one gate for the same host while its grants come and go.
CONSTANTS
  Asks = {a1}
  c1 = c1
  c2 = c2
  d1 = d1
  d2 = d2
  Conns = {c1, c2}
  Options = {once}
  Deny = deny
  NoConn = NoConn
  QueueCap = 1
  Devices = {d1, d2}
  DeviceOf <- TwoDevices
  World = {"broadcast", "cancel"}
  chat = chat
  voice = voice
  brash = brash
  api = api
  gApi = gApi
  gAll = gAll
  Actions = {api}
  Grants = {gApi, gAll}
  Covers <- MCCovers
  Exact <- MCExact
  Suggest <- MCSuggest
  Workers = {chat, voice, brash}
  Unattended = {}
  Policy <- MCPolicy
  Careless = {brash}
  WritesFail = TRUE
SPECIFICATION ApprovalSpec
INVARIANTS ApprovedByPerson PassesRestOnAYes AnswersHold GrantsEnd
PROPERTIES ImplementsApprover AskReturns
\* Every Ask returns once and connections are not reopened: the system may stop.
CHECK_DEADLOCK FALSE
