\* A turn calls a tool, and a notification reaches the terminal that watches it.
SPECIFICATION ConversationSpec
CONSTANTS
  Questions = {q1}
  Kinds = {"terminal"}
  Rounds = 2
  OutRoom = 1
  FeedRoom = 1
  MaxOpens = 1
  MaxNotices = 1
INVARIANT WatchedIsReopened
CHECK_DEADLOCK FALSE
