SPECIFICATION ChatSpec
CONSTANTS
  m1 = m1
  m2 = m2
  m3 = m3
  s1 = s1
  s2 = s2
  None = None
  Inputs = {m1, m2, m3}
  Wakes = {m2}
  Sessions = {s1, s2}
  Happens = {"reap", "delete", "shutdown", "failure"}
  InCap = 1
  OutCap = 1
INVARIANTS CalmChatIsWhole NothingRunsAfterShutdown AnsweredOnce
PROPERTIES CalmChatAnswers TranscriptRestsAfterShutdown ClosedChatEnds
\* Every message is submitted once, and a chat that was shut down stops.
CHECK_DEADLOCK FALSE
