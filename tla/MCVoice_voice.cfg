CONSTANTS
  Lines = {l1, l2}
  MaxTalks = 3
  ToolCalls = {k1, k2}
  Room = 2
  SockRoom = 1
  MaxBacklog = 2
  MaxWakes = 2
  SatDepth = 2
  MaxSentences = 1
  SatLossy = FALSE
SPECIFICATION VoiceSpec
INVARIANTS TalkHolds CallsHold CreditHolds SatelliteHolds
PROPERTIES TalksEndOnClose ConversationEnds BoardIsReleased
\* Conversations end, and nobody has to begin another.
CHECK_DEADLOCK FALSE
