----------------------------- MODULE Voice_proofs -----------------------------
(*****************************************************************************)
(* Proofs about a spoken conversation: its sessions, its tool calls, the flow*)
(* of its speech, and the satellite.                                         *)
(*****************************************************************************)
EXTENDS VoiceSessions, VoiceCalls, SpeechCredit, Satellite, FiniteSetTheorems, SequenceTheorems, TLAPS

-----------------------------------------------------------------------------
(*****************************************************************************)
(* The sessions of a device.                                                 *)
(*****************************************************************************)

LEMMA StartedAreCounted == Cardinality(Started) \in Nat
<1>1. IsFiniteSet(1..MaxTalks)
  BY VoiceAssumption, FS_Interval
<1> QED
  BY <1>1, FS_Subset, FS_CardinalityType DEF Started, Talks

LEMMA InstallEffect ==
  ASSUME TalkHolds, NEW c \in Lines, Install(c), lineAt[c] \in {"reading", "starting"},
         UNCHANGED <<talkCancelled, talkClosed, talkShutdown, lineWaits>>
  PROVE  TalkHolds'
<1> USE VoiceAssumption DEF TalkHolds
<1>1. CASE talkClosed
  BY <1>1 DEF Install, GoesTo, TalkTypeOK, RunningIsReachable
<1>2. CASE ~talkClosed
  <2>1. talkActive' \in Talks /\ talkAt' = [talkAt EXCEPT ![talkActive'] = "running"]
    BY <1>2, StartedAreCounted DEF Install, Talks
  <2>2. TalkTypeOK'
    BY <1>2, <2>1 DEF Install, GoesTo, TalkTypeOK, Talks
  <2>3. ASSUME talkApart', NEW t \in Talks, talkAt'[t] = "running", t # talkActive' PROVE t \in talkCancelled'
    <3>1. talkApart /\ talkActive = 0 /\ talkAt[t] = "running"
      BY <1>2, <2>1, <2>3 DEF Install, TalkTypeOK
    <3> QED
      BY <3>1, <2>3 DEF RunningIsReachable, Talks
  <2> QED
    BY <2>2, <2>3 DEF RunningIsReachable
<1> QED
  BY <1>1, <1>2

LEMMA LineStepHolds ==
  ASSUME TalkHolds, NEW c \in Lines,
         Connects(c) \/ WakeFresh(c) \/ WakeAgain(c) \/ EndsTalk(c) \/ Leaves(c) \/ LineStep(c)
  PROVE  TalkHolds'
<1> USE DEF TalkHolds, GoesTo, TalkTypeOK
<1>1. CASE Connects(c) \/ WakeAgain(c) \/ EndsTalk(c)
  BY <1>1 DEF Connects, WakeAgain, EndsTalk, RunningIsReachable
<1>2. CASE Leaves(c)
  BY <1>2 DEF Leaves, RunningIsReachable
<1>3. CASE WakeFresh(c)
  BY <1>3, InstallEffect DEF WakeFresh
<1>4. CASE TakeEntry(c)
  BY <1>4 DEF TakeEntry, RunningIsReachable, Talks
<1>5. CASE Stopped(c)
  <2>1. After(lineAt[c]) \in {"starting", "reading", "gone"}
    BY <1>5 DEF Stopped, After
  <2> QED
    BY <1>5, <2>1, VoiceAssumption DEF Stopped, RunningIsReachable
<1>6. CASE StartInstalls(c)
  BY <1>6, InstallEffect DEF StartInstalls
<1> QED
  BY <1>1, <1>2, <1>3, <1>4, <1>5, <1>6 DEF LineStep

LEMMA TalkStepHolds ==
  ASSUME TalkHolds, NEW t \in Talks, RunReturns(t) \/ TalkStep(t) PROVE TalkHolds'
<1>1. TalkTypeOK'
  BY VoiceAssumption DEF TalkHolds, TalkTypeOK, RunReturns, TalkStep, ClearEntry, Over
<1>2. talkApart' = talkApart /\ \A u \in Talks : talkAt'[u] = "running" => talkAt[u] = "running" /\ u # t
  BY DEF TalkHolds, TalkTypeOK, RunReturns, TalkStep, ClearEntry, Over
<1>3. talkCancelled \subseteq talkCancelled' /\ (talkActive' = talkActive \/ talkActive = t)
  BY DEF RunReturns, TalkStep, ClearEntry, Over
<1> QED
  BY <1>1, <1>2, <1>3 DEF TalkHolds, RunningIsReachable

\* As long as no restart writes over another connection's conversation, whatever runs
\* can be stopped, for any number of connections and conversations.
THEOREM TalkAlwaysHolds == TalkSpec => []TalkHolds
<1>1. TalkInit => TalkHolds
  <2> SUFFICES ASSUME TalkInit PROVE TalkHolds
    OBVIOUS
  <2>1. talkAt \in [Talks -> {"none", "running", "returned", "untracked", "over"}]
    BY DEF TalkInit
  <2>2. lineAt \in [Lines -> {"away", "reading", "restarting", "starting", "stopping", "leaving", "gone"}]
        /\ lineWaits \in [Lines -> 0..MaxTalks]
    BY VoiceAssumption DEF TalkInit
  <2>3. TalkTypeOK
    <3>1. talkCancelled \subseteq Talks /\ talkActive \in 0..MaxTalks
      BY VoiceAssumption DEF TalkInit
    <3>2. talkClosed \in BOOLEAN /\ talkApart \in BOOLEAN /\ talkShutdown \in {"no", "waiting", "returned"}
      BY DEF TalkInit
    <3> QED
      BY <2>1, <2>2, <3>1, <3>2 DEF TalkTypeOK
  <2> QED
    BY <2>3 DEF TalkInit, TalkHolds, RunningIsReachable
<1>2. TalkHolds /\ [TalkNext]_talkVars => TalkHolds'
  <2> SUFFICES ASSUME TalkHolds, [TalkNext]_talkVars PROVE TalkHolds'
    OBVIOUS
  <2>1. CASE CloseTalks \/ TalksClosed
    <3>1. CASE CloseTalks
      <4>1. TalkTypeOK'
        BY <3>1, VoiceAssumption DEF CloseTalks, TalkHolds, TalkTypeOK, Talks
      <4>2. talkApart => \A t \in Talks : talkAt[t] = "running" => t \in talkCancelled \cup ({talkActive} \ {0})
        BY VoiceAssumption DEF TalkHolds, RunningIsReachable, Talks
      <4> QED
        BY <3>1, <4>1, <4>2 DEF CloseTalks, TalkHolds, RunningIsReachable
    <3>2. CASE TalksClosed
      BY <3>2 DEF TalksClosed, TalkHolds, TalkTypeOK, RunningIsReachable
    <3> QED
      BY <2>1, <3>1, <3>2
  <2>2. CASE UNCHANGED talkVars
    BY <2>2 DEF talkVars, TalkHolds, TalkTypeOK, RunningIsReachable
  <2> QED
    BY <2>1, <2>2, LineStepHolds, TalkStepHolds DEF TalkNext
<1> QED
  BY <1>1, <1>2, PTL DEF TalkSpec

-----------------------------------------------------------------------------
(*****************************************************************************)
(* Tool calls and the silence timer.                                         *)
(*****************************************************************************)

\* Whatever is withdrawn, decided and answered around it, the silence timer hangs up on no
\* call that was in the table when it was started, or made since.
THEOREM CallsAlwaysHold == CallSpec => []CallsHold
<1>1. CallInit => CallsHold
  BY DEF CallInit, CallsHold, CallTypeOK, SilenceIsSilent, UnderWay
<1>2. CallsHold /\ [CallNext]_callVars => CallsHold'
  <2> SUFFICES ASSUME CallsHold, [CallNext]_callVars PROVE CallsHold'
    OBVIOUS
  <2> USE DEF CallsHold, CallTypeOK
  <2>1. ASSUME NEW k \in ToolCalls, CallMade(k) PROVE CallsHold'
    BY <2>1 DEF CallMade, CallGoes, SilenceIsSilent, UnderWay
  <2>2. ASSUME NEW k \in ToolCalls, CallStep(k) PROVE CallsHold'
    <3>1. CallTypeOK'
      BY <2>2 DEF CallStep, CallGoes, Register, AskPerson, AskReturns, ToolAnswers, DropAnswer, KeepAnswer,
         SendAnswer, UnderWay
    <3>2. CallsInHand' \subseteq CallsInHand /\ UNCHANGED <<silence, overlooked>>
      BY <2>2 DEF CallStep, CallGoes, Register, AskPerson, AskReturns, ToolAnswers, DropAnswer, KeepAnswer,
         SendAnswer, UnderWay, CallsInHand
    <3> QED
      BY <3>1, <3>2 DEF SilenceIsSilent
  <2>3. ASSUME NEW ids \in SUBSET ToolCalls, CallsCancelled(ids) PROVE CallsHold'
    BY <2>3 DEF CallsCancelled, SilenceIsSilent
  <2>4. CASE TurnDone
    BY <2>4 DEF TurnDone, CallsInHand, SilenceIsSilent
  <2>5. CASE SignOfLife \/ SilenceEnds \/ LoopReturns
    BY <2>5 DEF SignOfLife, SilenceEnds, LoopReturns, SilenceIsSilent
  <2>6. CASE RunOver \/ UNCHANGED callVars
    BY <2>6 DEF RunOver, callVars, CallsInHand, SilenceIsSilent
  <2> QED
    BY <2>1, <2>2, <2>3, <2>4, <2>5, <2>6 DEF CallNext
<1> QED
  BY <1>1, <1>2, PTL DEF CallSpec

-----------------------------------------------------------------------------
(*****************************************************************************)
(* The credit for speech.                                                    *)
(*****************************************************************************)

(* In a conversation that began with nothing left, three things may be so: the two sides    *)
(* agree on it and every frame's worth of the ring is somewhere; its wake, with the whole   *)
(* ring behind it, is on its way, and nothing else is; or the wake was lost with the link.  *)
AtDaemon(r) == r["credit"] + r["hand"] + r["late"]
OnTheLink(r) == r["queue"] + r["wire"] + r["grants"] + r["behind"]
OnTheBoard(r) == r["ring"] + r["codec"] + r["freed"] + r["taken"]
Gone(r) == r["cut"] + r["missed"]
Total(r) == AtDaemon(r) + OnTheLink(r) + OnTheBoard(r) + Gone(r)
OnTheMove == {"hand", "late", "queue", "wire", "ring", "codec", "freed", "taken", "grants"}
Still == (\A p \in OnTheMove : room[p] = 0) /\ ~talkOpen /\ (backlog = 0 \/ room["credit"] = 0)
Agreed == ~wakeSent /\ Total(room) = Room
Woken == wakeSent /\ Still /\ room["behind"] = Room /\ room["cut"] = 0 /\ room["missed"] = 0
Lost == ~wakeSent /\ ~boardIn /\ Still /\ room["behind"] = 0
Balanced == clean => Agreed \/ Woken \/ Lost

FlagsOK == {talkOpen, boardIn, wakeSent, linked, flushDue, clean, overflowed} \subseteq BOOLEAN
Limits == room["hand"] <= 1 /\ room["codec"] <= 1 /\ room["queue"] <= SockRoom /\ room["ring"] <= Room
AmountsOK == room \in [Places -> Nat] /\ backlog \in Nat /\ wakes \in 0..MaxWakes

CreditInv == AmountsOK /\ FlagsOK /\ Limits /\ Balanced /\ NeverOverflows

(* A move takes room from one place to another, and loses none. *)
LEMMA MoveKeeps ==
  ASSUME room \in [Places -> Nat], NEW from \in Places, NEW to \in Places, from # to, NEW n \in Nat, Move(from, to, n)
  PROVE  /\ room' \in [Places -> Nat] /\ n > 0 /\ room[from] >= n
         /\ room'[from] = room[from] - n /\ room'[to] = room[to] + n
         /\ \A p \in Places : p # from /\ p # to => room'[p] = room[p]
<1>1. room[from] \in Nat /\ room[to] \in Nat /\ room[from] >= n /\ n > 0
  BY DEF Move
<1>2. room[from] - n \in Nat /\ room[to] + n \in Nat
  BY <1>1
<1>3. room' = [room EXCEPT ![from] = @ - n, ![to] = @ + n]
  BY DEF Move
<1> QED
  BY <1>1, <1>2, <1>3

LEMMA MoveKeepsTotal ==
  ASSUME room \in [Places -> Nat], NEW from \in Places, NEW to \in Places, from # to, NEW n \in Nat, Move(from, to, n)
  PROVE  Total(room') = Total(room)
<1>1. \A p \in Places : room'[p] = IF p = from THEN room[p] - n ELSE IF p = to THEN room[p] + n ELSE room[p]
  BY MoveKeeps
<1>2. \A p \in Places : room[p] \in Nat
  OBVIOUS
<1> DEFINE by(p) == (IF p = to THEN n ELSE 0) - (IF p = from THEN n ELSE 0)
<1>3. \A p \in Places : by(p) \in Int /\ room'[p] = room[p] + by(p)
  BY <1>1, <1>2
<1>4. by("credit") + by("hand") + by("late") + by("queue") + by("wire") + by("grants") + by("behind")
      + by("ring") + by("codec") + by("freed") + by("taken") + by("cut") + by("missed") = 0
  BY DEF Places
<1> HIDE DEF by
<1>5. /\ AtDaemon(room') = AtDaemon(room) + (by("credit") + by("hand") + by("late"))
      /\ AtDaemon(room) \in Int /\ by("credit") + by("hand") + by("late") \in Int
  BY <1>2, <1>3 DEF Places, AtDaemon
<1>6. /\ OnTheLink(room') = OnTheLink(room) + (by("queue") + by("wire") + by("grants") + by("behind"))
      /\ OnTheLink(room) \in Int /\ by("queue") + by("wire") + by("grants") + by("behind") \in Int
  BY <1>2, <1>3 DEF Places, OnTheLink
<1>7. /\ OnTheBoard(room') = OnTheBoard(room) + (by("ring") + by("codec") + by("freed") + by("taken"))
      /\ OnTheBoard(room) \in Int /\ by("ring") + by("codec") + by("freed") + by("taken") \in Int
  BY <1>2, <1>3 DEF Places, OnTheBoard
<1>8. /\ Gone(room') = Gone(room) + (by("cut") + by("missed"))
      /\ Gone(room) \in Int /\ by("cut") + by("missed") \in Int
  BY <1>2, <1>3 DEF Places, Gone
<1>9. (by("credit") + by("hand") + by("late")) + (by("queue") + by("wire") + by("grants") + by("behind"))
      + (by("ring") + by("codec") + by("freed") + by("taken")) + (by("cut") + by("missed")) = 0
  BY <1>3, <1>4 DEF Places
<1> QED
  BY <1>5, <1>6, <1>7, <1>8, <1>9 DEF Total

(* What moves was somewhere, so the conversation is one that both sides know. *)
LEMMA MoveIsBalanced ==
  ASSUME CreditInv, NEW from \in OnTheMove, NEW to \in Places, from # to, NEW n \in Nat, Move(from, to, n), Steady
  PROVE  Balanced' /\ (clean => Agreed)
<1>1. room \in [Places -> Nat] /\ from \in Places
  BY DEF CreditInv, AmountsOK, OnTheMove, Places
<1>2. room[from] > 0 /\ Total(room') = Total(room)
  BY <1>1, MoveKeeps, MoveKeepsTotal
<1>3. clean => Agreed
  BY <1>2 DEF CreditInv, Balanced, Woken, Lost, Still
<1> QED
  BY <1>2, <1>3 DEF Steady, Balanced, Agreed

(* The moves, but for the first. *)
LEMMA MoveStep ==
  ASSUME CreditInv, Steady, UNCHANGED <<backlog, overflowed>>,
         NEW from \in OnTheMove, NEW to \in Places, from # to, NEW n \in Nat, Move(from, to, n),
         to = "queue" => n = 1 /\ room["queue"] < SockRoom, to = "ring" => n = 1 /\ room["ring"] < Room,
         to = "codec" => n = 1 /\ room["codec"] = 0, to # "hand"
  PROVE  CreditInv'
<1>1. AmountsOK /\ FlagsOK /\ Limits /\ from \in Places
  BY DEF CreditInv, OnTheMove, Places
<1>2. /\ room' \in [Places -> Nat] /\ room'[from] = room[from] - n /\ room'[to] = room[to] + n
      /\ \A p \in Places : p # from /\ p # to => room'[p] = room[p]
  BY <1>1, MoveKeeps DEF AmountsOK
<1>3. AmountsOK' /\ FlagsOK'
  BY <1>1, <1>2 DEF AmountsOK, FlagsOK, Steady
<1>4. \A p \in Places : p # to => room'[p] <= room[p]
  BY <1>1, <1>2 DEF AmountsOK
<1>5. Limits'
  <2>1. {"hand", "codec", "queue", "ring"} \subseteq Places /\ \A p \in Places : room[p] \in Nat
    BY <1>1 DEF Places, AmountsOK
  <2>2. SockRoom \in Nat /\ Room \in Nat
    BY CreditAssumption
  <2>3. room'["hand"] <= 1
    BY <1>1, <1>4, <2>1, <1>2 DEF Limits
  <2>4. room'["codec"] <= 1
    BY <1>1, <1>4, <2>1, <1>2 DEF Limits
  <2>5. room'["queue"] <= SockRoom
    BY <1>1, <1>4, <2>1, <2>2, <1>2 DEF Limits
  <2>6. room'["ring"] <= Room
    BY <1>1, <1>4, <2>1, <2>2, <1>2 DEF Limits
  <2> QED
    BY <2>3, <2>4, <2>5, <2>6 DEF Limits
<1> QED
  BY <1>3, <1>5, MoveIsBalanced DEF CreditInv, NeverOverflows, Steady

LEMMA RoomIsNat == ASSUME CreditInv, NEW p \in Places PROVE room[p] \in Nat
BY DEF CreditInv, AmountsOK

LEMMA FrameStep ==
  ASSUME CreditInv, QueueFrame \/ DropFrame \/ WriteFrame \/ PlayChunk \/ Played \/ TakeFreed \/ SendCredit \/ Grant
  PROVE  CreditInv'
<1>1. Steady /\ UNCHANGED <<backlog, overflowed>>
  BY DEF QueueFrame, DropFrame, WriteFrame, PlayChunk, Played, TakeFreed, SendCredit, Grant
<1>2. {"credit", "queue", "missed", "wire", "codec", "freed", "taken", "grants", "behind"} \subseteq Places
      /\ {"hand", "late", "queue", "ring", "codec", "freed", "taken", "grants"} \subseteq OnTheMove
  BY DEF Places, OnTheMove
<1>3. CASE QueueFrame
  BY <1>1, <1>2, <1>3, MoveStep DEF QueueFrame
<1>4. CASE DropFrame
  BY <1>1, <1>2, <1>4, MoveStep DEF DropFrame
<1>5. CASE WriteFrame \/ PlayChunk \/ Played
  BY <1>1, <1>2, <1>5, MoveStep DEF WriteFrame, PlayChunk, Played
<1>6. CASE TakeFreed
  <2>1. room["freed"] \in Nat
    BY <1>2, RoomIsNat
  <2> QED
    BY <1>1, <1>2, <1>6, <2>1, MoveStep DEF TakeFreed
<1>7. CASE SendCredit
  <2>1. room["taken"] \in Nat
    BY <1>2, RoomIsNat
  <2> QED
    BY <1>1, <1>2, <1>7, <2>1, MoveStep DEF SendCredit
<1>8. CASE Grant
  <2>1. room["grants"] \in Nat
    BY <1>2, RoomIsNat
  <2> QED
    BY <1>1, <1>2, <1>8, <2>1, MoveStep DEF Grant
<1> QED
  BY <1>3, <1>4, <1>5, <1>6, <1>7, <1>8

LEMMA ReceiveStep == ASSUME CreditInv, Receive PROVE CreditInv'
<1>1. "wire" \in OnTheMove /\ {"wire", "ring", "missed"} \subseteq Places /\ 1 \in Nat
  BY DEF OnTheMove, Places
<1>2. CASE room["ring"] < Room
  BY <1>1, <1>2, MoveStep DEF Receive
<1>3. CASE ~(room["ring"] < Room)
  <2>1. Move("wire", "missed", 1) /\ overflowed' = TRUE /\ backlog' = backlog /\ Steady
    BY <1>3 DEF Receive
  <2>2. AmountsOK /\ FlagsOK /\ Limits
    BY DEF CreditInv
  <2>3. /\ room' \in [Places -> Nat] /\ room["wire"] >= 1
        /\ \A p \in Places : p # "wire" /\ p # "missed" => room'[p] = room[p]
    BY <1>1, <2>1, <2>2, MoveKeeps DEF AmountsOK
  <2>4. AmountsOK' /\ FlagsOK'
    BY <2>1, <2>2, <2>3 DEF AmountsOK, FlagsOK, Steady
  <2>5. Limits'
    BY <2>2, <2>3 DEF Limits, Places
  <2>6. Balanced' /\ (clean => Agreed)
    BY <1>1, <2>1, MoveIsBalanced
  <2>7. ~clean
    <3>1. \A p \in Places : room[p] \in Nat
      BY RoomIsNat
    <3>2. Room \in Nat
      BY CreditAssumption
    <3>3. Total(room) >= room["ring"] + room["wire"]
      BY <3>1 DEF Total, AtDaemon, OnTheLink, OnTheBoard, Gone, Places
    <3>4. Total(room) # Room
      BY <1>1, <1>3, <2>3, <3>1, <3>2, <3>3
    <3> QED
      BY <2>6, <3>4 DEF Agreed
  <2> QED
    BY <2>1, <2>4, <2>5, <2>6, <2>7 DEF CreditInv, NeverOverflows, Steady
<1> QED
  BY <1>2, <1>3

LEMMA TakeFrameStep == ASSUME CreditInv, TakeFrame PROVE CreditInv'
<1>1. {"credit", "hand"} \subseteq Places /\ 1 \in Nat /\ Move("credit", "hand", 1) /\ Steady
      /\ overflowed' = overflowed /\ room["hand"] = 0 /\ backlog > 0 /\ backlog' = backlog - 1
  BY DEF TakeFrame, Places
<1>2. AmountsOK /\ FlagsOK /\ Limits
  BY DEF CreditInv
<1>3. /\ room' \in [Places -> Nat] /\ room["credit"] >= 1 /\ room'["hand"] = 0 + 1
      /\ \A p \in Places : p # "credit" /\ p # "hand" => room'[p] = room[p]
  BY <1>1, <1>2, MoveKeeps DEF AmountsOK
<1>4. Total(room') = Total(room)
  BY <1>1, <1>2, MoveKeepsTotal DEF AmountsOK
<1>5. AmountsOK' /\ FlagsOK'
  BY <1>1, <1>2, <1>3 DEF AmountsOK, FlagsOK, Steady
<1>6. Limits'
  BY <1>2, <1>3 DEF Limits, Places
<1>7. clean => Agreed
  <2>1. ~Still
    BY <1>1, <1>2, <1>3 DEF Still, AmountsOK
  <2> QED
    BY <2>1 DEF CreditInv, Balanced, Woken, Lost
<1> QED
  BY <1>1, <1>4, <1>5, <1>6, <1>7 DEF CreditInv, Balanced, Agreed, NeverOverflows, Steady

LEMMA SpeakStep == ASSUME CreditInv, Speak \/ EndTalk PROVE CreditInv'
<1>1. UNCHANGED <<room, boardIn, wakeSent, linked, flushDue, wakes, clean, overflowed>> /\ talkOpen
  BY DEF Speak, EndTalk
<1>2. AmountsOK /\ FlagsOK /\ Limits
  BY DEF CreditInv
<1>3. backlog' \in Nat /\ talkOpen' \in BOOLEAN
  <2>1. backlog' = backlog \/ backlog' = backlog + 1
    BY DEF Speak, EndTalk
  <2>2. talkOpen' = talkOpen \/ talkOpen' = FALSE
    BY DEF Speak, EndTalk
  <2>3. backlog' \in Nat
    BY <1>2, <2>1 DEF AmountsOK
  <2>4. talkOpen' \in BOOLEAN
    BY <1>2, <2>2 DEF FlagsOK
  <2> QED
    BY <2>3, <2>4
<1>4. AmountsOK' /\ FlagsOK' /\ Limits'
  BY <1>1, <1>2, <1>3 DEF AmountsOK, FlagsOK, Limits
<1>5. clean => Agreed
  BY <1>1 DEF CreditInv, Balanced, Woken, Lost, Still
<1> QED
  BY <1>1, <1>4, <1>5 DEF CreditInv, Balanced, Agreed, NeverOverflows

LEMMA InterruptStep == ASSUME CreditInv, Interrupt PROVE CreditInv'
<1>1. UNCHANGED <<boardIn, wakeSent, linked, wakes, clean, overflowed>> /\ talkOpen /\ talkOpen' = talkOpen
      /\ backlog' = 0 /\ flushDue' = TRUE
      /\ room' = [room EXCEPT !["cut"] = @ + room["queue"], !["queue"] = 0]
  BY DEF Interrupt
<1>2. AmountsOK /\ FlagsOK /\ Limits
  BY DEF CreditInv
<1>3. \A p \in Places : room[p] \in Nat
  BY RoomIsNat
<1>4. {"cut", "queue"} \subseteq Places /\ room["cut"] + room["queue"] \in Nat /\ 0 \in Nat
  BY <1>3 DEF Places
<1>5. /\ room' \in [Places -> Nat] /\ room'["cut"] = room["cut"] + room["queue"] /\ room'["queue"] = 0
      /\ \A p \in Places : p # "cut" /\ p # "queue" => room'[p] = room[p]
  BY <1>1, <1>2, <1>4 DEF AmountsOK
<1>6. AmountsOK' /\ FlagsOK'
  BY <1>1, <1>2, <1>5 DEF AmountsOK, FlagsOK
<1>7. Limits'
  <2>1. 0 <= SockRoom
    BY CreditAssumption
  <2> QED
    BY <1>2, <1>5, <2>1 DEF Limits, Places
<1>8. Total(room') = Total(room)
  BY <1>3, <1>5 DEF Total, AtDaemon, OnTheLink, OnTheBoard, Gone, Places
<1>9. clean => Agreed
  BY <1>1 DEF CreditInv, Balanced, Woken, Lost, Still
<1> QED
  BY <1>1, <1>6, <1>7, <1>8, <1>9 DEF CreditInv, Balanced, Agreed, NeverOverflows

(* The ring is emptied: what was in it is credited for, or it belongs to nobody. *)
LEMMA EmptiedRoom ==
  ASSUME room \in [Places -> Nat]
  PROVE  /\ Emptied(room) \in [Places -> Nat] /\ Total(Emptied(room)) = Total(room)
         /\ Emptied(room)["ring"] = 0 /\ Emptied(room)["freed"] = 0
         /\ Emptied(room)["missed"] = room["missed"] + room["ring"] + room["freed"]
         /\ \A p \in Places : p \notin {"missed", "ring", "freed"} => Emptied(room)[p] = room[p]
<1>1. {"missed", "ring", "freed"} \subseteq Places /\ \A p \in Places : room[p] \in Nat
  BY DEF Places
<1>2. room["missed"] + room["ring"] + room["freed"] \in Nat /\ 0 \in Nat
  BY <1>1
<1>3. /\ Emptied(room) \in [Places -> Nat] /\ Emptied(room)["ring"] = 0 /\ Emptied(room)["freed"] = 0
      /\ Emptied(room)["missed"] = room["missed"] + room["ring"] + room["freed"]
      /\ \A p \in Places : p \notin {"missed", "ring", "freed"} => Emptied(room)[p] = room[p]
  BY <1>1, <1>2 DEF Emptied
<1>4. Total(Emptied(room)) = Total(room)
  BY <1>1, <1>3 DEF Total, AtDaemon, OnTheLink, OnTheBoard, Gone, Places
<1> QED
  BY <1>3, <1>4

LEMMA FlushStep == ASSUME CreditInv, InterruptArrives PROVE CreditInv'
<1>1. UNCHANGED <<backlog, talkOpen, boardIn, wakeSent, linked, wakes, clean, overflowed>> /\ flushDue' = FALSE
      /\ room' = [room EXCEPT !["freed"] = @ + room["ring"], !["ring"] = 0]
  BY DEF InterruptArrives, RingFlushed
<1>2. AmountsOK /\ FlagsOK /\ Limits /\ \A p \in Places : room[p] \in Nat
  BY RoomIsNat DEF CreditInv
<1>3. {"freed", "ring"} \subseteq Places /\ room["freed"] + room["ring"] \in Nat /\ 0 \in Nat
  BY <1>2 DEF Places
<1>4. /\ room' \in [Places -> Nat] /\ room'["freed"] = room["freed"] + room["ring"] /\ room'["ring"] = 0
      /\ \A p \in Places : p # "freed" /\ p # "ring" => room'[p] = room[p]
  BY <1>1, <1>2, <1>3 DEF AmountsOK
<1>5. AmountsOK' /\ FlagsOK'
  BY <1>1, <1>2, <1>4 DEF AmountsOK, FlagsOK
<1>6. Limits'
  <2>1. 0 <= Room
    BY CreditAssumption
  <2> QED
    BY <1>2, <1>4, <2>1 DEF Limits, Places
<1>7. Total(room') = Total(room)
  BY <1>2, <1>4 DEF Total, AtDaemon, OnTheLink, OnTheBoard, Gone, Places
<1>8. Still => Still' /\ \A p \in {"behind", "cut", "missed"} : room'[p] = room[p]
  BY <1>1, <1>4 DEF Still, OnTheMove, Places
<1>9. Balanced'
  BY <1>1, <1>7, <1>8 DEF CreditInv, Balanced, Agreed, Woken, Lost
<1> QED
  BY <1>1, <1>5, <1>6, <1>9 DEF CreditInv, NeverOverflows

LEMMA BoardLeavesStep == ASSUME CreditInv, BoardLeaves PROVE CreditInv'
<1>1. UNCHANGED <<backlog, talkOpen, wakeSent, linked, flushDue, wakes, clean, overflowed>> /\ boardIn' = FALSE
      /\ room' = Emptied(room)
  BY DEF BoardLeaves
<1>2. AmountsOK /\ FlagsOK /\ Limits /\ \A p \in Places : room[p] \in Nat
  BY RoomIsNat DEF CreditInv
<1>3. /\ room' \in [Places -> Nat] /\ Total(room') = Total(room) /\ room'["ring"] = 0 /\ room'["freed"] = 0
      /\ room'["missed"] = room["missed"] + room["ring"] + room["freed"]
      /\ \A p \in Places : p \notin {"missed", "ring", "freed"} => room'[p] = room[p]
  BY <1>1, <1>2, EmptiedRoom DEF AmountsOK
<1>4. AmountsOK' /\ FlagsOK'
  BY <1>1, <1>2, <1>3 DEF AmountsOK, FlagsOK
<1>5. Limits'
  <2>1. 0 <= Room
    BY CreditAssumption
  <2> QED
    BY <1>2, <1>3, <2>1 DEF Limits, Places
<1>6. Still => Still' /\ \A p \in {"behind", "cut", "missed"} : room'[p] = room[p]
  BY <1>1, <1>2, <1>3 DEF Still, OnTheMove, Places
<1>7. Balanced'
  BY <1>1, <1>3, <1>6 DEF CreditInv, Balanced, Agreed, Woken, Lost
<1> QED
  BY <1>1, <1>4, <1>5, <1>7 DEF CreditInv, NeverOverflows

(* A wake that finds nothing left of the conversations before it begins one that is clean. *)
LEMMA WakeSinkStep == ASSUME CreditInv, WakeSink PROVE CreditInv'
<1>1. UNCHANGED <<backlog, talkOpen, linked, flushDue>> /\ boardIn' = TRUE /\ wakeSent' = TRUE /\ wakes' = wakes + 1
      /\ clean' = NothingLeft /\ overflowed' = FALSE /\ wakes < MaxWakes
      /\ room' = [Emptied(room) EXCEPT !["behind"] = Room, !["cut"] = 0, !["missed"] = 0]
  BY DEF WakeSink
<1>2. AmountsOK /\ FlagsOK /\ Limits
  BY DEF CreditInv
<1>3. Room \in Nat /\ 0 \in Nat /\ {"behind", "cut", "missed"} \subseteq Places
  BY CreditAssumption DEF Places
<1>4. /\ Emptied(room) \in [Places -> Nat] /\ Emptied(room)["ring"] = 0 /\ Emptied(room)["freed"] = 0
      /\ \A p \in Places : p \notin {"missed", "ring", "freed"} => Emptied(room)[p] = room[p]
  BY <1>2, EmptiedRoom DEF AmountsOK
<1>5. /\ room' \in [Places -> Nat] /\ room'["behind"] = Room /\ room'["cut"] = 0 /\ room'["missed"] = 0
      /\ \A p \in Places : p \notin {"behind", "cut", "missed"} => room'[p] = Emptied(room)[p]
  BY <1>1, <1>3, <1>4
<1>6. /\ room'["ring"] = 0 /\ room'["freed"] = 0
      /\ \A p \in Places : p \notin {"behind", "cut", "missed", "ring", "freed"} => room'[p] = room[p]
  BY <1>4, <1>5 DEF Places
<1>7. wakes' \in 0..MaxWakes
  BY <1>1, <1>2, CreditAssumption DEF AmountsOK
<1>8. AmountsOK'
  BY <1>1, <1>2, <1>5, <1>7 DEF AmountsOK
<1>9. FlagsOK'
  <2>1. clean' \in BOOLEAN
    BY <1>1 DEF NothingLeft
  <2> QED
    BY <1>1, <1>2, <2>1 DEF FlagsOK
<1>10. Limits'
  BY <1>2, <1>3, <1>6 DEF Limits, Places
<1>11. NothingLeft => Still'
  BY <1>1, <1>6 DEF NothingLeft, Still, OnTheMove, Places
<1>12. Balanced'
  BY <1>1, <1>5, <1>11 DEF Balanced, Woken
<1> QED
  BY <1>1, <1>8, <1>9, <1>10, <1>12 DEF CreditInv, NeverOverflows

LEMMA NewSessionStep == ASSUME CreditInv, NewSession PROVE CreditInv'
<1>1. UNCHANGED <<boardIn, linked, flushDue, wakes, clean, overflowed>> /\ wakeSent /\ wakeSent' = FALSE
      /\ talkOpen' = TRUE /\ backlog' = 0 /\ room["grants"] = 0
  BY DEF NewSession
<1>2. AmountsOK /\ FlagsOK /\ Limits /\ \A p \in Places : room[p] \in Nat
  BY RoomIsNat DEF CreditInv
<1>3. {"late", "hand", "credit", "grants", "behind"} \subseteq Places
  BY DEF Places
<1>4. Least(room["credit"], backlog) \in Nat /\ (Still => Least(room["credit"], backlog) = 0)
  <2>1. room["credit"] \in Nat /\ backlog \in Nat
    BY <1>2, <1>3 DEF AmountsOK
  <2> QED
    BY <2>1 DEF Least, Still
<1>5. room["late"] + room["hand"] + Least(room["credit"], backlog) \in Nat /\ 0 \in Nat /\ room["behind"] \in Nat
  BY <1>2, <1>3, <1>4
<1>6. room' = [room EXCEPT !["late"] = room["late"] + room["hand"] + Least(room["credit"], backlog),
                           !["hand"] = 0, !["credit"] = 0, !["grants"] = room["behind"], !["behind"] = 0]
  BY <1>2, <1>3 DEF NewSession, AmountsOK
<1>7. /\ room' \in [Places -> Nat]
      /\ room'["late"] = room["late"] + room["hand"] + Least(room["credit"], backlog)
      /\ room'["hand"] = 0 /\ room'["credit"] = 0 /\ room'["grants"] = room["behind"] /\ room'["behind"] = 0
      /\ \A p \in Places : p \notin {"late", "hand", "credit", "grants", "behind"} => room'[p] = room[p]
  BY <1>2, <1>3, <1>5, <1>6 DEF AmountsOK
<1>8. AmountsOK' /\ FlagsOK'
  BY <1>1, <1>2, <1>7 DEF AmountsOK, FlagsOK
<1>9. Limits'
  BY <1>2, <1>7 DEF Limits, Places
<1>10. clean => Woken
  BY <1>1 DEF CreditInv, Balanced, Agreed, Lost
<1>11. Woken => Total(room') = Room
  <2> SUFFICES ASSUME Woken PROVE Total(room') = Room
    OBVIOUS
  <2>1. \A p \in Places \ {"grants"} : room'[p] = 0
    BY <1>4, <1>7 DEF Woken, Still, OnTheMove, Places
  <2>2. room'["grants"] = Room /\ Room \in Nat
    BY <1>7, CreditAssumption DEF Woken
  <2> QED
    BY <2>1, <2>2 DEF Total, AtDaemon, OnTheLink, OnTheBoard, Gone, Places
<1> QED
  BY <1>1, <1>8, <1>9, <1>10, <1>11 DEF CreditInv, Balanced, Agreed, NeverOverflows

LEMMA LinkDropsStep == ASSUME CreditInv, LinkDrops PROVE CreditInv'
<1> DEFINE r == Emptied(room)
<1>1. UNCHANGED <<backlog, talkOpen, wakes, clean, overflowed>> /\ linked' = FALSE
      /\ boardIn' = FALSE /\ wakeSent' = FALSE /\ flushDue' = FALSE
      /\ room' = [r EXCEPT !["missed"] = @ + r["queue"] + r["wire"] + r["grants"] + r["behind"],
                           !["queue"] = 0, !["wire"] = 0, !["grants"] = 0, !["behind"] = 0]
  BY DEF LinkDrops
<1>2. AmountsOK /\ FlagsOK /\ Limits /\ \A p \in Places : room[p] \in Nat
  BY RoomIsNat DEF CreditInv
<1>3. /\ r \in [Places -> Nat] /\ Total(r) = Total(room) /\ r["ring"] = 0 /\ r["freed"] = 0
      /\ \A p \in Places : p \notin {"missed", "ring", "freed"} => r[p] = room[p]
  BY <1>2, EmptiedRoom DEF AmountsOK
<1> HIDE DEF r
<1>4. {"missed", "queue", "wire", "grants", "behind"} \subseteq Places /\ \A p \in Places : r[p] \in Nat
  BY <1>3 DEF Places
<1>5. r["missed"] + r["queue"] + r["wire"] + r["grants"] + r["behind"] \in Nat /\ 0 \in Nat
  BY <1>4
<1>6. /\ room' \in [Places -> Nat]
      /\ room'["missed"] = r["missed"] + r["queue"] + r["wire"] + r["grants"] + r["behind"]
      /\ \A p \in {"queue", "wire", "grants", "behind"} : room'[p] = 0
      /\ \A p \in Places : p \notin {"missed", "queue", "wire", "grants", "behind"} => room'[p] = r[p]
  BY <1>1, <1>3, <1>4, <1>5
<1>7. AmountsOK' /\ FlagsOK'
  BY <1>1, <1>2, <1>6 DEF AmountsOK, FlagsOK
<1>8. Limits'
  <2>1. 0 <= Room /\ 0 <= SockRoom
    BY CreditAssumption
  <2> QED
    BY <1>2, <1>3, <1>6, <2>1 DEF Limits, Places
<1>9. Total(room') = Total(r)
  <2>1. AtDaemon(room') = AtDaemon(r) /\ OnTheBoard(room') = OnTheBoard(r)
    BY <1>6 DEF AtDaemon, OnTheBoard, Places
  <2>2. OnTheLink(room') = 0
    BY <1>6 DEF OnTheLink
  <2>3. Gone(room') = Gone(r) + OnTheLink(r)
    BY <1>4, <1>6 DEF Gone, OnTheLink, Places
  <2>4. AtDaemon(r) \in Int /\ OnTheBoard(r) \in Int /\ OnTheLink(r) \in Int /\ Gone(r) \in Int
    BY <1>4 DEF AtDaemon, OnTheBoard, OnTheLink, Gone, Places
  <2> QED
    BY <2>1, <2>2, <2>3, <2>4 DEF Total
<1>10. Still => Still' /\ room'["behind"] = 0
  BY <1>1, <1>3, <1>6 DEF Still, OnTheMove, Places
<1>11. Balanced'
  BY <1>1, <1>3, <1>9, <1>10 DEF CreditInv, Balanced, Agreed, Woken, Lost
<1> QED
  BY <1>1, <1>7, <1>8, <1>11 DEF CreditInv, NeverOverflows

LEMMA CreditInitHolds == CreditInit => CreditInv
<1> SUFFICES ASSUME CreditInit PROVE CreditInv
  OBVIOUS
<1>1. 0 \in 0..MaxWakes /\ 0 <= SockRoom /\ 0 <= Room
  BY CreditAssumption
<1>2. AmountsOK /\ FlagsOK
  BY <1>1 DEF CreditInit, AmountsOK, FlagsOK
<1>3. Limits
  BY <1>1 DEF CreditInit, Limits, Places
<1>4. Still /\ room["behind"] = 0
  BY DEF CreditInit, Still, OnTheMove, Places
<1> QED
  BY <1>2, <1>3, <1>4 DEF CreditInit, CreditInv, Balanced, Lost, NeverOverflows

LEMMA CreditStep == CreditInv /\ [CreditNext]_creditVars => CreditInv'
<1> SUFFICES ASSUME CreditInv, [CreditNext]_creditVars PROVE CreditInv'
  OBVIOUS
<1>1. CASE UNCHANGED creditVars
  BY <1>1 DEF creditVars, CreditInv, AmountsOK, FlagsOK, Limits, Balanced, Agreed, Woken, Lost, Still, NeverOverflows
<1>2. CASE LinkReturns
  <2>1. UNCHANGED <<room, backlog, talkOpen, boardIn, wakeSent, flushDue, wakes, clean, overflowed>> /\ linked' = TRUE
    BY <1>2 DEF LinkReturns
  <2>2. AmountsOK' /\ FlagsOK' /\ Limits'
    BY <2>1 DEF CreditInv, AmountsOK, FlagsOK, Limits
  <2>3. Balanced' /\ NeverOverflows'
    BY <2>1 DEF CreditInv, Balanced, Agreed, Woken, Lost, Still, NeverOverflows
  <2> QED
    BY <2>2, <2>3 DEF CreditInv
<1>3. CASE CreditNext
  BY <1>2, <1>3, SpeakStep, TakeFrameStep, FrameStep, ReceiveStep, InterruptStep, FlushStep, WakeSinkStep,
     NewSessionStep, BoardLeavesStep, LinkDropsStep DEF CreditNext
<1> QED
  BY <1>1, <1>3

LEMMA CreditInvIsEnough == CreditInv => CreditHolds
<1>1. CreditInv => CreditTypeOK
  BY DEF CreditInv, AmountsOK, FlagsOK, Limits, CreditTypeOK
<1>2. CreditInv => RoomIsKept
  <2> SUFFICES ASSUME CreditInv, clean, boardIn, ~wakeSent
               PROVE  room["credit"] + OnItsWay + room["cut"] + room["missed"] = Room
    BY DEF RoomIsKept
  <2>1. Total(room) = Room
    BY DEF CreditInv, Balanced, Agreed, Woken, Lost
  <2>2. \A p \in Places : room[p] \in Nat
    BY RoomIsNat
  <2> QED
    BY <2>1, <2>2 DEF Total, AtDaemon, OnTheLink, OnTheBoard, Gone, OnItsWay, Places
<1> QED
  BY <1>1, <1>2 DEF CreditInv, CreditHolds

(* Whatever is interrupted, lost or ended, a conversation that began with nothing of an     *)
(* earlier one on the way never overflows the ring of the device, and no room is lost in    *)
(* silence: deviceSink of internal/serve against audio_out and credit_task of satellite.    *)
THEOREM CreditAlwaysHolds == CreditSpec => []CreditHolds
<1>1. CreditInit => CreditInv
  BY CreditInitHolds
<1>2. CreditInv /\ [CreditNext]_creditVars => CreditInv'
  BY CreditStep
<1>3. CreditInv => CreditHolds
  BY CreditInvIsEnough
<1> QED
  BY <1>1, <1>2, <1>3, PTL DEF CreditSpec

-----------------------------------------------------------------------------
(*****************************************************************************)
(* The satellite.                                                            *)
(*****************************************************************************)

(* The invariant is inductive as it stands, in three parts. *)
Facts == {"address", "link", "acked", "hang-up"}
MachineOK ==
    /\ satState \in SatStates /\ satFacts \subseteq Facts
    /\ satDrivers \subseteq {"uplink", "gate", "wakeword", "amp"} /\ DriversFollowTheState
QueueOK == satQueue \in Seq(SatEvents) /\ Len(satQueue) <= SatDepth
AroundOK ==
    /\ satLate \in BOOLEAN /\ satStale \in BOOLEAN
    /\ satNet \subseteq {"address", "socket"} /\ satSpeaker \subseteq {"waiting", "playing", "refill"}
    /\ satTalk \in {"none", "called", "open", "asking"} /\ satSentences \in 0..MaxSentences

LEMMA SatelliteParts == SatelliteHolds <=> MachineOK /\ QueueOK /\ AroundOK
BY DEF SatelliteHolds, SatTypeOK, MachineOK, QueueOK, AroundOK, Facts

LEMMA QueuedKeeps ==
  ASSUME NEW q \in Seq(SatEvents), Len(q) <= SatDepth, NEW ev \in SatEvents
  PROVE  Queued(q, ev) \in Seq(SatEvents) /\ Len(Queued(q, ev)) <= SatDepth
<1>1. Len(q) \in Nat /\ SatDepth \in Nat
  BY LenProperties, SatelliteAssumption
<1>2. CASE Len(q) < SatDepth
  <2>1. Append(q, ev) \in Seq(SatEvents) /\ Len(Append(q, ev)) = Len(q) + 1
    BY AppendProperties
  <2> QED
    BY <1>1, <1>2, <2>1 DEF Queued
<1>3. CASE ~(Len(q) < SatDepth)
  BY <1>3 DEF Queued
<1> QED
  BY <1>2, <1>3

LEMMA PostKeeps == ASSUME QueueOK, NEW ev \in SatEvents, Post(ev) PROVE QueueOK'
BY QueuedKeeps DEF QueueOK, Post

(* Wherever the machine goes, from wherever, the drivers follow. *)
LEMMA GoKeeps ==
  ASSUME MachineOK, satLate \in BOOLEAN, satSpeaker \subseteq {"waiting", "playing", "refill"},
         NEW to \in SatStates, NEW facts \in SUBSET Facts, Go(to, facts)
  PROVE  MachineOK' /\ satLate' \in BOOLEAN /\ satSpeaker' \subseteq {"waiting", "playing", "refill"}
<1>1. satState' = to /\ satFacts' \subseteq Facts
  BY DEF Go
<1>2. satLate' \in BOOLEAN /\ satSpeaker' \subseteq {"waiting", "playing", "refill"}
  BY DEF Go, Flushed
<1>3. CASE to = satState
  BY <1>1, <1>2, <1>3 DEF Go, MachineOK, DriversFollowTheState, InConversation
<1>4. CASE to # satState
  <2> DEFINE left == Left(satState, to)
             gated == Gated(left, satState, to)
  <2>1. satDrivers' = Entered(gated, satState, to)
    BY <1>4 DEF Go
  <2>2. satDrivers \subseteq {"uplink", "gate", "wakeword", "amp"} /\ DriversFollowTheState /\ satState \in SatStates
    BY DEF MachineOK
  <2>3. /\ left \subseteq {"uplink", "gate", "wakeword", "amp"}
        /\ "gate" \in left <=> satState = "speaking"
        /\ "uplink" \in left <=> satState \in Conversation /\ to \in Conversation
        /\ "amp" \in left <=> satState \in Conversation /\ to \in Conversation
        /\ "wakeword" \in left <=> ~(satState \in Conversation /\ to \in Conversation)
    BY <2>2 DEF Left, DriversFollowTheState, InConversation, Conversation
  <2> HIDE DEF left
  <2>4. /\ gated \subseteq {"uplink", "gate", "wakeword", "amp"}
        /\ "gate" \in gated <=> to = "speaking"
        /\ \A d \in {"uplink", "amp", "wakeword"} : d \in gated <=> d \in left
    BY <1>4, <2>3 DEF Gated
  <2> HIDE DEF gated
  <2>5. /\ Entered(gated, satState, to) \subseteq {"uplink", "gate", "wakeword", "amp"}
        /\ "gate" \in Entered(gated, satState, to) <=> to = "speaking"
        /\ "uplink" \in Entered(gated, satState, to) <=> to \in Conversation \cup {"capture"}
        /\ "amp" \in Entered(gated, satState, to) <=> to \in Conversation
        /\ "wakeword" \in Entered(gated, satState, to) <=> to \notin Conversation \cup {"capture"}
    BY <2>3, <2>4 DEF Entered, Conversation
  <2> QED
    BY <1>1, <1>2, <2>1, <2>5 DEF MachineOK, DriversFollowTheState, InConversation
<1> QED
  BY <1>3, <1>4

(* Each event moves the machine to a state, with facts, of its own. *)
LEMMA EventGoes ==
  ASSUME MachineOK, NEW ev,
         \/ satState = "fault" /\ Stay(satFacts)
         \/ Faulted(ev) \/ NetDown(ev) \/ LinkDown(ev) \/ NetUp(ev) \/ LinkUp(ev)
         \/ Wake(ev) \/ VoiceEnd(ev) \/ PlaybackStart(ev) \/ PlaybackEnd(ev)
         \/ RemoteIdle(ev) \/ RemoteState(ev) \/ Capture(ev) \/ Tick(ev)
  PROVE  \E to \in SatStates, facts \in SUBSET Facts : Go(to, facts)
<1>1. satState \in SatStates /\ satFacts \in SUBSET Facts
  BY DEF MachineOK
<1>2. {"fault", "no-network", "no-daemon", "idle", "listening", "thinking", "speaking", "approval", "capture"} \subseteq SatStates
  BY DEF SatStates, Conversation
<1>3. /\ \A K \in SUBSET Facts : satFacts \ K \in SUBSET Facts
      /\ satFacts \cup {"address"} \in SUBSET Facts /\ satFacts \cup {"link"} \in SUBSET Facts
      /\ satFacts \cup {"acked"} \in SUBSET Facts /\ satFacts \cup {"hang-up"} \in SUBSET Facts
      /\ {"address", "link"} \in SUBSET Facts /\ {"link"} \in SUBSET Facts /\ {"hang-up"} \in SUBSET Facts
  BY <1>1 DEF Facts
<1>4. CASE satState = "fault" /\ Stay(satFacts)
  BY <1>1, <1>4 DEF Stay
<1>5. CASE Faulted(ev) \/ NetDown(ev)
  BY <1>1, <1>2, <1>3, <1>5 DEF Faulted, NetDown
<1>6. CASE LinkDown(ev)
  BY <1>2, <1>3, <1>6 DEF LinkDown
<1>7. CASE NetUp(ev) \/ LinkUp(ev)
  BY <1>1, <1>2, <1>3, <1>7 DEF NetUp, LinkUp
<1>8. CASE Wake(ev) \/ VoiceEnd(ev) \/ PlaybackStart(ev)
  BY <1>1, <1>2, <1>8 DEF Wake, VoiceEnd, PlaybackStart
<1>9. CASE PlaybackEnd(ev)
  BY <1>1, <1>2, <1>3, <1>9 DEF PlaybackEnd, Stay
<1>10. CASE RemoteIdle(ev)
  BY <1>1, <1>2, <1>3, <1>10 DEF RemoteIdle, Stay
<1>11. CASE RemoteState(ev)
  BY <1>1, <1>2, <1>3, <1>11 DEF RemoteState, Stay
<1>12. CASE Capture(ev) \/ Tick(ev)
  BY <1>1, <1>2, <1>12 DEF Capture, Tick
<1> QED
  BY <1>4, <1>5, <1>6, <1>7, <1>8, <1>9, <1>10, <1>11, <1>12

LEMMA HandleStep == ASSUME MachineOK, QueueOK, AroundOK, Handle PROVE MachineOK' /\ QueueOK' /\ AroundOK'
<1>1. QueueOK'
  <2>1. Tail(satQueue) \in Seq(SatEvents) /\ Len(Tail(satQueue)) = Len(satQueue) - 1 /\ Len(satQueue) \in Nat
    BY HeadTailProperties, LenProperties DEF Handle, QueueOK
  <2> QED
    BY <2>1, SatelliteAssumption DEF Handle, QueueOK
<1>2. PICK to \in SatStates, facts \in SUBSET Facts : Go(to, facts)
  <2>1. \/ satState = "fault" /\ Stay(satFacts)
        \/ \E ev : \/ Faulted(ev) \/ NetDown(ev) \/ LinkDown(ev) \/ NetUp(ev) \/ LinkUp(ev)
                   \/ Wake(ev) \/ VoiceEnd(ev) \/ PlaybackStart(ev) \/ PlaybackEnd(ev)
                   \/ RemoteIdle(ev) \/ RemoteState(ev) \/ Capture(ev) \/ Tick(ev)
    BY DEF Handle
  <2> QED
    BY <2>1, EventGoes
<1>3. MachineOK' /\ satLate' \in BOOLEAN /\ satSpeaker' \subseteq {"waiting", "playing", "refill"}
  BY <1>2, GoKeeps DEF AroundOK
<1>4. satTalk' \in {"none", "called", "open", "asking"} /\ satStale' \in BOOLEAN
  BY DEF Handle, CallsDaemon, AroundOK
<1> QED
  BY <1>1, <1>3, <1>4 DEF Handle, AroundOK

LEMMA MachineWaits ==
  ASSUME MachineOK, UNCHANGED <<satState, satFacts, satDrivers>>
  PROVE  MachineOK'
BY DEF MachineOK, DriversFollowTheState, InConversation

LEMMA SpeakerKeeps == ASSUME QueueOK, AroundOK, SpeakerStep PROVE QueueOK' /\ AroundOK'
<1>1. {"playback-start", "playback-end"} \subseteq SatEvents
  BY DEF SatEvents
<1>2. QueueOK'
  <2>1. UNCHANGED satQueue \/ Post("playback-start") \/ Post("playback-end")
    BY DEF SpeakerStep, NoticeFlush, StartPlaying, PlayRest, RunDry
  <2> QED
    BY <1>1, <2>1, PostKeeps DEF QueueOK
<1>3. AroundOK'
  BY DEF AroundOK, SpeakerStep, NoticeFlush, StartPlaying, PlayRest, RunDry
<1> QED
  BY <1>2, <1>3

LEMMA BoardKeeps == ASSUME QueueOK, AroundOK, BoardStep PROVE QueueOK' /\ AroundOK'
<1>1. {"net-up", "net-down", "link-up", "link-down", "link-rejected", "wake", "voice-end", "mic-dead", "unprovisioned",
       "tick"} \subseteq SatEvents
  BY DEF SatEvents
<1>2. QueueOK'
  <2>1. CASE Reject
    BY <1>1, <2>1, QueuedKeeps DEF Reject, QueueOK
  <2>2. ~Reject => UNCHANGED satQueue \/ \E ev \in SatEvents : Post(ev)
    BY <1>1 DEF BoardStep, GetAddress, LoseAddress, Connect, Disconnect, SayWakeWord, EndSentence, Breaks, TimePasses,
       TickPosts
  <2> QED
    BY <2>1, <2>2, PostKeeps DEF QueueOK
<1>3. AroundOK'
  <2>1. satSentences' \in 0..MaxSentences
    BY SatelliteAssumption DEF AroundOK, BoardStep, GetAddress, LoseAddress, Connect, Disconnect, Reject, SayWakeWord,
       EndSentence, Breaks, TimePasses, TickPosts
  <2>2. satNet' \subseteq {"address", "socket"} /\ satTalk' \in {"none", "called", "open", "asking"}
    BY DEF AroundOK, BoardStep, GetAddress, LoseAddress, Connect, Disconnect, Reject, SayWakeWord,
       EndSentence, Breaks, TimePasses, TickPosts
  <2>3. satLate' \in BOOLEAN /\ satStale' \in BOOLEAN /\ satSpeaker' \subseteq {"waiting", "playing", "refill"}
    BY DEF AroundOK, BoardStep, GetAddress, LoseAddress, Connect, Disconnect, Reject, SayWakeWord,
       EndSentence, Breaks, TimePasses, TickPosts
  <2> QED
    BY <2>1, <2>2, <2>3 DEF AroundOK
<1> QED
  BY <1>2, <1>3

LEMMA DaemonKeeps == ASSUME QueueOK, AroundOK, DaemonStep PROVE QueueOK' /\ AroundOK'
<1>1. {"says idle", "says listening", "says approval", "capture-start", "capture-stop"} \subseteq SatEvents
  BY DEF SatEvents, RemoteStates
<1>2. QueueOK'
  <2>1. CASE DaemonAnswersWake
    <3>1. PICK q \in Seq(SatEvents) : Len(q) <= SatDepth /\ satQueue' = Queued(q, "says listening")
      BY <1>1, <2>1, QueuedKeeps DEF DaemonAnswersWake, QueueOK
    <3> QED
      BY <1>1, <3>1, QueuedKeeps DEF QueueOK
  <2>2. ~DaemonAnswersWake => UNCHANGED satQueue \/ \E ev \in SatEvents : Post(ev)
    BY <1>1 DEF DaemonStep, WakeIsLost, DaemonSpeaks, DaemonInterrupts, DaemonAsks, DaemonIsAnswered, DaemonHangsUp,
       DaemonRecords
  <2> QED
    BY <2>1, <2>2, PostKeeps DEF QueueOK
<1>3. AroundOK'
  BY DEF AroundOK, Flushed, DaemonStep, DaemonAnswersWake, WakeIsLost, DaemonSpeaks, DaemonInterrupts, DaemonAsks,
     DaemonIsAnswered, DaemonHangsUp, DaemonRecords
<1> QED
  BY <1>2, <1>3

LEMMA SatInitHolds == SatInit => MachineOK /\ QueueOK /\ AroundOK
<1> SUFFICES ASSUME SatInit PROVE MachineOK /\ QueueOK /\ AroundOK
  OBVIOUS
<1>1. MachineOK
  BY DEF SatInit, MachineOK, SatStates, DriversFollowTheState, InConversation, Conversation
<1>2. QueueOK
  BY EmptySeq, SatelliteAssumption DEF SatInit, QueueOK
<1>3. AroundOK
  <2>1. 0 \in 0..MaxSentences
    BY SatelliteAssumption
  <2> QED
    BY <2>1 DEF SatInit, AroundOK
<1> QED
  BY <1>1, <1>2, <1>3

LEMMA SatStep ==
  ASSUME MachineOK, QueueOK, AroundOK, [SatNext]_satVars
  PROVE  MachineOK' /\ QueueOK' /\ AroundOK'
<1>1. CASE UNCHANGED satVars
  BY <1>1, MachineWaits DEF satVars, QueueOK, AroundOK
<1>2. CASE Handle
  BY <1>2, HandleStep
<1>3. CASE SpeakerStep
  <2>1. UNCHANGED <<satState, satFacts, satDrivers>>
    BY <1>3 DEF SpeakerStep, NoticeFlush, StartPlaying, PlayRest, RunDry
  <2> QED
    BY <1>3, <2>1, MachineWaits, SpeakerKeeps
<1>4. CASE BoardStep
  <2>1. UNCHANGED <<satState, satFacts, satDrivers>>
    BY <1>4 DEF BoardStep, GetAddress, LoseAddress, Connect, Disconnect, Reject, SayWakeWord, EndSentence, Breaks,
       TimePasses, TickPosts
  <2> QED
    BY <1>4, <2>1, MachineWaits, BoardKeeps
<1>5. CASE DaemonStep
  <2>1. UNCHANGED <<satState, satFacts, satDrivers>>
    BY <1>5 DEF DaemonStep, DaemonAnswersWake, WakeIsLost, DaemonSpeaks, DaemonInterrupts, DaemonAsks,
       DaemonIsAnswered, DaemonHangsUp, DaemonRecords
  <2> QED
    BY <1>5, <2>1, MachineWaits, DaemonKeeps
<1> QED
  BY <1>1, <1>2, <1>3, <1>4, <1>5 DEF SatNext

(* Whatever the tasks of a board post and in whichever order, a full queue and a lost event  *)
(* included, sound leaves the room only in a conversation or a recording, the wake word is   *)
(* off exactly then, and the microphone is silenced while the board speaks: leave, enter and *)
(* go of satellite/main/state/state.c.                                                       *)
THEOREM SatelliteAlwaysHolds == SatSpec => []SatelliteHolds
<1> DEFINE Inv == MachineOK /\ QueueOK /\ AroundOK
<1>1. SatInit => Inv
  BY SatInitHolds
<1>2. Inv /\ [SatNext]_satVars => Inv'
  BY SatStep
<1>3. Inv => SatelliteHolds
  BY SatelliteParts
<1> QED
  BY <1>1, <1>2, <1>3, PTL DEF SatSpec

=============================================================================
