---------------------------- MODULE Screens_proofs ----------------------------
(*****************************************************************************)
(* Proofs about the screens: the terminal, and the lists of chats the        *)
(* devices show.                                                             *)
(*****************************************************************************)
EXTENDS Terminal, ChatLists, FiniteSetTheorems, SequenceTheorems, TLAPS

-----------------------------------------------------------------------------
(*****************************************************************************)
(* The questions.  Whatever is in the channel of questions that are over is  *)
(* over; a question is on screen only once it was presented; and the answer  *)
(* that allows is one a person gave.                                         *)
(*****************************************************************************)
QuestionsTyped ==
    /\ question \in [Asking -> {"quiet", "offered", "waiting", "over", "yes", "no", "failed"}]
    /\ reply \in [Asking -> Seq(0..Offers)]
    /\ overs \in Seq(Asking) /\ Len(overs) <= ClearRoom
    /\ modal \subseteq Asking /\ overtaken \subseteq Asking
    /\ stage \in {"running", "stopped", "released", "closed"}

OneOnScreen == \A c, d \in modal : c = d
AnswersAreSingle == \A c \in Asking : Len(reply[c]) <= 1
ClearedAreOver == \A i \in 1..Len(overs) : question[overs[i]] \in {"yes", "no", "failed"}
ShownWerePresented == \A c \in modal : question[c] \notin {"quiet", "offered"}
YesIsAPersons == \A c \in Asking : reply[c] # <<>> /\ reply[c][1] \in 1..Offers => c \in allowed

QuestionInv ==
    /\ QuestionsTyped /\ OneOnScreen /\ AnswersAreSingle
    /\ ClearedAreOver /\ ShownWerePresented /\ YesIsAPersons /\ QuestionsAreShown

(*****************************************************************************)
(* The panes.  The palette excludes the other overlays, and the keyboard is  *)
(* at a station of the ring that is on screen.                               *)
(*****************************************************************************)
Files == {"user", "agent"} \X Ids
PaneStates ==
    [talk : SUBSET Ids, kind : {"user", "agent"}, logs : BOOLEAN, palette : Steps,
     armed : SUBSET Ids, tool : BOOLEAN, inspect : {Shut, "board", "tools"}, typing : BOOLEAN]
AtMostOne(S) == \A x, y \in S : x = y
ScreenOK(p) ==
    /\ p \in PaneStates /\ AtMostOne(p.talk) /\ AtMostOne(p.armed)
    /\ p.palette # Shut => ~p.tool /\ p.inspect = Shut

PaneInv ==
    /\ ScreenOK(panes)
    /\ known \subseteq Files /\ stored \subseteq Files /\ found \in BOOLEAN
    /\ opener \in {"opening", "failed", "delivered", "taken", "ended"}
    /\ station \in 1..Len(Ring(panes))
    /\ ConversationIsThere

-----------------------------------------------------------------------------
(*****************************************************************************)
(* The questions.                                                            *)
(*****************************************************************************)

(* A question stays as it is when only the panes change. *)
LEMMA QuestionsKept ==
  ASSUME QuestionInv, UNCHANGED questionVars,
         stage' \in {"running", "stopped", "released", "closed"}, stage' = "running" => stage = "running"
  PROVE  QuestionInv'
<1>1. QuestionsTyped' /\ OneOnScreen' /\ AnswersAreSingle'
  BY DEF QuestionInv, QuestionsTyped, OneOnScreen, AnswersAreSingle, questionVars
<1>2. ClearedAreOver' /\ ShownWerePresented' /\ YesIsAPersons'
  BY DEF QuestionInv, ClearedAreOver, ShownWerePresented, YesIsAPersons, questionVars
<1>3. QuestionsAreShown'
  BY DEF QuestionInv, QuestionsAreShown, questionVars, Contains
<1> QED
  BY <1>1, <1>2, <1>3 DEF QuestionInv

(* A channel with one more question that is over, and one less at the front. *)
LEMMA OversGrow ==
  ASSUME NEW c \in Asking, overs \in Seq(Asking)
  PROVE  /\ Append(overs, c) \in Seq(Asking) /\ Len(Append(overs, c)) = Len(overs) + 1
         /\ \A i \in 1..Len(overs) : Append(overs, c)[i] = overs[i]
         /\ Append(overs, c)[Len(overs) + 1] = c
OBVIOUS

LEMMA OversShrink ==
  ASSUME overs \in Seq(Asking), overs # <<>>
  PROVE  /\ Tail(overs) \in Seq(Asking) /\ Len(Tail(overs)) = Len(overs) - 1
         /\ Head(overs) = overs[1] /\ Len(overs) \in Nat \ {0}
         /\ \A i \in 1..Len(overs) - 1 : Tail(overs)[i] = overs[i + 1]
<1>1. Len(overs) \in Nat /\ Len(overs) # 0
  BY LenProperties, EmptySeq
<1> QED
  BY <1>1, HeadTailProperties

(* A question that ends: it is told of, if it was on screen and there is room. *)
LEMMA EndsQuestion ==
  ASSUME QuestionInv, NEW c \in Asking, NEW e \in {"yes", "no", "failed"}, NEW told \in BOOLEAN,
         question[c] \in {"offered", "waiting"}, question[c] = "waiting" => told,
         e = "yes" => c \in allowed,
         question' = [question EXCEPT ![c] = e],
         overs' = IF told /\ Len(overs) < ClearRoom THEN Append(overs, c) ELSE overs,
         unsaid' = IF told /\ ~(Len(overs) < ClearRoom) THEN unsaid \cup {c} ELSE unsaid,
         UNCHANGED <<reply, modal, overtaken, allowed, stage>>
  PROVE  QuestionInv'
<1> USE DEF QuestionInv
<1>1. Len(overs) \in Nat /\ ClearRoom \in Nat
  BY LenProperties, TerminalAssumption DEF QuestionsTyped
<1>2. question' \in [Asking -> {"quiet", "offered", "waiting", "over", "yes", "no", "failed"}]
  BY DEF QuestionsTyped
<1>3. question'[c] = e /\ \A d \in Asking : d # c => question'[d] = question[d]
  BY DEF QuestionsTyped
<1>4. CASE told /\ Len(overs) < ClearRoom
  <2>1. /\ overs' \in Seq(Asking) /\ Len(overs') = Len(overs) + 1
        /\ \A i \in 1..Len(overs) : overs'[i] = overs[i]
        /\ overs'[Len(overs) + 1] = c
    BY <1>4, OversGrow DEF QuestionsTyped
  <2>2. QuestionsTyped'
    BY <1>1, <1>2, <1>4, <2>1 DEF QuestionsTyped
  <2>3. ClearedAreOver'
    <3> SUFFICES ASSUME NEW i \in 1..Len(overs') PROVE question'[overs'[i]] \in {"yes", "no", "failed"}
      BY DEF ClearedAreOver
    <3>1. CASE i = Len(overs) + 1
      BY <3>1, <2>1, <1>3
    <3>2. CASE i \in 1..Len(overs)
      <4>1. overs'[i] = overs[i] /\ overs[i] \in Asking /\ question[overs[i]] \in {"yes", "no", "failed"}
        BY <3>2, <2>1 DEF ClearedAreOver, QuestionsTyped
      <4> QED
        BY <4>1, <1>3
    <3> QED
      BY <3>1, <3>2, <2>1, <1>1
  <2>4. \A d \in modal : Contains(overs, d) => Contains(overs', d)
    BY <2>1, <1>1 DEF Contains
  <2>5. Contains(overs', c)
    BY <2>1, <1>1 DEF Contains
  <2>6. QuestionsAreShown'
    BY <2>4, <2>5, <1>3, <1>4 DEF QuestionsAreShown, QuestionsTyped
  <2> QED
    BY <2>2, <2>3, <2>6, <1>3 DEF OneOnScreen, AnswersAreSingle, ShownWerePresented, YesIsAPersons, QuestionsTyped
<1>5. CASE ~(told /\ Len(overs) < ClearRoom)
  <2>1. overs' = overs
    BY <1>5
  <2>2. QuestionsTyped'
    BY <1>2, <2>1 DEF QuestionsTyped
  <2>3. ClearedAreOver'
    BY <2>1, <1>3 DEF ClearedAreOver, QuestionsTyped
  <2>4. c \in modal => c \in unsaid'
    BY <1>5, <1>1 DEF ShownWerePresented
  <2>5. unsaid \subseteq unsaid'
    OBVIOUS
  <2>6. QuestionsAreShown'
    BY <2>1, <2>4, <2>5, <1>3 DEF QuestionsAreShown, QuestionsTyped, Contains
  <2> QED
    BY <2>2, <2>3, <2>6, <1>3 DEF OneOnScreen, AnswersAreSingle, ShownWerePresented, YesIsAPersons, QuestionsTyped
<1> QED
  BY <1>4, <1>5

LEMMA OfferKeeps ==
  ASSUME QuestionInv, NEW c \in Asking, Offer(c)
  PROVE  QuestionInv'
<1> USE DEF QuestionInv, Offer, Frozen
<1>1. QuestionsTyped'
  BY DEF QuestionsTyped
<1>2. question'[c] = "offered" /\ \A d \in Asking : d # c => question'[d] = question[d]
  BY DEF QuestionsTyped
<1>3. c \notin modal /\ question[c] = "quiet"
  BY DEF ShownWerePresented
<1>4. ClearedAreOver'
  BY <1>2, <1>3 DEF ClearedAreOver, QuestionsTyped
<1>5. QuestionsAreShown'
  BY <1>2, <1>3 DEF QuestionsAreShown, QuestionsTyped, Contains
<1> QED
  BY <1>1, <1>2, <1>3, <1>4, <1>5
  DEF OneOnScreen, AnswersAreSingle, ShownWerePresented, YesIsAPersons, QuestionsTyped

LEMMA OnAskKeeps ==
  ASSUME QuestionInv, NEW c \in Asking, OnAsk(c)
  PROVE  QuestionInv'
<1> USE DEF QuestionInv, OnAsk, Frozen
<1>1. QuestionsTyped'
  BY DEF QuestionsTyped
<1>2. question'[c] = "waiting" /\ \A d \in Asking : d # c => question'[d] = question[d]
  BY DEF QuestionsTyped
<1>3. modal' = {c} /\ overtaken' = overtaken \cup modal /\ question[c] = "offered"
  OBVIOUS
<1>4. ClearedAreOver'
  BY <1>2, <1>3 DEF ClearedAreOver, QuestionsTyped
<1>5. QuestionsAreShown'
  <2>1. \A d \in Asking \ overtaken' : question'[d] = "waiting" /\ reply'[d] = <<>> => modal' = {d}
    BY <1>2, <1>3 DEF QuestionsAreShown
  <2>2. \A d \in Asking : question'[d] = "yes" => d \in allowed'
    BY <1>2 DEF QuestionsAreShown
  <2> QED
    BY <2>1, <2>2, <1>2, <1>3 DEF QuestionsAreShown
<1> QED
  BY <1>1, <1>2, <1>3, <1>4, <1>5
  DEF OneOnScreen, AnswersAreSingle, ShownWerePresented, YesIsAPersons, QuestionsTyped

LEMMA OnAskClearedKeeps ==
  ASSUME QuestionInv, OnAskCleared
  PROVE  QuestionInv'
<1> USE DEF QuestionInv, OnAskCleared, Frozen
<1>1. /\ overs' \in Seq(Asking) /\ Len(overs') = Len(overs) - 1
      /\ Head(overs) = overs[1] /\ Len(overs) \in Nat \ {0}
      /\ \A i \in 1..Len(overs) - 1 : overs'[i] = overs[i + 1]
  BY OversShrink DEF QuestionsTyped
<1>2. ClearRoom \in Nat
  BY TerminalAssumption
<1>3. QuestionsTyped'
  BY <1>1, <1>2 DEF QuestionsTyped
<1>4. ClearedAreOver'
  <2> SUFFICES ASSUME NEW i \in 1..Len(overs') PROVE question[overs'[i]] \in {"yes", "no", "failed"}
    BY DEF ClearedAreOver
  <2>1. i + 1 \in 1..Len(overs) /\ overs'[i] = overs[i + 1]
    BY <1>1
  <2> QED
    BY <2>1 DEF ClearedAreOver
<1>5. question[Head(overs)] # "waiting"
  <2>1. 1 \in 1..Len(overs)
    BY <1>1
  <2> QED
    BY <1>1, <2>1 DEF ClearedAreOver
<1>6. ASSUME NEW d \in modal', Contains(overs, d) PROVE Contains(overs', d)
  <2>1. PICK i \in 1..Len(overs) : overs[i] = d
    BY <1>6 DEF Contains
  <2>2. i # 1
    BY <2>1, <1>1, <1>6
  <2>3. i - 1 \in 1..Len(overs') /\ overs'[i - 1] = overs[i]
    BY <2>2, <1>1
  <2> QED
    BY <2>1, <2>3 DEF Contains
<1>7. QuestionsAreShown'
  <2>1. ASSUME stage = "running", NEW d \in Asking \ overtaken, question[d] = "waiting", reply[d] = <<>>
        PROVE  modal' = {d}
    BY <2>1, <1>5 DEF QuestionsAreShown
  <2>2. \A d \in modal' : question[d] # "waiting" => d \in unsaid \/ Contains(overs', d)
    BY <1>6 DEF QuestionsAreShown
  <2> QED
    BY <2>1, <2>2 DEF QuestionsAreShown
<1> QED
  BY <1>3, <1>4, <1>7 DEF OneOnScreen, AnswersAreSingle, ShownWerePresented, YesIsAPersons

LEMMA ReplyKeeps ==
  ASSUME QuestionInv, NEW i \in 0..Offers, Reply(i)
  PROVE  QuestionInv'
<1> USE DEF QuestionInv, Reply, Frozen
<1>1. PICK c \in modal :
        /\ reply' = [reply EXCEPT ![c] = IF @ = <<>> THEN <<i>> ELSE @]
        /\ allowed' = IF reply[c] = <<>> /\ i \in 1..Offers THEN allowed \cup {c} ELSE allowed
  OBVIOUS
<1>2. modal = {c} /\ c \in Asking
  BY <1>1 DEF OneOnScreen, QuestionsTyped
<1>3. <<i>> \in Seq(0..Offers) /\ Len(<<i>>) = 1 /\ <<i>>[1] = i /\ <<i>> # <<>>
  OBVIOUS
<1>4. /\ reply' \in [Asking -> Seq(0..Offers)]
      /\ reply'[c] = IF reply[c] = <<>> THEN <<i>> ELSE reply[c]
      /\ \A d \in Asking : d # c => reply'[d] = reply[d]
  BY <1>1, <1>2, <1>3 DEF QuestionsTyped
<1>5. QuestionsTyped'
  BY <1>4 DEF QuestionsTyped, NoQuestion
<1>6. AnswersAreSingle'
  BY <1>3, <1>4 DEF AnswersAreSingle
<1>7. YesIsAPersons'
  BY <1>1, <1>2, <1>3, <1>4 DEF YesIsAPersons
<1>8. QuestionsAreShown'
  <2>1. ASSUME stage = "running", NEW d \in Asking \ overtaken, question[d] = "waiting", reply'[d] = <<>>
        PROVE  FALSE
    <3>1. reply'[c] # <<>>
      BY <1>3, <1>4
    <3>2. d # c /\ reply[d] = <<>>
      BY <2>1, <3>1, <1>4
    <3>3. modal = {d}
      BY <2>1, <3>2 DEF QuestionsAreShown
    <3> QED
      BY <3>2, <3>3, <1>2
  <2>2. allowed \subseteq allowed'
    BY <1>1
  <2> QED
    BY <2>1, <2>2 DEF QuestionsAreShown, NoQuestion
<1> QED
  BY <1>5, <1>6, <1>7, <1>8 DEF OneOnScreen, ClearedAreOver, ShownWerePresented, NoQuestion

LEMMA QuestionsInductive ==
  ASSUME QuestionInv, PaneInv, [TerminalNext]_terminalVars
  PROVE  QuestionInv'
<1>1. CASE UNCHANGED terminalVars
  BY <1>1, QuestionsKept DEF terminalVars, QuestionInv, QuestionsTyped
<1>2. ASSUME NEW c \in Asking, Heard(c) PROVE QuestionInv'
  <2> DEFINE e == IF reply[c][1] \in 1..Offers THEN "yes" ELSE "no"
  <2>1. e = "yes" => c \in allowed
    BY <1>2 DEF Heard, QuestionInv, YesIsAPersons
  <2>2. /\ question' = [question EXCEPT ![c] = e]
        /\ overs' = IF TRUE /\ Len(overs) < ClearRoom THEN Append(overs, c) ELSE overs
        /\ unsaid' = IF TRUE /\ ~(Len(overs) < ClearRoom) THEN unsaid \cup {c} ELSE unsaid
        /\ UNCHANGED <<reply, modal, overtaken, allowed, stage>> /\ question[c] = "waiting"
    BY <1>2 DEF Heard, Frozen
  <2>3. e \in {"yes", "no", "failed"}
    OBVIOUS
  <2> HIDE DEF e
  <2> QED
    BY <2>1, <2>2, <2>3, EndsQuestion
<1>3. ASSUME NEW c \in Asking, GiveUp(c) PROVE QuestionInv'
  <2> DEFINE told == question[c] = "waiting"
  <2>1. /\ question' = [question EXCEPT ![c] = "failed"]
        /\ overs' = IF told /\ Len(overs) < ClearRoom THEN Append(overs, c) ELSE overs
        /\ unsaid' = IF told /\ ~(Len(overs) < ClearRoom) THEN unsaid \cup {c} ELSE unsaid
        /\ UNCHANGED <<reply, modal, overtaken, allowed, stage>> /\ question[c] \in {"offered", "waiting"}
    BY <1>3 DEF GiveUp, Frozen
  <2>2. told \in BOOLEAN /\ (question[c] = "waiting" => told)
    OBVIOUS
  <2> HIDE DEF told
  <2> QED
    BY <2>1, <2>2, EndsQuestion
<1>4. ASSUME NEW c \in Asking, CancelCall(c) PROVE QuestionInv'
  <2>1. UNCHANGED <<question, reply, overs, modal, overtaken, unsaid, allowed, stage>>
    BY <1>4 DEF CancelCall, Frozen
  <2> QED
    BY <2>1 DEF QuestionInv, QuestionsTyped, OneOnScreen, AnswersAreSingle, ClearedAreOver, ShownWerePresented,
       YesIsAPersons, QuestionsAreShown, Contains
<1>5. CASE Release
  <2>1. UNCHANGED <<question, reply, overs, modal, overtaken, unsaid, allowed>> /\ stage' = "released"
    BY <1>5 DEF Release
  <2> QED
    BY <2>1 DEF QuestionInv, QuestionsTyped, OneOnScreen, AnswersAreSingle, ClearedAreOver, ShownWerePresented,
       YesIsAPersons, QuestionsAreShown, Contains
<1>6. CASE Quit \/ CloseWorkspace
  BY <1>6, QuestionsKept DEF Quit, CloseWorkspace, NoQuestionTouched
<1>7. CASE \/ RefreshLists \/ Opened \/ OnOpened
           \/ \E kind \in {"user", "agent"}, x \in Ids : DeletedElsewhere(kind, x) \/ WrittenElsewhere(kind, x)
  <2>1. UNCHANGED <<questionVars, stage>>
    BY <1>7 DEF RefreshLists, Opened, OnOpened, DeletedElsewhere, WrittenElsewhere, NoQuestionTouched, Frozen
  <2> QED
    BY <2>1, QuestionsKept DEF QuestionInv, QuestionsTyped
<1>8. CASE Keys
  <2>1. CASE \E i \in 0..Offers : Reply(i)
    BY <2>1, ReplyKeeps
  <2>2. CASE ~\E i \in 0..Offers : Reply(i)
    <3> SUFFICES UNCHANGED <<questionVars, stage>>
      BY QuestionsKept DEF QuestionInv, QuestionsTyped
    <3>1. CASE Tab \/ Click \/ OpenPalette \/ EscapePalette \/ GoToStep \/ ToggleLogs \/ ToggleInspect \/ Inspect
               \/ ToolOverlay
      BY <3>1 DEF Tab, Click, OpenPalette, EscapePalette, GoToStep, ToggleLogs, ToggleInspect, Inspect, ToolOverlay,
         NoQuestionTouched, Frozen
    <3>2. CASE OpenTalk \/ OpenFails \/ StartChat \/ SubmitLine \/ FireRun \/ FireFails
      BY <3>2 DEF OpenTalk, OpenFails, StartChat, SubmitLine, FireRun, FireFails, NoQuestionTouched, Frozen
    <3>3. CASE ArmDelete \/ ConfirmDelete \/ DeleteFails
      BY <3>3, Zenon DEF ArmDelete, ConfirmDelete, DeleteFails, NoQuestionTouched, Frozen
    <3> QED
      BY <1>8, <2>2, <3>1, <3>2, <3>3 DEF Keys
  <2> QED
    BY <2>1, <2>2
<1> QED
  BY <1>1, <1>2, <1>3, <1>4, <1>5, <1>6, <1>7, <1>8, OfferKeeps, OnAskKeeps, OnAskClearedKeeps DEF TerminalNext

-----------------------------------------------------------------------------
(*****************************************************************************)
(* The panes.                                                                *)
(*****************************************************************************)

(* The ring, as it may be. *)
Stations == {"list", "transcript", "logs", "composer"}

LEMMA Rings ==
  ASSUME NEW p \in PaneStates
  PROVE  /\ Len(Ring(p)) = 2 + (IF p.logs THEN 1 ELSE 0) + (IF ReadOnly(p) THEN 0 ELSE 1)
         /\ Len(Ring(p)) \in 2..4
         /\ \A i \in 1..Len(Ring(p)) : Ring(p)[i] = "list" => i = 1
         /\ \A i \in 1..Len(Ring(p)) : Ring(p)[i] = "composer" => ~ReadOnly(p)
         /\ DOMAIN Ring(p) = 1..Len(Ring(p))
<1> DEFINE two == <<"list", "transcript">>
           logs == IF p.logs THEN <<"logs">> ELSE <<>>
           last == IF ReadOnly(p) THEN <<>> ELSE <<"composer">>
<1>1. two \in Seq(Stations) /\ Len(two) = 2 /\ two[1] = "list" /\ two[2] = "transcript"
  BY DEF Stations
<1>2. logs \in Seq(Stations) /\ Len(logs) = (IF p.logs THEN 1 ELSE 0) /\ \A i \in 1..Len(logs) : logs[i] = "logs"
  <2>1. <<"logs">> \in Seq(Stations) /\ Len(<<"logs">>) = 1 /\ <<"logs">>[1] = "logs"
    BY DEF Stations
  <2>2. <<>> \in Seq(Stations) /\ Len(<<>>) = 0
    OBVIOUS
  <2> QED
    BY <2>1, <2>2
<1>3. last \in Seq(Stations) /\ Len(last) = (IF ReadOnly(p) THEN 0 ELSE 1) /\ \A i \in 1..Len(last) : last[i] # "list"
  <2>1. <<"composer">> \in Seq(Stations) /\ Len(<<"composer">>) = 1 /\ <<"composer">>[1] = "composer"
    BY DEF Stations
  <2>2. <<>> \in Seq(Stations) /\ Len(<<>>) = 0
    OBVIOUS
  <2> QED
    BY <2>1, <2>2
<1>4. Ring(p) = (two \o logs) \o last
  BY DEF Ring
<1> HIDE DEF two, logs, last
<1>5. /\ two \o logs \in Seq(Stations) /\ Len(two \o logs) = 2 + Len(logs)
      /\ \A i \in 1..Len(two \o logs) : (two \o logs)[i] = "list" => i = 1
      /\ \A i \in 1..Len(two \o logs) : (two \o logs)[i] # "composer"
  <2>1. /\ two \o logs \in Seq(Stations) /\ Len(two \o logs) = 2 + Len(logs)
        /\ \A i \in 1..Len(two \o logs) : (two \o logs)[i] = IF i <= 2 THEN two[i] ELSE logs[i - 2]
    <3>1. two \in Seq(Stations) /\ logs \in Seq(Stations) /\ Len(two) = 2
      BY <1>1, <1>2
    <3>2. /\ two \o logs \in Seq(Stations) /\ Len(two \o logs) = Len(two) + Len(logs)
          /\ \A i \in 1..Len(two) + Len(logs) : (two \o logs)[i] = IF i <= Len(two) THEN two[i] ELSE logs[i - Len(two)]
      BY <3>1, ConcatProperties
    <3> QED
      BY <3>1, <3>2
  <2>2. ASSUME NEW i \in 1..Len(two \o logs), (two \o logs)[i] = "list" PROVE i = 1
    <3>1. CASE i <= 2
      BY <3>1, <2>1, <2>2, <1>1
    <3>2. CASE i > 2
      <4>1. i - 2 \in 1..Len(logs) /\ (two \o logs)[i] = logs[i - 2]
        BY <3>2, <2>1, <1>2
      <4> QED
        BY <4>1, <2>2, <1>2
    <3> QED
      BY <3>1, <3>2
  <2>3. ASSUME NEW i \in 1..Len(two \o logs) PROVE (two \o logs)[i] # "composer"
    <3>1. CASE i <= 2
      BY <3>1, <2>1, <1>1
    <3>2. CASE i > 2
      <4>1. i - 2 \in 1..Len(logs) /\ (two \o logs)[i] = logs[i - 2]
        BY <3>2, <2>1, <1>2
      <4> QED
        BY <4>1, <1>2
    <3> QED
      BY <3>1, <3>2
  <2> QED
    BY <2>1, <2>2, <2>3
<1>6. /\ Ring(p) \in Seq(Stations) /\ Len(Ring(p)) = 2 + Len(logs) + Len(last)
      /\ \A i \in 1..Len(Ring(p)) : Ring(p)[i] = IF i <= Len(two \o logs) THEN (two \o logs)[i]
                                                ELSE last[i - Len(two \o logs)]
  <2>1. last \in Seq(Stations) /\ two \o logs \in Seq(Stations)
    BY <1>3, <1>5
  <2>2. PICK front \in Seq(Stations) : front = two \o logs
    BY <2>1
  <2>3. /\ front \o last \in Seq(Stations) /\ Len(front \o last) = Len(front) + Len(last)
        /\ \A i \in 1..Len(front) + Len(last) : (front \o last)[i] = IF i <= Len(front) THEN front[i]
                                                                    ELSE last[i - Len(front)]
    BY <2>1, ConcatProperties
  <2>4. Ring(p) = front \o last /\ Len(front) = 2 + Len(logs)
    BY <1>4, <1>5, <2>2
  <2> QED
    BY <2>2, <2>3, <2>4
<1>7. ASSUME NEW i \in 1..Len(Ring(p)), Ring(p)[i] = "list" PROVE i = 1
  <2>1. CASE i <= Len(two \o logs)
    BY <2>1, <1>5, <1>6, <1>7, <1>2
  <2>2. CASE ~(i <= Len(two \o logs))
    <3>1. i - Len(two \o logs) \in 1..Len(last) /\ Ring(p)[i] = last[i - Len(two \o logs)]
      BY <2>2, <1>2, <1>3, <1>5, <1>6
    <3> QED
      BY <3>1, <1>3, <1>7
  <2> QED
    BY <2>1, <2>2
<1>11. ASSUME NEW i \in 1..Len(Ring(p)), Ring(p)[i] = "composer" PROVE ~ReadOnly(p)
  <2>1. ~(i <= Len(two \o logs))
    <3>1. Ring(p)[i] = IF i <= Len(two \o logs) THEN (two \o logs)[i] ELSE last[i - Len(two \o logs)]
      BY <1>6
    <3>2. i <= Len(two \o logs) => i \in 1..Len(two \o logs)
      BY <1>2, <1>5
    <3>3. \A j \in 1..Len(two \o logs) : (two \o logs)[j] # "composer"
      BY <1>5
    <3> HIDE DEF two, logs, last
    <3> QED
      BY <3>1, <3>2, <3>3, <1>11
  <2>2. i - Len(two \o logs) \in 1..Len(last)
    BY <2>1, <1>2, <1>3, <1>5, <1>6
  <2> QED
    BY <2>2, <1>3
<1>8. DOMAIN Ring(p) = 1..Len(Ring(p))
  BY <1>6, LenProperties
<1>9. p.logs \in BOOLEAN
  BY DEF PaneStates
<1>10. Len(Ring(p)) \in 2..4
  BY <1>2, <1>3, <1>6
<1> QED
  BY <1>2, <1>3, <1>6, <1>7, <1>8, <1>10, <1>11

(* After a frame the keyboard is in the ring, if its place is still there or *)
(* the chat is on screen and something was wanted.                           *)
LEMMA Lands ==
  ASSUME PaneInv, NEW p \in PaneStates, NEW want,
         station \in 1..Len(Ring(p)) \/ (want # Nothing /\ Mode(p, modal) = "chat")
  PROVE  Landing(p, modal, want) \in 1..Len(Ring(p))
<1> DEFINE ring == Ring(p)
           kept == IF station \in 1..Len(ring) THEN station ELSE 0
<1>1. Len(ring) \in 2..4 /\ DOMAIN ring = 1..Len(ring)
  BY Rings
<1>2. CASE want = Nothing \/ Mode(p, modal) # "chat"
  BY <1>2 DEF Landing
<1>3. CASE ~(want = Nothing \/ Mode(p, modal) # "chat") /\ \E i \in DOMAIN ring : ring[i] = want
  <2>1. Landing(p, modal, want) = CHOOSE i \in DOMAIN ring : ring[i] = want
    BY <1>3 DEF Landing
  <2>2. (CHOOSE i \in DOMAIN ring : ring[i] = want) \in DOMAIN ring
    BY <1>3
  <2> QED
    BY <2>1, <2>2, <1>1
<1>4. CASE ~(want = Nothing \/ Mode(p, modal) # "chat") /\ ~\E i \in DOMAIN ring : ring[i] = want
  <2>1. Landing(p, modal, want) = IF kept = 0 THEN 1 ELSE kept
    BY <1>4 DEF Landing
  <2>2. kept \in 0..Len(ring) /\ Len(ring) >= 1
    BY <1>1
  <2> HIDE DEF kept, ring
  <2>3. (IF kept = 0 THEN 1 ELSE kept) \in 1..Len(ring)
    BY <2>2, <1>1
  <2> QED
    BY <2>1, <2>3 DEF ring
<1> QED
  BY <1>2, <1>3, <1>4

LEMMA Shows ==
  ASSUME PaneInv, NEW p, NEW want, Show(p, want), ScreenOK(p),
         station \in 1..Len(Ring(p)) \/ (want # Nothing /\ Mode(p, modal) = "chat"),
         known' \subseteq Files, stored' \subseteq Files, found' \in BOOLEAN,
         found' => p.talk # NewChat /\ OnScreen(p) \subseteq stored', UNCHANGED opener
  PROVE  PaneInv'
<1>1. panes' = p /\ station' = Landing(p, modal, want)
  BY DEF Show
<1>2. station' \in 1..Len(Ring(p))
  BY <1>1, Lands DEF ScreenOK
<1>3. station' \in 1..Len(Ring(panes'))
  BY <1>1, <1>2
<1>4. ScreenOK(panes')
  BY <1>1
<1> QED
  BY <1>1, <1>3, <1>4 DEF PaneInv, ConversationIsThere

(* An overlay's step: the ring and the conversation stay. *)
LEMMA ShowsSame ==
  ASSUME PaneInv, NEW p, NEW want, Show(p, want), ScreenOK(p), NothingStored, Frozen,
         p.talk = panes.talk, p.kind = panes.kind, p.logs = panes.logs
  PROVE  PaneInv'
<1>1. p \in PaneStates /\ panes \in PaneStates
  BY DEF PaneInv, ScreenOK
<1>2. Ring(p) = Ring(panes)
  BY DEF Ring, ReadOnly
<1>3. UNCHANGED <<known, stored, found, opener>>
  BY DEF NothingStored, Frozen
<1>4. station \in 1..Len(Ring(p))
  BY <1>2 DEF PaneInv
<1>5. found' => p.talk # NewChat /\ OnScreen(p) \subseteq stored'
  BY <1>3 DEF PaneInv, ConversationIsThere, OnScreen
<1> QED
  BY <1>3, <1>4, <1>5, Shows DEF PaneInv

(* What the overlays' own updates make of the panes. *)
LEMMA Overlays ==
  ASSUME PaneInv
  PROVE  /\ ScreenOK(Closed(panes)) /\ Closed(panes).talk = panes.talk
         /\ Closed(panes).kind = panes.kind /\ Closed(panes).logs = panes.logs
         /\ Closed(panes).palette = Shut /\ Closed(panes).tool = panes.tool
         /\ Closed(panes).inspect = panes.inspect
         /\ \A s \in Steps : panes.palette # Shut \/ Mode(panes, modal) = "chat" =>
                /\ ScreenOK(AtStep(panes, s)) /\ AtStep(panes, s).talk = panes.talk
                /\ AtStep(panes, s).kind = panes.kind /\ AtStep(panes, s).logs = panes.logs
<1>1. panes \in PaneStates /\ AtMostOne(panes.talk) /\ AtMostOne(panes.armed)
  BY DEF PaneInv, ScreenOK
<1>2. Shut \in Steps
  BY DEF Steps
<1>3. /\ Closed(panes) \in PaneStates /\ Closed(panes).talk = panes.talk
      /\ Closed(panes).kind = panes.kind /\ Closed(panes).logs = panes.logs
      /\ Closed(panes).palette = Shut /\ Closed(panes).tool = panes.tool
      /\ Closed(panes).inspect = panes.inspect /\ Closed(panes).armed = {}
  BY <1>1, <1>2 DEF Closed, PaneStates
<1>4. ScreenOK(Closed(panes))
  BY <1>1, <1>3 DEF ScreenOK, AtMostOne
<1>5. ASSUME NEW s \in Steps, panes.palette # Shut \/ Mode(panes, modal) = "chat"
      PROVE  /\ ScreenOK(AtStep(panes, s)) /\ AtStep(panes, s).talk = panes.talk
             /\ AtStep(panes, s).kind = panes.kind /\ AtStep(panes, s).logs = panes.logs
  <2>1. /\ AtStep(panes, s) \in PaneStates /\ AtStep(panes, s).talk = panes.talk
        /\ AtStep(panes, s).kind = panes.kind /\ AtStep(panes, s).logs = panes.logs
        /\ AtStep(panes, s).tool = panes.tool /\ AtStep(panes, s).inspect = panes.inspect
        /\ AtStep(panes, s).armed \in {panes.armed, {}}
    BY <1>1 DEF AtStep, PaneStates
  <2>2. ~panes.tool /\ panes.inspect = Shut
    <3>1. panes.palette # Shut => ~panes.tool /\ panes.inspect = Shut
      BY DEF PaneInv, ScreenOK
    <3>2. Mode(panes, modal) = "chat" => ~panes.tool /\ panes.inspect = Shut
      BY DEF Mode
    <3> QED
      BY <3>1, <3>2, <1>5
  <2> QED
    BY <1>1, <2>1, <2>2 DEF ScreenOK, AtMostOne
<1> QED
  BY <1>3, <1>4, <1>5

(* With no question and no overlay the chat is on screen. *)
LEMMA ChatMode ==
  ASSUME NEW p
  PROVE  /\ p.palette = Shut /\ ~p.tool /\ p.inspect = Shut <=> Mode(p, NoQuestion) = "chat"
         /\ Handles("chat") => modal = NoQuestion /\ panes.palette = Shut /\ ~panes.tool /\ panes.inspect = Shut
         /\ Handles("palette") => modal = NoQuestion /\ panes.palette # Shut
         /\ Handles("tool") => panes.palette = Shut
         /\ Handles("inspect") => panes.palette = Shut /\ ~panes.tool
<1>1. p.palette = Shut /\ ~p.tool /\ p.inspect = Shut <=> Mode(p, NoQuestion) = "chat"
  BY DEF Mode
<1>2. Handles("chat") => modal = NoQuestion /\ panes.palette = Shut /\ ~panes.tool /\ panes.inspect = Shut
  BY DEF Mode, Handles
<1>3. Handles("palette") => modal = NoQuestion /\ panes.palette # Shut
  BY DEF Mode, Handles
<1>4. Handles("tool") => panes.palette = Shut
  BY DEF Mode, Handles
<1>5. Handles("inspect") => panes.palette = Shut /\ ~panes.tool
  BY DEF Mode, Handles
<1> QED
  BY <1>1, <1>2, <1>3, <1>4, <1>5

LEMMA OverlaySteps ==
  ASSUME PaneInv,
         Tab \/ Click \/ OpenPalette \/ EscapePalette \/ GoToStep \/ ToggleInspect \/ Inspect \/ ToolOverlay \/ ArmDelete
           \/ OpenFails \/ DeleteFails
  PROVE  PaneInv'
<1> USE ChatMode
<1>1. panes \in PaneStates /\ ScreenOK(panes)
  BY DEF PaneInv, ScreenOK
<1>2. {"root", "open", "delete", "fire", "confirm"} \subseteq Steps
  BY DEF Steps
<1>3. CASE Tab
  BY <1>1, <1>3, ShowsSame DEF Tab
<1>4. CASE Click
  BY <1>1, <1>4, ShowsSame DEF Click
<1>5. CASE OpenPalette
  <2>1. PICK s \in {"root", "fire"} : Show(AtStep(panes, s), Nothing)
    BY <1>5 DEF OpenPalette
  <2>2. Mode(panes, modal) = "chat" /\ NothingStored /\ Frozen
    BY <1>5 DEF OpenPalette, Handles
  <2> QED
    BY <1>2, <2>1, <2>2, Overlays, ShowsSame
<1>6. CASE EscapePalette
  <2>1. panes.palette # Shut /\ NothingStored /\ Frozen
    BY <1>6 DEF EscapePalette
  <2>2. CASE Show(Closed(panes), Composer(panes))
    BY <2>1, <2>2, Overlays, ShowsSame
  <2>3. CASE Show(AtStep(panes, "root"), Nothing)
    BY <1>2, <2>1, <2>3, Overlays, ShowsSame
  <2> QED
    BY <1>6, <2>2, <2>3 DEF EscapePalette
<1>7. CASE GoToStep
  <2>1. PICK s \in {"open", "delete", "fire"} : Show(AtStep(panes, s), Nothing)
    BY <1>7 DEF GoToStep
  <2>2. panes.palette # Shut /\ NothingStored /\ Frozen
    BY <1>7 DEF GoToStep
  <2> QED
    BY <1>2, <2>1, <2>2, Overlays, ShowsSame
<1>8. CASE ToggleInspect
  <2> DEFINE board(p) == [p EXCEPT !.inspect = "board", !.typing = FALSE]
  <2>1. NothingStored /\ Frozen
    BY <1>8 DEF ToggleInspect
  <2>2. CASE Handles("chat") /\ Show(board(panes), Nothing)
    <3>1. panes.palette = Shut
      BY <2>2
    <3>2. /\ board(panes) \in PaneStates /\ board(panes).talk = panes.talk /\ board(panes).kind = panes.kind
          /\ board(panes).logs = panes.logs /\ board(panes).palette = panes.palette
          /\ board(panes).armed = panes.armed
      BY <1>1 DEF PaneStates
    <3>3. ScreenOK(board(panes))
      BY <1>1, <3>1, <3>2 DEF ScreenOK
    <3> QED
      BY <2>1, <2>2, <3>2, <3>3, ShowsSame
  <2>3. CASE Handles("palette") /\ Show(board(Closed(panes)), Nothing)
    <3>1. /\ board(Closed(panes)) \in PaneStates /\ board(Closed(panes)).talk = panes.talk
          /\ board(Closed(panes)).kind = panes.kind /\ board(Closed(panes)).logs = panes.logs
          /\ board(Closed(panes)).palette = Shut /\ board(Closed(panes)).armed = Closed(panes).armed
      BY Overlays DEF PaneStates, ScreenOK
    <3>2. ScreenOK(board(Closed(panes)))
      BY <1>1, <3>1, Overlays DEF ScreenOK
    <3> QED
      BY <2>1, <2>3, <3>1, <3>2, ShowsSame
  <2>4. CASE Show([panes EXCEPT !.inspect = Shut], Composer(panes))
    <3> DEFINE p == [panes EXCEPT !.inspect = Shut]
    <3>1. /\ p \in PaneStates /\ p.talk = panes.talk /\ p.kind = panes.kind /\ p.logs = panes.logs
          /\ p.palette = panes.palette /\ p.tool = panes.tool /\ p.inspect = Shut /\ p.armed = panes.armed
      BY <1>1 DEF PaneStates
    <3>2. ScreenOK(p)
      BY <1>1, <3>1 DEF ScreenOK
    <3> QED
      BY <2>1, <2>4, <3>1, <3>2, ShowsSame
  <2> QED
    BY <1>8, <2>2, <2>3, <2>4 DEF ToggleInspect
<1>9. CASE Inspect
  <2>1. panes.palette = Shut /\ NothingStored /\ Frozen
    BY <1>9 DEF Inspect
  <2>2. PICK p \in {[panes EXCEPT !.inspect = "tools"], [panes EXCEPT !.typing = TRUE],
                    [panes EXCEPT !.typing = FALSE], [panes EXCEPT !.inspect = "board"]} : Show(p, Nothing)
    BY <1>9 DEF Inspect
  <2>3. /\ p \in PaneStates /\ p.talk = panes.talk /\ p.kind = panes.kind /\ p.logs = panes.logs
        /\ p.palette = panes.palette /\ p.armed = panes.armed
    BY <1>1, <2>2 DEF PaneStates
  <2>4. ScreenOK(p)
    BY <1>1, <2>1, <2>3 DEF ScreenOK
  <2> QED
    BY <2>1, <2>2, <2>3, <2>4, ShowsSame
<1>10. CASE ToolOverlay
  <2>1. panes.palette = Shut /\ NothingStored /\ Frozen
    BY <1>10 DEF ToolOverlay
  <2>2. PICK p \in {[panes EXCEPT !.tool = TRUE], [panes EXCEPT !.tool = FALSE]}, want \in {Nothing, Composer(panes)} :
            Show(p, want)
    BY <1>10 DEF ToolOverlay
  <2>3. /\ p \in PaneStates /\ p.talk = panes.talk /\ p.kind = panes.kind /\ p.logs = panes.logs
        /\ p.palette = panes.palette /\ p.armed = panes.armed
    BY <1>1, <2>2 DEF PaneStates
  <2>4. ScreenOK(p)
    BY <1>1, <2>1, <2>3 DEF ScreenOK
  <2> QED
    BY <2>1, <2>2, <2>3, <2>4, ShowsSame
<1>11. CASE ArmDelete
  <2>1. PICK row \in known : Show([panes EXCEPT !.palette = "confirm", !.armed = {row[2]}], Nothing)
    BY <1>11, Zenon DEF ArmDelete
  <2> PICK x : x = row[2]
    OBVIOUS
  <2>2. panes.palette # Shut /\ NothingStored /\ Frozen
    BY <1>11, Zenon DEF ArmDelete
  <2> DEFINE p == [panes EXCEPT !.palette = "confirm", !.armed = {x}]
  <2>3. x \in Ids
    BY DEF PaneInv, Files
  <2>4. /\ p \in PaneStates /\ p.talk = panes.talk /\ p.kind = panes.kind /\ p.logs = panes.logs
        /\ p.tool = panes.tool /\ p.inspect = panes.inspect /\ p.armed = {x}
    BY <1>1, <1>2, <2>3 DEF PaneStates
  <2>5. ScreenOK(p)
    BY <1>1, <2>2, <2>4 DEF ScreenOK, AtMostOne
  <2> QED
    BY <2>1, <2>2, <2>4, <2>5, ShowsSame
<1>12. CASE OpenFails \/ DeleteFails
  <2>1. NothingStored /\ Frozen
    BY <1>12 DEF OpenFails, DeleteFails
  <2>2. CASE Show(panes, Nothing)
    BY <1>1, <2>1, <2>2, ShowsSame
  <2>3. CASE Show(Closed(panes), Composer(panes))
    BY <2>1, <2>3, Overlays, ShowsSame
  <2> QED
    BY <1>12, <2>2, <2>3 DEF OpenFails, DeleteFails
<1> QED
  BY <1>3, <1>4, <1>5, <1>6, <1>7, <1>8, <1>9, <1>10, <1>11, <1>12

LEMMA LogsKeep ==
  ASSUME PaneInv, ToggleLogs
  PROVE  PaneInv'
<1>1. UNCHANGED <<known, stored, found, opener>>
  BY DEF ToggleLogs, NothingStored, Frozen
<1>2. PICK p \in {panes, Closed(panes)} :
        /\ Logs(p) /\ modal = NoQuestion /\ ScreenOK(p)
        /\ p.palette = Shut /\ ~p.tool /\ p.inspect = Shut /\ p.talk = panes.talk
        /\ p.kind = panes.kind
  <2>1. panes.palette # Shut => ~panes.tool /\ panes.inspect = Shut
    BY DEF PaneInv, ScreenOK
  <2>2. CASE Handles("chat") /\ Logs(panes)
    BY <2>2, ChatMode DEF PaneInv
  <2>3. CASE Handles("palette") /\ Logs(Closed(panes))
    BY <2>1, <2>3, ChatMode, Overlays
  <2> QED
    BY <2>2, <2>3 DEF ToggleLogs
<1> DEFINE q == [p EXCEPT !.logs = ~@]
           want == IF q.logs THEN "logs" ELSE "composer"
<1>3. /\ q \in PaneStates /\ q.talk = p.talk /\ q.kind = p.kind /\ q.armed = p.armed /\ q.palette = Shut
      /\ ~q.tool /\ q.inspect = Shut
  BY <1>2 DEF ScreenOK, PaneStates
<1>4. ScreenOK(q)
  BY <1>2, <1>3 DEF ScreenOK
<1>5. Show(q, want) /\ want # Nothing
  BY <1>2 DEF Logs, Nothing
<1>6. Mode(q, modal) = "chat"
  BY <1>2, <1>3 DEF Mode
<1>7. found' => q.talk # NewChat /\ OnScreen(q) \subseteq stored'
  BY <1>1, <1>2, <1>3 DEF PaneInv, ConversationIsThere, OnScreen
<1> HIDE DEF q, want
<1> QED
  BY <1>1, <1>4, <1>5, <1>6, <1>7, Shows DEF PaneInv

(* A screen without overlays. *)
TalkTo(p, t, k) == [p EXCEPT !.talk = t, !.kind = k]
Plain(p) == ScreenOK(p) /\ p.palette = Shut /\ ~p.tool /\ p.inspect = Shut

(* What openIn, newChat and fire make of the panes: another conversation.  *)
LEMMA Turned ==
  ASSUME NEW p, Plain(p), NEW t, t \in SUBSET Ids, AtMostOne(t), NEW k, k \in {"user", "agent"}
  PROVE  /\ ScreenOK(TalkTo(p, t, k)) /\ TalkTo(p, t, k).talk = t /\ TalkTo(p, t, k).kind = k
         /\ TalkTo(p, t, k).logs = p.logs /\ Mode(TalkTo(p, t, k), NoQuestion) = "chat"
<1> DEFINE q == TalkTo(p, t, k)
<1>1. /\ q \in PaneStates /\ q.talk = t /\ q.kind = k /\ q.logs = p.logs /\ q.palette = Shut
      /\ ~q.tool /\ q.inspect = Shut /\ q.armed = p.armed
  BY DEF TalkTo, Plain, ScreenOK, PaneStates
<1>2. ScreenOK(q)
  BY <1>1 DEF Plain, ScreenOK
<1>3. Mode(q, NoQuestion) = "chat"
  BY <1>1, ChatMode
<1> QED
  BY <1>1, <1>2, <1>3

(* A key of the chat, or one of the palette that closes it. *)
LEMMA Chatting ==
  ASSUME PaneInv, NEW p,
         (Handles("chat") /\ p = panes) \/ (Handles("palette") /\ p = Closed(panes))
  PROVE  /\ Plain(p) /\ modal = NoQuestion
         /\ p.talk = panes.talk /\ p.kind = panes.kind /\ p.logs = panes.logs
<1>1. panes.palette # Shut => ~panes.tool /\ panes.inspect = Shut
  BY DEF PaneInv, ScreenOK
<1>2. CASE Handles("chat") /\ p = panes
  BY <1>2, ChatMode DEF PaneInv, Plain
<1>3. CASE Handles("palette") /\ p = Closed(panes)
  BY <1>1, <1>3, ChatMode, Overlays DEF Plain
<1> QED
  BY <1>2, <1>3

LEMMA OpensIn ==
  ASSUME PaneInv, NEW p, NEW kind \in {"user", "agent"}, NEW x \in Ids, OpenIn(p, kind, x),
         (Handles("chat") /\ p = panes) \/ (Handles("palette") /\ p = Closed(panes)),
         stored' \subseteq Files, UNCHANGED opener
  PROVE  PaneInv'
<1>1. known' = stored' /\ found' = (<<kind, x>> \in stored')
  BY DEF OpenIn, Refreshed
<1>3. /\ Plain(p) /\ modal = NoQuestion
      /\ p.talk = panes.talk /\ p.kind = panes.kind /\ p.logs = panes.logs
  BY Chatting
<1> DEFINE q == [p EXCEPT !.talk = {x}, !.kind = kind]
<1>4. {x} \in SUBSET Ids /\ AtMostOne({x})
  BY DEF AtMostOne
<1>5. /\ ScreenOK(q) /\ q.talk = {x} /\ q.kind = kind /\ q.logs = p.logs /\ Mode(q, NoQuestion) = "chat"
  <2>1. q = TalkTo(p, {x}, kind)
    BY DEF TalkTo
  <2> HIDE DEF q
  <2> QED
    BY <1>3, <1>4, <2>1, Turned
<1> DEFINE want == IF ReadOnly(q) THEN IF Region = "list" THEN Nothing ELSE "transcript"
                   ELSE IF p = panes THEN Nothing ELSE Composer(panes)
<1>6. Show(q, want)
  BY DEF OpenIn
<1>7. panes \in PaneStates /\ q \in PaneStates /\ station \in 1..Len(Ring(panes))
  BY <1>5 DEF PaneInv, ScreenOK
<1>8. station \in 1..Len(Ring(q)) \/ (want # Nothing /\ Mode(q, modal) = "chat")
  <2>1. CASE ReadOnly(q) /\ Region = "list"
    <3>1. station = 1
      BY <2>1, <1>7, Rings DEF Region
    <3> QED
      BY <3>1, <1>7, Rings
  <2>2. CASE ReadOnly(q) /\ Region # "list"
    BY <2>2, <1>3, <1>5, <1>6 DEF Nothing
  <2>3. CASE ~ReadOnly(q)
    <3>1. /\ Len(Ring(q)) = 2 + (IF q.logs THEN 1 ELSE 0) + 1
          /\ Len(Ring(panes)) = 2 + (IF panes.logs THEN 1 ELSE 0) + (IF ReadOnly(panes) THEN 0 ELSE 1)
      BY <2>3, <1>7, Rings
    <3>2. q.logs = panes.logs
      BY <1>3, <1>5
    <3>3. Len(Ring(panes)) <= Len(Ring(q)) /\ Len(Ring(q)) \in Nat /\ Len(Ring(panes)) \in Nat
      BY <3>1, <3>2
    <3> QED
      BY <3>3, <1>7
  <2> QED
    BY <2>1, <2>2, <2>3
<1>9. found' => q.talk # NewChat /\ OnScreen(q) \subseteq stored'
  <2>1. OnScreen(q) = {<<kind, x>>} /\ q.talk # NewChat
    BY <1>5 DEF OnScreen, NewChat
  <2> QED
    BY <2>1, <1>1
<1>10. known' \subseteq Files /\ found' \in BOOLEAN
  BY <1>1
<1> HIDE DEF q, want
<1> QED
  BY <1>5, <1>6, <1>8, <1>9, <1>10, Shows

LEMMA OpenKeeps ==
  ASSUME PaneInv, OpenTalk
  PROVE  PaneInv'
<1>1. UNCHANGED stored /\ UNCHANGED opener /\ stored' \subseteq Files
  BY DEF OpenTalk, Frozen, PaneInv
<1>2. ASSUME NEW row \in known PROVE row[1] \in {"user", "agent"} /\ row[2] \in Ids
  BY DEF PaneInv, Files
<1>3. ASSUME NEW x \in Ids PROVE Kind(x) \in {"user", "agent"}
  BY DEF Kind
<1>4. PICK p \in {panes, Closed(panes)}, kind \in {"user", "agent"}, x \in Ids :
        /\ OpenIn(p, kind, x)
        /\ (Handles("chat") /\ p = panes) \/ (Handles("palette") /\ p = Closed(panes))
  BY <1>2, <1>3 DEF OpenTalk
<1> QED
  BY <1>1, <1>4, OpensIn

LEMMA StartKeeps ==
  ASSUME PaneInv, StartChat
  PROVE  PaneInv'
<1>1. UNCHANGED <<known, stored, opener>> /\ found' = FALSE
  BY DEF StartChat, Frozen
<1>2. PICK p \in {panes, Closed(panes)} :
        /\ Show(FreshTalk(p), "composer")
        /\ (Handles("chat") /\ p = panes) \/ (Handles("palette") /\ p = Closed(panes))
  BY DEF StartChat
<1>3. /\ Plain(p) /\ modal = NoQuestion
  BY <1>2, Chatting
<1>4. AtMostOne({}) /\ {} \in SUBSET Ids
  BY DEF AtMostOne
<1>5. ScreenOK(FreshTalk(p)) /\ FreshTalk(p).talk = {} /\ Mode(FreshTalk(p), modal) = "chat"
  <2>1. FreshTalk(p) = TalkTo(p, {}, "user") /\ "user" \in {"user", "agent"}
    BY DEF FreshTalk, NewChat, TalkTo
  <2> QED
    BY <1>3, <1>4, <2>1, Turned
<1>6. "composer" # Nothing
  BY DEF Nothing
<1> QED
  BY <1>1, <1>2, <1>5, <1>6, Shows DEF PaneInv

LEMMA SubmitKeeps ==
  ASSUME PaneInv, SubmitLine
  PROVE  PaneInv'
<1>1. UNCHANGED <<known, opener>>
  BY DEF SubmitLine, Frozen
<1>2. panes \in PaneStates /\ ScreenOK(panes)
  BY DEF PaneInv, ScreenOK
<1>3. PICK x \in Ids : /\ Show([panes EXCEPT !.talk = {x}], Nothing)
                       /\ panes.talk = NewChat \/ x \in panes.talk
                       /\ \/ stored' = stored \cup {<<"user", x>>} /\ found' = TRUE
                          \/ UNCHANGED <<stored, found>>
  <2>1. PICK x \in IF panes.talk = NewChat THEN {t \in Talks : <<"user", t>> \notin stored} ELSE panes.talk :
            /\ Show([panes EXCEPT !.talk = {x}], Nothing)
            /\ \/ stored' = stored \cup {<<"user", x>>} /\ found' = TRUE
               \/ UNCHANGED <<stored, found>>
    BY DEF SubmitLine
  <2>2. panes.talk \subseteq Ids
    BY <1>2 DEF PaneStates
  <2>3. x \in Ids /\ (panes.talk = NewChat \/ x \in panes.talk)
    BY <2>1, <2>2 DEF Ids
  <2> QED
    BY <2>1, <2>3
<1> DEFINE q == [panes EXCEPT !.talk = {x}]
<1>4. /\ q \in PaneStates /\ q.talk = {x} /\ q.kind = panes.kind /\ q.logs = panes.logs
      /\ q.palette = panes.palette /\ q.tool = panes.tool /\ q.inspect = panes.inspect /\ q.armed = panes.armed
  BY <1>2 DEF PaneStates
<1>5. ScreenOK(q)
  BY <1>2, <1>4 DEF ScreenOK, AtMostOne
<1>6. Ring(q) = Ring(panes)
  BY <1>4 DEF Ring, ReadOnly
<1>7. station \in 1..Len(Ring(q))
  BY <1>6 DEF PaneInv
<1>10. panes.kind = "user"
  <2>1. station \in 1..Len(Ring(panes)) /\ Ring(panes)[station] = "composer"
    BY DEF SubmitLine, Region, PaneInv
  <2> QED
    BY <1>2, <2>1, Rings DEF ReadOnly, PaneStates
<1>8. known' \subseteq Files /\ stored' \subseteq Files /\ found' \in BOOLEAN /\ (found' => q.talk # NewChat /\ OnScreen(q) \subseteq stored')
  <2>1. OnScreen(q) = {<<"user", x>>} /\ q.talk # NewChat
    BY <1>4, <1>10 DEF OnScreen, NewChat
  <2>2. <<"user", x>> \in Files
    BY DEF Files
  <2>3. CASE stored' = stored \cup {<<"user", x>>} /\ found' = TRUE
    BY <1>1, <2>1, <2>2, <2>3 DEF PaneInv
  <2>4. CASE UNCHANGED <<stored, found>>
    <3>1. found /\ x \in panes.talk => <<"user", x>> \in stored
      BY <1>10 DEF PaneInv, ConversationIsThere, OnScreen
    <3>2. found => panes.talk # NewChat
      BY DEF PaneInv, ConversationIsThere
    <3> QED
      BY <1>1, <1>3, <2>1, <2>4, <3>1, <3>2 DEF PaneInv
  <2> QED
    BY <1>3, <2>3, <2>4
<1>9. Show(q, Nothing)
  BY <1>3
<1> HIDE DEF q
<1> QED
  BY <1>1, <1>5, <1>7, <1>8, <1>9, Shows

LEMMA FireKeeps ==
  ASSUME PaneInv, FireRun
  PROVE  PaneInv'
<1>1. PICK x \in Fires, p \in {panes, Closed(panes)} :
        /\ stored' \in {stored, stored \cup {<<"agent", x>>}} /\ OpenIn(p, "agent", x)
        /\ (Handles("chat") /\ p = panes) \/ (Handles("palette") /\ p = Closed(panes))
  BY DEF FireRun, Fired
<1>2. x \in Ids /\ <<"agent", x>> \in Files /\ "agent" \in {"user", "agent"}
  BY DEF Ids, Files
<1>3. stored' \subseteq Files /\ UNCHANGED opener
  BY <1>1, <1>2 DEF FireRun, Frozen, PaneInv
<1> QED
  BY <1>1, <1>2, <1>3, OpensIn

LEMMA FireFailsKeeps ==
  ASSUME PaneInv, FireFails
  PROVE  PaneInv'
<1>1. UNCHANGED <<known, found, opener>>
  BY DEF FireFails, Frozen
<1>2. stored' \subseteq Files /\ stored \subseteq stored'
  <2>1. \A x \in Fires : <<"agent", x>> \in Files
    BY DEF Files, Ids
  <2> QED
    BY <2>1 DEF FireFails, PaneInv
<1>3. PICK p \in {panes, Closed(panes)}, want \in {Nothing, Composer(panes)} :
        /\ Show(p, want)
        /\ (Handles("chat") /\ p = panes) \/ (Handles("palette") /\ p = Closed(panes))
  BY DEF FireFails
<1>4. Plain(p) /\ p.talk = panes.talk /\ p.kind = panes.kind /\ p.logs = panes.logs
  BY <1>3, Chatting
<1>5. station \in 1..Len(Ring(p))
  <2>1. Ring(p) = Ring(panes)
    BY <1>4 DEF Ring, ReadOnly
  <2> QED
    BY <2>1 DEF PaneInv
<1>6. found' => p.talk # NewChat /\ OnScreen(p) \subseteq stored'
  BY <1>1, <1>2, <1>4 DEF PaneInv, ConversationIsThere, OnScreen
<1> QED
  BY <1>1, <1>2, <1>3, <1>4, <1>5, <1>6, Shows DEF PaneInv, Plain

LEMMA DeleteKeeps ==
  ASSUME PaneInv, ConfirmDelete
  PROVE  PaneInv'
<1>1. /\ stored' = stored \ {<<Kind(x), x>> : x \in panes.armed} /\ known' = stored' /\ UNCHANGED opener
      /\ Handles("palette")
      /\ \/ panes.talk = panes.armed /\ Show(FreshTalk(Closed(panes)), "composer") /\ found' = FALSE
         \/ panes.talk # panes.armed /\ Show(Closed(panes), Composer(panes)) /\ UNCHANGED found
  BY DEF ConfirmDelete, Frozen, Refreshed
<1>2. /\ Plain(Closed(panes)) /\ modal = NoQuestion
      /\ Closed(panes).talk = panes.talk /\ Closed(panes).kind = panes.kind /\ Closed(panes).logs = panes.logs
  BY <1>1, Chatting
<1>3. known' \subseteq Files /\ stored' \subseteq Files /\ found' \in BOOLEAN
  BY <1>1 DEF PaneInv
<1>4. CASE panes.talk = panes.armed
  <2>1. Show(FreshTalk(Closed(panes)), "composer") /\ found' = FALSE
    BY <1>1, <1>4
  <2>2. AtMostOne({}) /\ {} \in SUBSET Ids /\ "composer" # Nothing
    BY DEF AtMostOne, Nothing
  <2>3. /\ ScreenOK(FreshTalk(Closed(panes))) /\ FreshTalk(Closed(panes)).talk = {}
        /\ Mode(FreshTalk(Closed(panes)), modal) = "chat"
    <3>1. /\ FreshTalk(Closed(panes)) = TalkTo(Closed(panes), {}, "user")
          /\ "user" \in {"user", "agent"}
      BY DEF FreshTalk, NewChat, TalkTo
    <3> QED
      BY <1>2, <2>2, <3>1, Turned
  <2> QED
    BY <1>1, <1>3, <2>1, <2>2, <2>3, Shows
<1>5. CASE panes.talk # panes.armed
  <2>1. Show(Closed(panes), Composer(panes)) /\ UNCHANGED found
    BY <1>1, <1>5
  <2>2. AtMostOne(panes.talk) /\ AtMostOne(panes.armed)
    BY DEF PaneInv, ScreenOK
  <2>3. found' => Closed(panes).talk # NewChat /\ OnScreen(Closed(panes)) \subseteq stored'
    <3> SUFFICES ASSUME found, NEW y \in panes.talk PROVE <<panes.kind, y>> \in stored'
      BY <1>2, <2>1 DEF OnScreen, PaneInv, ConversationIsThere
    <3>1. <<panes.kind, y>> \in stored
      BY DEF PaneInv, ConversationIsThere, OnScreen
    <3>2. y \notin panes.armed
      BY <1>5, <2>2 DEF AtMostOne
    <3> QED
      BY <1>1, <3>1, <3>2
  <2>4. Ring(Closed(panes)) = Ring(panes)
    BY <1>2 DEF Ring, ReadOnly
  <2>5. station \in 1..Len(Ring(Closed(panes)))
    BY <2>4 DEF PaneInv
  <2> QED
    BY <1>1, <1>2, <1>3, <2>1, <2>3, <2>5, Shows DEF Plain
<1> QED
  BY <1>4, <1>5

LEMMA PanesInductive ==
  ASSUME PaneInv, QuestionInv, [TerminalNext]_terminalVars
  PROVE  PaneInv'
<1>1. ASSUME UNCHANGED paneVars, opener' \in {"opening", "failed", "delivered", "taken", "ended"} PROVE PaneInv'
  BY <1>1 DEF paneVars, PaneInv, ConversationIsThere, OnScreen, ScreenOK, Ring, ReadOnly
<1>2. CASE UNCHANGED terminalVars
  BY <1>1, <1>2 DEF terminalVars, PaneInv
<1>3. ASSUME NEW c \in Asking, Offer(c) \/ OnAsk(c) \/ Heard(c) \/ GiveUp(c) \/ CancelCall(c) PROVE PaneInv'
  BY <1>1, <1>3 DEF Offer, OnAsk, Heard, GiveUp, CancelCall, Frozen, PaneInv
<1>4. CASE OnAskCleared \/ \E i \in 0..Offers : Reply(i)
  BY <1>1, <1>4 DEF OnAskCleared, Reply, Frozen, PaneInv
<1>5. CASE Opened \/ Release \/ CloseWorkspace
  BY <1>1, <1>5 DEF Opened, Release, CloseWorkspace, PaneInv
<1>6. CASE RefreshLists \/ OnOpened
  <2>1. UNCHANGED <<panes, station, stored, found>> /\ known' = stored
    BY <1>6 DEF RefreshLists, OnOpened, Refreshed
  <2>2. opener' \in {opener, "taken"}
    BY <1>6 DEF RefreshLists, OnOpened, Frozen
  <2> QED
    BY <2>1, <2>2 DEF PaneInv, ConversationIsThere, OnScreen, ScreenOK, Ring, ReadOnly
<1>7. ASSUME NEW kind \in {"user", "agent"}, NEW x \in Ids, DeletedElsewhere(kind, x) \/ WrittenElsewhere(kind, x)
      PROVE  PaneInv'
  <2>1. UNCHANGED <<panes, station, known, opener>>
    BY <1>7 DEF DeletedElsewhere, WrittenElsewhere, Frozen
  <2>2. <<kind, x>> \in Files
    BY DEF Files
  <2>3. /\ stored' \subseteq Files /\ found' \in BOOLEAN
        /\ found' => found /\ \A f \in OnScreen(panes) : f \in stored => f \in stored'
    <3> PICK here : here = OnScreen(panes)
      OBVIOUS
    <3>1. CASE DeletedElsewhere(kind, x)
      <4>1. stored' = stored \ {<<kind, x>>} /\ found' = (found /\ <<kind, x>> \notin here)
        BY <3>1 DEF DeletedElsewhere
      <4> QED
        BY <4>1 DEF PaneInv
    <3>2. CASE WrittenElsewhere(kind, x)
      <4>1. stored' = stored \cup {<<kind, x>>} /\ found' = found
        BY <3>2 DEF WrittenElsewhere
      <4> QED
        BY <4>1, <2>2 DEF PaneInv
    <3> QED
      BY <1>7, <3>1, <3>2
  <2>4. found' => panes.talk # NewChat /\ OnScreen(panes) \subseteq stored'
    BY <2>3 DEF PaneInv, ConversationIsThere
  <2> QED
    BY <2>1, <2>3, <2>4 DEF PaneInv, ConversationIsThere, OnScreen, ScreenOK, Ring, ReadOnly
<1>8. CASE Quit
  <2>1. panes' = BlankScreen /\ station' = 3 /\ found' = FALSE /\ known' = {} /\ UNCHANGED <<stored, opener>>
    BY <1>8 DEF Quit
  <2>2. ScreenOK(BlankScreen) /\ Len(Ring(BlankScreen)) = 3 /\ BlankScreen.talk = {}
    <3>1. BlankScreen \in PaneStates /\ ~BlankScreen.logs /\ ~ReadOnly(BlankScreen)
      BY DEF BlankScreen, PaneStates, Steps, NewChat, ReadOnly
    <3>2. Len(Ring(BlankScreen)) = 2 + (IF BlankScreen.logs THEN 1 ELSE 0) + (IF ReadOnly(BlankScreen) THEN 0 ELSE 1)
      BY <3>1, Rings, Zenon
    <3>3. Len(Ring(BlankScreen)) = 3
      BY <3>1, <3>2
    <3> QED
      BY <3>1, <3>3 DEF ScreenOK, BlankScreen, AtMostOne, NewChat
  <2>3. station' \in 1..Len(Ring(panes')) /\ ScreenOK(panes') /\ panes'.talk = {}
    BY <2>1, <2>2
  <2> QED
    BY <2>1, <2>3 DEF PaneInv, ConversationIsThere
<1>9. CASE Keys
  BY <1>4, <1>9, OverlaySteps, LogsKeep, OpenKeeps, StartKeeps, SubmitKeeps, FireKeeps,
     FireFailsKeeps, DeleteKeeps DEF Keys
<1> QED
  BY <1>2, <1>3, <1>4, <1>5, <1>6, <1>7, <1>8, <1>9 DEF TerminalNext

-----------------------------------------------------------------------------
LEMMA TerminalStarts ==
  ASSUME TerminalInit
  PROVE  QuestionInv /\ PaneInv
<1>1. QuestionInv
  <2>1. QuestionsTyped
    <3>1. <<>> \in Seq(0..Offers) /\ <<>> \in Seq(Asking) /\ Len(<<>>) = 0 /\ ClearRoom \in Nat
      BY TerminalAssumption
    <3>2. question \in [Asking -> {"quiet", "offered", "waiting", "over", "yes", "no", "failed"}]
      BY DEF TerminalInit
    <3>3. reply \in [Asking -> Seq(0..Offers)]
      BY <3>1 DEF TerminalInit
    <3> QED
      BY <3>1, <3>2, <3>3 DEF TerminalInit, QuestionsTyped, NoQuestion
  <2>2. Len(<<>>) = 0 /\ 1..0 = {}
    OBVIOUS
  <2>3. OneOnScreen /\ ShownWerePresented /\ YesIsAPersons /\ QuestionsAreShown
    BY DEF TerminalInit, OneOnScreen, ShownWerePresented, YesIsAPersons, QuestionsAreShown, NoQuestion
  <2>4. AnswersAreSingle /\ ClearedAreOver
    BY <2>2 DEF TerminalInit, AnswersAreSingle, ClearedAreOver
  <2> QED
    BY <2>1, <2>3, <2>4 DEF QuestionInv
<1>2. PaneInv
  <2>1. BlankScreen \in PaneStates /\ ~BlankScreen.logs /\ ~ReadOnly(BlankScreen)
    BY DEF BlankScreen, PaneStates, Steps, NewChat, ReadOnly
  <2>2. Len(Ring(BlankScreen)) = 3
    BY <2>1, Rings
  <2>3. ScreenOK(BlankScreen) /\ BlankScreen.talk = {}
    BY <2>1 DEF ScreenOK, BlankScreen, AtMostOne, NewChat
  <2>4. panes = BlankScreen /\ station = 3
    BY DEF TerminalInit
  <2>5. station \in 1..Len(Ring(panes)) /\ ScreenOK(panes) /\ panes.talk = {}
    BY <2>2, <2>3, <2>4
  <2>6. known = {} /\ stored \subseteq Files /\ found = FALSE /\ opener = "opening"
    BY DEF TerminalInit, Files, Ids
  <2> QED
    BY <2>5, <2>6 DEF PaneInv, ConversationIsThere
<1> QED
  BY <1>1, <1>2

LEMMA TerminalInvGives ==
  ASSUME QuestionInv, PaneInv
  PROVE  TerminalHolds
<1>1. Cardinality(modal) <= 1
  <2>1. CASE modal = {}
    BY <2>1, FS_EmptySet
  <2>2. CASE modal # {}
    <3>1. PICK c : modal = {c}
      BY <2>2 DEF QuestionInv, OneOnScreen
    <3>2. Cardinality({c}) = 1
      BY FS_Singleton
    <3> QED
      BY <3>1, <3>2
  <2> QED
    BY <2>1, <2>2
<1>2. station \in 1..Len(Ring(panes)) /\ Len(Ring(panes)) \in 2..4
  BY Rings DEF PaneInv, ScreenOK
<1>3. station \in 0..4 /\ station # 0
  <2>1. PICK n \in 2..4 : n = Len(Ring(panes))
    BY <1>2
  <2>2. station \in 1..n
    BY <1>2, <2>1
  <2> QED
    BY <2>2
<1>4. panes.palette \in Steps /\ panes.inspect \in {Shut, "board", "tools"}
  BY DEF PaneInv, ScreenOK, PaneStates
<1>5. TerminalTypeOK
  BY <1>1, <1>3, <1>4 DEF TerminalTypeOK, QuestionInv, QuestionsTyped, AnswersAreSingle, PaneInv
<1> QED
  BY <1>3, <1>5 DEF TerminalHolds, QuestionInv, PaneInv, KeyboardIsSomewhere

(* The terminal: for whatever calls ask and whatever conversations there     *)
(* are, a question that waits is on screen unless a later one took its       *)
(* place, the keyboard is always somewhere, and what is on screen is there.  *)
THEOREM TerminalAlwaysHolds == TerminalSpec => []TerminalHolds
<1>1. TerminalInit => QuestionInv /\ PaneInv
  BY TerminalStarts
<1>2. (QuestionInv /\ PaneInv) /\ [TerminalNext]_terminalVars => (QuestionInv /\ PaneInv)'
  BY QuestionsInductive, PanesInductive
<1>3. QuestionInv /\ PaneInv => TerminalHolds
  BY TerminalInvGives
<1> QED
  BY <1>1, <1>2, <1>3, PTL DEF TerminalSpec

-----------------------------------------------------------------------------
(*****************************************************************************)
(* The lists of chats.  What a device has yet to hear is on its way to it,   *)
(* unless the device was crossed; an unread chat on a screen will be marked; *)
(* and what a fire will prune is enough.                                     *)
(*****************************************************************************)
Metas == [id : Runs, owned : BOOLEAN, updated : 0..MaxStamps, read : 0..MaxStamps, version : Nat]

(* The shapes: a teller has one record to tell; a stamp is behind every      *)
(* message that has still to be answered or is about to be; a record knows   *)
(* how often it was written.                                                 *)
StoreShapes ==
    /\ record \in [Runs -> SUBSET Records] /\ \A c \in Runs : AtMostOne(record[c])
    /\ stamps \in 0..MaxStamps /\ writes \in [Runs -> Nat]
    /\ asked \in [Runs -> Nat]
    /\ \A c \in Runs : asked[c] + (IF firer[c].at \in {"fire", "say"} THEN 1 ELSE 0) <= stamps
    /\ \A c \in Runs : record[c] # NoRecord => Current(c).version = writes[c]
At(places) == [at : places, meta : SUBSET Metas, victims : SUBSET Runs]
TellerShapes ==
    /\ firer \in [Runs -> At({"quiet", "owned", "fire", "say", "told", "prune"})]
    /\ session \in [Runs -> At({"quiet", "tell"})]
    /\ handler \in [Screens -> At({"quiet", "tell", "reply"})]
    /\ \A c \in Runs : AtMostOne(firer[c].meta) /\ AtMostOne(session[c].meta)
    /\ \A s \in Screens : handler[s].at = "tell" => AtMostOne(handler[s].meta)
    /\ \A c \in Runs : firer[c].at # "prune" => firer[c].victims = {}
DeskShapes ==
    /\ inbox \in [Screens -> Seq([kind : {"list", "activity"}, meta : SUBSET Metas])]
    /\ \A s \in Screens : Len(inbox[s]) <= LineRoom
    /\ \A s \in Screens : \A i \in 1..Len(inbox[s]) : inbox[s][i].kind = "activity" => AtMostOne(inbox[s][i].meta)
    /\ outbox \in [Screens -> Seq([cmd : {"list", "markRead"}, id : SUBSET Runs])]
    /\ \A s \in Screens : \A i \in 1..Len(outbox[s]) : outbox[s][i].cmd = "markRead" => AtMostOne(outbox[s][i].id)
    /\ list \in [Screens -> SUBSET Metas]
    /\ viewing \in [Screens -> SUBSET Runs] /\ \A s \in Screens : AtMostOne(viewing[s])
    /\ online \subseteq Screens /\ crossed \subseteq Screens /\ unmarked \subseteq Screens

(* What is about to be told or sent is not newer than the record, and is     *)
(* the record if it is as new.                                               *)
Valid(m) ==
    /\ m.version <= writes[m.id]
    /\ record[m.id] # NoRecord /\ m.version = writes[m.id] => m = Metadata(m.id, Current(m.id))
TellersAreValid ==
    /\ \A c \in Runs : \A m \in firer[c].meta \cup session[c].meta : Valid(m)
    /\ \A s \in Screens : \A m \in handler[s].meta : Valid(m)

(* Where the news of a chat may be on its way to a device: with one who is   *)
(* about to tell it, with the list the device asked for, or among what the   *)
(* device has and what is in its queue, with nothing behind it that would    *)
(* take it away again.                                                       *)
Tells(m) ==
    \/ \E c \in Runs : firer[c].at \in {"fire", "say"} /\ m \in firer[c].meta
    \/ \E c \in Runs : session[c].at = "tell" /\ m \in session[c].meta
    \/ \E s \in Screens : handler[s].at = "tell" /\ m \in handler[s].meta
WillList(s) == \E i \in 1..Len(outbox[s]) : outbox[s][i] = ListCmd
Lists(s, m) == handler[s].at = "reply" /\ m \in handler[s].meta
Overrides(e, m) ==
    IF e.kind = "list" THEN m \notin e.meta ELSE \E n \in e.meta : n.id = m.id /\ n # m
Holds(s, m, j) == IF j = 0 THEN m \in list[s] ELSE m \in inbox[s][j].meta
Stands(s, m) ==
    \E j \in 0..Len(inbox[s]) :
        Holds(s, m, j) /\ \A i \in (j + 1)..Len(inbox[s]) : ~Overrides(inbox[s][i], m)
Stated(c, m) == m = Metadata(c, Current(c)) /\ m.updated > 0
Reaches(s, m) == Tells(m) \/ WillList(s) \/ Lists(s, m) \/ Stands(s, m)
DevicesHear == \A s \in online \ crossed, c \in Runs, m \in Metas : Stated(c, m) => Reaches(s, m)

(* An unread chat on a screen is about to be marked: whoever tells it, or    *)
(* the queue, or the device's own command will do it.                        *)
WillMark(s, c) == \E i \in 1..Len(outbox[s]) : outbox[s][i] = MarkCmd(c)
Arrives(s, m) == \E i \in 1..Len(inbox[s]) : inbox[s][i].kind = "activity" /\ m \in inbox[s][i].meta
Comes(s, m) == Tells(m) \/ WillMark(s, m.id) \/ Arrives(s, m)
MarksCome ==
    \A s \in online \ (crossed \cup unmarked), c \in Runs, m \in Metas :
        c \in viewing[s] /\ Stated(c, m) /\ Unread(m) => Comes(s, m)
AwayIsUnmarked == \A s \in Screens \ online : viewing[s] # NoChat => s \in unmarked

(* Once every fire has counted the runs, no more than the agent may keep are *)
(* spared.                                                                   *)
Counting == \E c \in Runs : firer[c].at \in {"owned", "fire", "told"}
Victims == UNION {firer[c].victims : c \in Runs}
PruningSuffices == IsFiniteSet(Owned) /\ (Counting \/ Cardinality(Owned \ Victims) <= Kept)

ListInv ==
    /\ StoreShapes /\ TellerShapes /\ DeskShapes /\ TellersAreValid
    /\ DevicesHear /\ MarksCome /\ AwayIsUnmarked /\ PruningSuffices

-----------------------------------------------------------------------------
(*****************************************************************************)
(* The store.                                                                *)
(*****************************************************************************)
LEMMA CurrentIsARecord ==
  ASSUME StoreShapes, NEW c \in Runs
  PROVE  /\ Current(c) \in Records /\ (record[c] # NoRecord => record[c] = {Current(c)})
         /\ Metadata(c, Current(c)) \in Metas
         /\ record[c] = NoRecord => Current(c) = Fresh
<1>1. Fresh \in Records
  BY ListAssumption DEF Fresh, Records
<1>2. record[c] \subseteq Records /\ AtMostOne(record[c])
  BY DEF StoreShapes
<1>3. Current(c) \in Records /\ (record[c] # NoRecord => record[c] = {Current(c)})
  BY <1>1, <1>2 DEF Current, NoRecord, AtMostOne
<1>4. Metadata(c, Current(c)) \in Metas
  BY <1>3 DEF Metadata, Metas, Records
<1> QED
  BY <1>3, <1>4 DEF Current

LEMMA FreshSaysNothing == Fresh.updated = 0 /\ Fresh.owned = FALSE /\ Fresh.read = 0 /\ Fresh \in Records
BY ListAssumption DEF Fresh, Records

(* What is stated of a chat has a record, whose version it bears. *)
LEMMA StatedIsRecorded ==
  ASSUME StoreShapes, NEW c \in Runs, NEW m, Stated(c, m)
  PROVE  record[c] # NoRecord /\ m.id = c /\ m.version = writes[c]
<1>1. m.id = c /\ m.updated = Current(c).updated /\ m.version = Current(c).version
  BY DEF Stated, Metadata
<1>2. record[c] # NoRecord
  BY <1>1, CurrentIsARecord, FreshSaysNothing DEF Stated
<1> QED
  BY <1>1, <1>2 DEF StoreShapes

LEMMA PutWrites ==
  ASSUME StoreShapes, NEW c \in Runs, NEW r \in Records, Put(c, r)
  PROVE  /\ record' \in [Runs -> SUBSET Records] /\ \A d \in Runs : AtMostOne(record'[d])
         /\ writes' \in [Runs -> Nat] /\ writes'[c] = writes[c] + 1
         /\ Current(c)' = [r EXCEPT !.version = writes[c] + 1] /\ Saved(c) = Current(c)'
         /\ Current(c)'.version = writes[c] + 1 /\ Current(c)'.owned = r.owned
         /\ Current(c)'.updated = r.updated /\ record'[c] # NoRecord /\ Current(c)' \in Records
         /\ \A d \in Runs : d # c => /\ record'[d] = record[d] /\ writes'[d] = writes[d]
                                     /\ Current(d)' = Current(d)
         /\ \A d \in Runs : record'[d] # NoRecord => Current(d)'.version = writes'[d]
<1> DEFINE q == [r EXCEPT !.version = writes[c] + 1]
<1>1. q \in Records /\ q.version = writes[c] + 1 /\ q.owned = r.owned /\ q.updated = r.updated
  BY DEF Records, StoreShapes
<1>2. record' = [record EXCEPT ![c] = {q}] /\ writes' = [writes EXCEPT ![c] = @ + 1]
  BY DEF Put
<1> HIDE DEF q
<1>3. record'[c] = {q} /\ \A d \in Runs : d # c => record'[d] = record[d]
  BY <1>2 DEF StoreShapes
<1>4. record' \in [Runs -> SUBSET Records]
  BY <1>1, <1>2 DEF StoreShapes
<1>5. writes' \in [Runs -> Nat] /\ writes'[c] = writes[c] + 1 /\ \A d \in Runs : d # c => writes'[d] = writes[d]
  BY <1>2 DEF StoreShapes
<1>6. Current(c)' = q /\ Saved(c) = q
  <2>1. (CHOOSE x \in {q} : TRUE) = q
    OBVIOUS
  <2>2. Saved(c) = CHOOSE x \in {q} : TRUE
    BY <1>3 DEF Saved
  <2>3. {q} # NoRecord
    BY DEF NoRecord
  <2>4. Current(c)' = CHOOSE x \in {q} : TRUE
    BY <1>3, <2>3 DEF Current
  <2> QED
    BY <2>1, <2>2, <2>4
<1>7. ASSUME NEW d \in Runs, d # c PROVE Current(d)' = Current(d)
  <2>1. record'[d] = record[d]
    BY <1>3, <1>7
  <2> QED
    BY <2>1 DEF Current
<1>8. \A d \in Runs : AtMostOne(record'[d])
  BY <1>3 DEF AtMostOne, StoreShapes
<1>9. \A d \in Runs : record'[d] # NoRecord => Current(d)'.version = writes'[d]
  BY <1>1, <1>3, <1>5, <1>6, <1>7 DEF StoreShapes
<1>10. record'[c] # NoRecord
  BY <1>3 DEF NoRecord
<1> QED
  BY <1>1, <1>3, <1>4, <1>5, <1>6, <1>7, <1>8, <1>9, <1>10 DEF q

LEMMA PutKeepsValid ==
  ASSUME StoreShapes, NEW c \in Runs, NEW r \in Records, Put(c, r)
  PROVE  /\ \A m \in Metas : Valid(m) => Valid(m)'
         /\ \A m : m = Metadata(c, Saved(c)) => Valid(m)' /\ m \in Metas
         /\ \A d \in Runs, m \in Metas : Stated(d, m)' => IF d = c THEN m = Metadata(c, Saved(c)) ELSE Stated(d, m)
<1>1. /\ writes'[c] = writes[c] + 1 /\ Saved(c) = Current(c)' /\ Current(c)'.version = writes[c] + 1
      /\ Current(c)' \in Records /\ writes[c] \in Nat
      /\ \A d \in Runs : d # c => record'[d] = record[d] /\ writes'[d] = writes[d] /\ Current(d)' = Current(d)
  BY PutWrites DEF StoreShapes
<1>2. ASSUME NEW m \in Metas, Valid(m) PROVE Valid(m)'
  <2>1. m.id \in Runs /\ m.version \in Nat
    BY DEF Metas
  <2>2. CASE m.id = c
    BY <1>1, <1>2, <2>1, <2>2 DEF Valid
  <2>3. CASE m.id # c
    BY <1>1, <1>2, <2>1, <2>3 DEF Valid
  <2> QED
    BY <2>2, <2>3
<1>3. ASSUME NEW m, m = Metadata(c, Saved(c)) PROVE Valid(m)' /\ m \in Metas
  <2>1. m.id = c /\ m.version = writes'[c] /\ m = Metadata(c, Current(c)')
    BY <1>1, <1>3 DEF Metadata
  <2>2. m \in Metas
    BY <1>1, <2>1 DEF Metadata, Metas, Records
  <2>3. writes'[c] \in Nat
    BY <1>1
  <2> QED
    BY <2>1, <2>2, <2>3 DEF Valid
<1>4. ASSUME NEW d \in Runs, NEW m \in Metas, Stated(d, m)'
      PROVE  IF d = c THEN m = Metadata(c, Saved(c)) ELSE Stated(d, m)
  BY <1>1, <1>4 DEF Stated
<1> QED
  BY <1>2, <1>3, <1>4

LEMMA StoreSame ==
  ASSUME UNCHANGED record
  PROVE  /\ \A c \in Runs : Current(c)' = Current(c)
         /\ \A c \in Runs, m \in Metas : Stated(c, m)' = Stated(c, m)
         /\ Owned' = Owned
         /\ UNCHANGED writes => \A m \in Metas : Valid(m)' = Valid(m)
<1>1. \A c \in Runs : Current(c)' = Current(c)
  BY DEF Current
<1>2. \A m \in Metas : m.id \in Runs
  BY DEF Metas
<1>3. UNCHANGED writes => \A m \in Metas : Valid(m)' = Valid(m)
  BY <1>1, <1>2 DEF Valid
<1> QED
  BY <1>1, <1>3 DEF Stated, Owned

LEMMA QuietShape ==
  /\ Quiet.at = "quiet" /\ Quiet.meta = {} /\ Quiet.victims = {}
  /\ \A places : "quiet" \in places => Quiet \in At(places)
BY DEF Quiet, At, NoRecord

LEMMA AtShape ==
  ASSUME NEW places, NEW p \in places, NEW M \in SUBSET Metas, NEW V \in SUBSET Runs
  PROVE  [at |-> p, meta |-> M, victims |-> V] \in At(places)
BY DEF At

LEMMA OwnedRecords ==
  \A b \in BOOLEAN, q \in Records : /\ [q EXCEPT !.owned = b] \in Records
                                   /\ [q EXCEPT !.owned = b].updated = q.updated
BY DEF Records

-----------------------------------------------------------------------------
(*****************************************************************************)
(* The runs of an agent.                                                     *)
(*****************************************************************************)
LEMMA PruningStays ==
  ASSUME PruningSuffices, Owned' \subseteq Owned,
         Counting' \/ (~Counting /\ Owned' \ Victims' \subseteq Owned \ Victims)
  PROVE  PruningSuffices'
<1>1. IsFiniteSet(Owned) /\ IsFiniteSet(Owned')
  BY FS_Subset DEF PruningSuffices
<1>2. CASE ~Counting /\ Owned' \ Victims' \subseteq Owned \ Victims
  <2>1. IsFiniteSet(Owned \ Victims)
    BY <1>1, FS_Subset, Owned \ Victims \subseteq Owned
  <2>2. /\ Cardinality(Owned' \ Victims') <= Cardinality(Owned \ Victims)
        /\ Cardinality(Owned' \ Victims') \in Nat /\ Cardinality(Owned \ Victims) \in Nat
    BY <1>2, <2>1, FS_Subset, FS_CardinalityType
  <2>3. Cardinality(Owned \ Victims) <= Kept
    BY <1>2 DEF PruningSuffices
  <2>4. Cardinality(Owned' \ Victims') <= Kept
    BY <2>2, <2>3, ListAssumption
  <2> QED
    BY <1>1, <2>4 DEF PruningSuffices
<1> QED
  BY <1>1, <1>2 DEF PruningSuffices

LEMMA PruningSame ==
  ASSUME PruningSuffices, UNCHANGED <<record, firer>>
  PROVE  PruningSuffices'
BY StoreSame DEF PruningSuffices, Counting, Victims

(* A write leaves the owner as it is, but for a fire's first. *)
LEMMA PutKeepsOwned ==
  ASSUME StoreShapes, NEW c \in Runs, NEW r \in Records, Put(c, r)
  PROVE  Owned' \subseteq Owned \cup {c} /\ (r.owned = Current(c).owned => Owned' \subseteq Owned)
<1>1. /\ Current(c)'.owned = r.owned /\ record'[c] # NoRecord
      /\ \A d \in Runs : d # c => record'[d] = record[d] /\ Current(d)' = Current(d)
  BY PutWrites
<1>2. Owned' \subseteq Owned \cup {c}
  BY <1>1 DEF Owned
<1>3. ASSUME r.owned = Current(c).owned, c \in Owned' PROVE c \in Owned
  <2>1. Current(c).owned
    BY <1>1, <1>3 DEF Owned
  <2>2. record[c] # NoRecord
    BY <2>1, FreshSaysNothing, CurrentIsARecord
  <2> QED
    BY <2>1, <2>2 DEF Owned
<1> QED
  BY <1>2, <1>3

-----------------------------------------------------------------------------
(*****************************************************************************)
(* The news.                                                                 *)
(*****************************************************************************)

(* A step that writes a record: whoever wrote it will tell it. *)
LEMMA PutKeepsNews ==
  ASSUME ListInv, NEW c \in Runs, NEW r \in Records, Put(c, r),
         UNCHANGED <<inbox, list, viewing, online, crossed, unmarked>>,
         \A m \in Metas : Tells(m) => Tells(m)',
         \A m \in Metas : m = Metadata(c, Saved(c)) /\ m.updated > 0 => Tells(m)',
         \A s \in Screens : WillList(s) => WillList(s)',
         \A s \in Screens, d \in Runs : d # c /\ WillMark(s, d) => WillMark(s, d)',
         \A s \in Screens, m \in Metas : Lists(s, m) => Lists(s, m)'
  PROVE  DevicesHear' /\ MarksCome'
<1>1. StoreShapes /\ DeskShapes /\ DevicesHear /\ MarksCome
  BY DEF ListInv
<1>2. ASSUME NEW d \in Runs, NEW m \in Metas, Stated(d, m)' PROVE Tells(m)' \/ (d # c /\ Stated(d, m))
  <2>1. m.updated > 0
    BY <1>2 DEF Stated
  <2> QED
    BY <1>1, <1>2, <2>1, PutKeepsValid
<1>3. \A s \in Screens, m \in Metas : Stands(s, m) => Stands(s, m)'
  BY DEF Stands, Holds
<1>4. \A s \in Screens, m \in Metas : Arrives(s, m) => Arrives(s, m)'
  BY DEF Arrives
<1>5. online \subseteq Screens
  BY <1>1 DEF DeskShapes
<1>6. DevicesHear'
  <2> SUFFICES ASSUME NEW s \in online' \ crossed', NEW d \in Runs, NEW m \in Metas, Stated(d, m)'
               PROVE  Reaches(s, m)'
    BY DEF DevicesHear
  <2>1. CASE Tells(m)'
    BY <2>1 DEF Reaches
  <2>2. CASE Stated(d, m)
    <3>1. Reaches(s, m)
      BY <1>1, <2>2 DEF DevicesHear
    <3> QED
      BY <3>1, <1>3, <1>5 DEF Reaches
  <2> QED
    BY <1>2, <2>1, <2>2
<1>7. MarksCome'
  <2> SUFFICES ASSUME NEW s \in online' \ (crossed' \cup unmarked'), NEW d \in Runs, NEW m \in Metas,
                      d \in viewing'[s], Stated(d, m)', Unread(m)
               PROVE  Comes(s, m)'
    BY DEF MarksCome
  <2>1. CASE Tells(m)'
    BY <2>1 DEF Comes
  <2>2. CASE d # c /\ Stated(d, m)
    <3>1. Comes(s, m) /\ m.id = d
      BY <1>1, <2>2, StatedIsRecorded DEF MarksCome
    <3> QED
      BY <3>1, <2>2, <1>4, <1>5 DEF Comes
  <2> QED
    BY <1>2, <2>1, <2>2
<1> QED
  BY <1>6, <1>7

(* A step that leaves the records and the queue of every device: nothing on  *)
(* its way is lost.                                                          *)
LEMMA NewsStay ==
  ASSUME ListInv, UNCHANGED <<inbox, list, online, crossed>>,
         \A c \in Runs, m \in Metas : Stated(c, m)' => Stated(c, m),
         \A m \in Metas : Tells(m) => Tells(m)',
         \A s \in online : WillList(s) => WillList(s)',
         \A s \in online, m \in Metas : Lists(s, m) => Lists(s, m)'
  PROVE  DevicesHear'
<1>1. DeskShapes /\ DevicesHear
  BY DEF ListInv
<1>2. \A s \in Screens, m \in Metas : Stands(s, m) => Stands(s, m)'
  BY DEF Stands, Holds
<1> QED
  BY <1>1, <1>2 DEF DevicesHear, Reaches, DeskShapes

LEMMA MarksStay ==
  ASSUME ListInv, UNCHANGED <<inbox, viewing, online, crossed, unmarked>>,
         \A c \in Runs, m \in Metas : Stated(c, m)' => Stated(c, m),
         \A m \in Metas : Tells(m) => Tells(m)',
         \A s \in online, c \in Runs : WillMark(s, c) => WillMark(s, c)'
  PROVE  MarksCome'
<1>1. DeskShapes /\ MarksCome
  BY DEF ListInv
<1>2. \A s \in Screens, m \in Metas : Arrives(s, m) => Arrives(s, m)'
  BY DEF Arrives
<1>3. \A m \in Metas : m.id \in Runs
  BY DEF Metas
<1> QED
  BY <1>1, <1>2, <1>3 DEF MarksCome, Comes, DeskShapes

(*****************************************************************************)
(* A broadcast.  For a device that it does not cross, what stood stands, and *)
(* what is told stands from now on.                                          *)
(*****************************************************************************)
LEMMA Broadcasts ==
  ASSUME DeskShapes, NEW m \in Metas, TellAll(m), UNCHANGED list
  PROVE  /\ inbox' \in [Screens -> Seq([kind : {"list", "activity"}, meta : SUBSET Metas])]
         /\ \A s \in Screens : Len(inbox'[s]) <= LineRoom
         /\ \A s \in Screens : \A i \in 1..Len(inbox'[s]) : inbox'[s][i].kind = "activity" => AtMostOne(inbox'[s][i].meta)
         /\ crossed \subseteq crossed' /\ crossed' \subseteq Screens
         /\ \A s \in online \ crossed' :
                /\ ~Late(s, m) /\ Stands(s, m)' /\ Arrives(s, m)'
                /\ \A n \in Metas : Stands(s, n) /\ ~(m.id = n.id /\ m # n) => Stands(s, n)'
                /\ \A n \in Metas : Arrives(s, n) => Arrives(s, n)'
<1> DEFINE e == [kind |-> "activity", meta |-> {m}]
           Entries == [kind : {"list", "activity"}, meta : SUBSET Metas]
<1>1. e \in Entries /\ e.kind = "activity" /\ e.meta = {m}
  OBVIOUS
<1>2. \A s \in Screens : inbox'[s] = IF HasLine(s) THEN Append(inbox[s], e) ELSE inbox[s]
  BY DEF TellAll
<1>3. inbox' = [s \in Screens |-> IF HasLine(s) THEN Append(inbox[s], e) ELSE inbox[s]]
  BY DEF TellAll
<1>4. crossed' = crossed \cup {s \in online : ~HasLine(s) \/ Late(s, m)}
  BY DEF TellAll
<1> HIDE DEF e, Entries
<1>5. ASSUME NEW s \in Screens
      PROVE  /\ inbox[s] \in Seq(Entries) /\ Len(inbox[s]) \in Nat /\ Len(inbox[s]) <= LineRoom
             /\ Append(inbox[s], e) \in Seq(Entries) /\ Len(Append(inbox[s], e)) = Len(inbox[s]) + 1
             /\ \A i \in 1..Len(inbox[s]) : Append(inbox[s], e)[i] = inbox[s][i]
             /\ Append(inbox[s], e)[Len(inbox[s]) + 1] = e
  <2>1. inbox[s] \in Seq(Entries) /\ Len(inbox[s]) <= LineRoom
    BY DEF DeskShapes, Entries
  <2> QED
    BY <1>1, <2>1, AppendProperties, LenProperties
<1>6. inbox' \in [Screens -> Seq(Entries)]
  BY <1>3, <1>5
<1>7. ASSUME NEW s \in Screens PROVE Len(inbox'[s]) <= LineRoom
  <2>1. CASE HasLine(s)
    <3>1. inbox'[s] = Append(inbox[s], e) /\ Len(inbox[s]) < LineRoom
      BY <1>2, <2>1 DEF HasLine
    <3>2. Len(inbox'[s]) = Len(inbox[s]) + 1 /\ Len(inbox[s]) \in Nat /\ LineRoom \in Nat
      BY <1>5, <3>1, ListAssumption
    <3> QED
      BY <3>1, <3>2
  <2>2. CASE ~HasLine(s)
    BY <1>2, <1>5, <2>2
  <2> QED
    BY <2>1, <2>2
<1>8. ASSUME NEW s \in Screens, NEW i \in 1..Len(inbox'[s]), inbox'[s][i].kind = "activity"
      PROVE  AtMostOne(inbox'[s][i].meta)
  <2>1. CASE ~HasLine(s)
    BY <1>2, <1>8, <2>1 DEF DeskShapes
  <2>2. CASE HasLine(s)
    <3>1. inbox'[s] = Append(inbox[s], e)
      BY <1>2, <2>2
    <3>2. PICK k \in Nat : k = Len(inbox[s])
      BY <1>5
    <3>3. Len(inbox'[s]) = k + 1 /\ inbox'[s][k + 1] = e /\ \A x \in 1..k : inbox'[s][x] = inbox[s][x]
      BY <1>5, <3>1, <3>2
    <3>4. CASE i = k + 1
      <4>1. inbox'[s][i].meta = {m}
        BY <1>1, <3>3, <3>4
      <4> QED
        BY <4>1 DEF AtMostOne
    <3>5. CASE i # k + 1
      <4>1. i \in 1..k
        BY <3>3, <3>5
      <4>2. i \in 1..Len(inbox[s]) /\ inbox'[s][i] = inbox[s][i]
        BY <3>2, <3>3, <4>1
      <4> QED
        BY <1>8, <4>2 DEF DeskShapes
    <3> QED
      BY <3>4, <3>5
  <2> QED
    BY <2>1, <2>2
<1>9. ASSUME NEW s \in online \ crossed'
      PROVE  /\ ~Late(s, m) /\ Stands(s, m)' /\ Arrives(s, m)'
             /\ \A n \in Metas : Stands(s, n) /\ ~(m.id = n.id /\ m # n) => Stands(s, n)'
             /\ \A n \in Metas : Arrives(s, n) => Arrives(s, n)'
  <2>1. s \in Screens /\ HasLine(s) /\ ~Late(s, m)
    BY <1>4 DEF DeskShapes
  <2>2. /\ Len(inbox[s]) \in Nat /\ Len(inbox'[s]) = Len(inbox[s]) + 1
        /\ \A i \in 1..Len(inbox[s]) : inbox'[s][i] = inbox[s][i]
        /\ inbox'[s][Len(inbox[s]) + 1] = e
    BY <1>2, <1>5, <2>1
  <2>3. PICK k \in Nat : k = Len(inbox[s])
    BY <2>2
  <2>4. Len(inbox'[s]) = k + 1 /\ inbox'[s][k + 1] = e /\ \A i \in 1..k : inbox'[s][i] = inbox[s][i]
    BY <2>2, <2>3
  <2>5. Stands(s, m)'
    <3>1. k + 1 \in 0..Len(inbox'[s]) /\ k + 1 # 0
      BY <2>4
    <3>2. Holds(s, m, k + 1)'
      BY <2>4, <3>1, <1>1 DEF Holds
    <3>3. \A i \in (k + 1 + 1)..Len(inbox'[s]) : FALSE
      BY <2>4
    <3> QED
      BY <3>1, <3>2, <3>3 DEF Stands
  <2>6. Arrives(s, m)'
    BY <1>1, <2>4 DEF Arrives
  <2>7. ASSUME NEW n \in Metas, Stands(s, n), ~(m.id = n.id /\ m # n) PROVE Stands(s, n)'
    <3>1. PICK j \in 0..k : Holds(s, n, j) /\ \A i \in (j + 1)..k : ~Overrides(inbox[s][i], n)
      BY <2>3, <2>7 DEF Stands
    <3>2. j \in 0..Len(inbox'[s])
      BY <2>4
    <3>3. Holds(s, n, j)'
      BY <2>4, <3>1 DEF Holds
    <3>4. ~Overrides(e, n)
      BY <1>1, <2>7 DEF Overrides
    <3>5. ASSUME NEW i \in (j + 1)..Len(inbox'[s]) PROVE ~Overrides(inbox'[s][i], n)
      <4>1. CASE i = k + 1
        BY <2>4, <3>4, <4>1
      <4>2. CASE i # k + 1
        <5>1. i \in (j + 1)..k /\ i \in 1..k
          BY <2>4, <4>2
        <5> QED
          BY <2>4, <3>1, <5>1
      <4> QED
        BY <4>1, <4>2
    <3> QED
      BY <3>2, <3>3, <3>5 DEF Stands
  <2>8. ASSUME NEW n \in Metas, Arrives(s, n) PROVE Arrives(s, n)'
    <3>1. PICK i \in 1..k : inbox[s][i].kind = "activity" /\ n \in inbox[s][i].meta
      BY <2>3, <2>8 DEF Arrives
    <3>2. i \in 1..Len(inbox'[s]) /\ inbox'[s][i] = inbox[s][i]
      BY <2>4
    <3> QED
      BY <3>1, <3>2 DEF Arrives
  <2> QED
    BY <2>1, <2>5, <2>6, <2>7, <2>8
<1>10. crossed \subseteq crossed' /\ crossed' \subseteq Screens
  BY <1>4 DEF DeskShapes
<1> QED
  BY <1>6, <1>7, <1>8, <1>9, <1>10 DEF Entries

(* What stands is known. *)
LEMMA StandsIsKnown ==
  ASSUME NEW s \in Screens, NEW m \in Metas, Stands(s, m)
  PROVE  m \in Known(s)
<1>1. PICK j \in 0..Len(inbox[s]) : Holds(s, m, j)
  BY DEF Stands
<1>2. CASE j = 0
  BY <1>1, <1>2 DEF Holds, Known
<1>3. CASE j # 0
  <2>1. j \in 1..Len(inbox[s]) /\ m \in inbox[s][j].meta
    BY <1>1, <1>3 DEF Holds
  <2> QED
    BY <2>1 DEF Known
<1> QED
  BY <1>2, <1>3

(* Nothing valid that is not the record itself can displace it unseen. *)
LEMMA OlderIsLate ==
  ASSUME StoreShapes, NEW s \in Screens, NEW c \in Runs, NEW n \in Metas, Stated(c, n), Stands(s, n),
         NEW m \in Metas, Valid(m), m.id = n.id, m # n
  PROVE  Late(s, m)
<1>1. record[c] # NoRecord /\ n.id = c /\ n.version = writes[c] /\ n = Metadata(c, Current(c))
  BY StatedIsRecorded DEF Stated
<1>2. m.version <= writes[c] /\ m.version # writes[c]
  BY <1>1 DEF Valid
<1>3. m.version \in Nat /\ writes[c] \in Nat
  BY DEF Metas, StoreShapes
<1>4. n.version > m.version
  BY <1>1, <1>2, <1>3
<1> QED
  BY <1>4, StandsIsKnown DEF Late

LEMMA TellKeepsNews ==
  ASSUME ListInv, NEW m \in Metas, Valid(m), TellAll(m),
         UNCHANGED <<record, list, viewing, online, outbox, unmarked>>,
         \A n \in Metas : Tells(n) => n = m \/ Tells(n)',
         \A s \in Screens, n \in Metas : Lists(s, n) => Lists(s, n)'
  PROVE  DevicesHear' /\ MarksCome' /\ DeskShapes'
<1>1. StoreShapes /\ DeskShapes /\ DevicesHear /\ MarksCome
  BY DEF ListInv
<1>2. /\ crossed \subseteq crossed' /\ crossed' \subseteq Screens
      /\ \A s \in online \ crossed' :
                /\ ~Late(s, m) /\ Stands(s, m)' /\ Arrives(s, m)'
                /\ \A n \in Metas : Stands(s, n) /\ ~(m.id = n.id /\ m # n) => Stands(s, n)'
                /\ \A n \in Metas : Arrives(s, n) => Arrives(s, n)'
  BY <1>1, Broadcasts
<1>3. \A c \in Runs, n \in Metas : Stated(c, n)' = Stated(c, n)
  BY StoreSame
<1>4. DeskShapes'
  BY <1>1, Broadcasts DEF DeskShapes
<1>5. DevicesHear'
  <2> SUFFICES ASSUME NEW s \in online' \ crossed', NEW c \in Runs, NEW n \in Metas, Stated(c, n)'
               PROVE  Reaches(s, n)'
    BY DEF DevicesHear
  <2>1. s \in online \ crossed' /\ s \in online \ crossed /\ s \in Screens /\ Stated(c, n)
    BY <1>1, <1>2, <1>3 DEF DeskShapes
  <2>2. Reaches(s, n)
    BY <1>1, <2>1 DEF DevicesHear
  <2>3. CASE Tells(n)
    BY <1>2, <2>1, <2>3 DEF Reaches
  <2>4. CASE WillList(s)
    BY <2>4 DEF WillList, Reaches
  <2>5. CASE Lists(s, n)
    BY <2>1, <2>5 DEF Reaches
  <2>6. CASE Stands(s, n)
    <3>1. ~(m.id = n.id /\ m # n)
      BY <1>1, <1>2, <2>1, <2>6, OlderIsLate
    <3> QED
      BY <1>2, <2>1, <2>6, <3>1 DEF Reaches
  <2> QED
    BY <2>2, <2>3, <2>4, <2>5, <2>6 DEF Reaches
<1>6. MarksCome'
  <2> SUFFICES ASSUME NEW s \in online' \ (crossed' \cup unmarked'), NEW c \in Runs, NEW n \in Metas,
                      c \in viewing'[s], Stated(c, n)', Unread(n)
               PROVE  Comes(s, n)'
    BY DEF MarksCome
  <2>1. s \in online \ crossed' /\ s \in online \ (crossed \cup unmarked) /\ Stated(c, n)
    BY <1>2, <1>3
  <2>2. Comes(s, n)
    BY <1>1, <2>1 DEF MarksCome
  <2>3. CASE Tells(n)
    BY <1>2, <2>1, <2>3 DEF Comes
  <2>4. CASE WillMark(s, n.id)
    BY <2>4 DEF WillMark, Comes
  <2>5. CASE Arrives(s, n)
    BY <1>2, <2>1, <2>5 DEF Comes
  <2> QED
    BY <2>2, <2>3, <2>4, <2>5 DEF Comes
<1> QED
  BY <1>4, <1>5, <1>6

-----------------------------------------------------------------------------
(*****************************************************************************)
(* The steps of a chat.                                                      *)
(*****************************************************************************)

(* What a step of a chat makes of the one who fires or submits.              *)
LEMMA FirerMoves ==
  ASSUME TellerShapes, NEW c \in Runs, NEW f, f \in At({"quiet", "owned", "fire", "say", "told", "prune"}),
         AtMostOne(f.meta), f.at # "prune" => f.victims = {},
         firer' = [firer EXCEPT ![c] = f], UNCHANGED <<session, handler>>
  PROVE  /\ TellerShapes' /\ firer'[c] = f /\ \A d \in Runs : d # c => firer'[d] = firer[d]
         /\ \A m \in Metas : Tells(m) => Tells(m)' \/ (firer[c].at \in {"fire", "say"} /\ m \in firer[c].meta)
         /\ f.at \in {"fire", "say"} => \A m \in f.meta : Tells(m)'
         /\ \A s \in Screens, m \in Metas : Lists(s, m) => Lists(s, m)'
<1>1. firer'[c] = f /\ \A d \in Runs : d # c => firer'[d] = firer[d]
  BY DEF TellerShapes
<1>2. TellerShapes'
  BY <1>1 DEF TellerShapes
<1>3. \A m \in Metas : Tells(m) => Tells(m)' \/ (firer[c].at \in {"fire", "say"} /\ m \in firer[c].meta)
  BY <1>1 DEF Tells
<1>4. f.at \in {"fire", "say"} => \A m \in f.meta : Tells(m)'
  BY <1>1 DEF Tells
<1>5. \A s \in Screens, m \in Metas : Lists(s, m) => Lists(s, m)'
  BY DEF Lists
<1> QED
  BY <1>1, <1>2, <1>3, <1>4, <1>5

LEMMA FireKeepsLists ==
  ASSUME ListInv, NEW c \in Runs, Fire(c)
  PROVE  ListInv'
<1>1. /\ StoreShapes /\ TellerShapes /\ DeskShapes /\ TellersAreValid
      /\ AwayIsUnmarked /\ PruningSuffices
  BY DEF ListInv
<1> DEFINE f == [Quiet EXCEPT !.at = "owned"]
           r == [Fresh EXCEPT !.owned = TRUE]
<1>2. f.at = "owned" /\ f.meta = {} /\ f.victims = {} /\ f \in At({"quiet", "owned", "fire", "say", "told", "prune"})
  <2>1. f = [at |-> "owned", meta |-> {}, victims |-> {}]
    BY DEF Quiet, NoRecord
  <2> HIDE DEF f
  <2>2. f.at = "owned" /\ f.meta = {} /\ f.victims = {}
    BY <2>1
  <2>3. [at |-> "owned", meta |-> {}, victims |-> {}] \in At({"quiet", "owned", "fire", "say", "told", "prune"})
    BY AtShape
  <2> QED
    BY <2>1, <2>2, <2>3
<1>3. r \in Records /\ r.updated = 0
  BY FreshSaysNothing, OwnedRecords, ZenonT(20)
<1>4. /\ Put(c, r) /\ firer[c] = Quiet /\ firer' = [firer EXCEPT ![c] = f]
      /\ UNCHANGED <<stamps, asked, session, desks>>
  BY DEF Fire
<1> HIDE DEF f, r
<1>5. UNCHANGED <<online, inbox, outbox, handler, list, viewing, crossed, unmarked>>
  BY <1>4 DEF desks
<1>6. AtMostOne(f.meta) /\ (f.at # "prune" => f.victims = {})
  BY <1>2 DEF AtMostOne
<1>7. /\ TellerShapes' /\ firer'[c] = f /\ \A d \in Runs : d # c => firer'[d] = firer[d]
      /\ \A m \in Metas : Tells(m) => Tells(m)'
      /\ \A s \in Screens, m \in Metas : Lists(s, m) => Lists(s, m)'
  BY <1>1, <1>2, <1>4, <1>5, <1>6, FirerMoves, QuietShape
<1>8. StoreShapes'
  <2>1. \A d \in Runs : asked'[d] + (IF firer'[d].at \in {"fire", "say"} THEN 1 ELSE 0) <= stamps'
    <3>1. firer'[c].at \notin {"fire", "say"} /\ firer[c].at \notin {"fire", "say"}
      BY <1>2, <1>4, <1>7, QuietShape
    <3> QED
      BY <1>1, <1>4, <1>7, <3>1 DEF StoreShapes
  <2> QED
    BY <1>1, <1>3, <1>4, <2>1, PutWrites DEF StoreShapes
<1>9. TellersAreValid'
  <2>1. \A m \in Metas : Valid(m) => Valid(m)'
    BY <1>1, <1>3, <1>4, PutKeepsValid
  <2>2. ASSUME NEW d \in Runs, NEW m \in (firer[d].meta \cup session[d].meta)' PROVE Valid(m)'
    <3>1. m \in firer[d].meta \cup session[d].meta /\ m \in Metas
      BY <1>1, <1>2, <1>4, <1>7, <2>2 DEF TellerShapes, At
    <3> QED
      BY <1>1, <2>1, <3>1 DEF TellersAreValid
  <2>3. ASSUME NEW s \in Screens, NEW m \in handler'[s].meta PROVE Valid(m)'
    BY <1>1, <1>5, <2>1, <2>3 DEF TellersAreValid, TellerShapes, At
  <2> QED
    BY <2>2, <2>3 DEF TellersAreValid
<1>10. DevicesHear' /\ MarksCome'
  <2>1. \A m \in Metas : m = Metadata(c, Saved(c)) /\ m.updated > 0 => Tells(m)'
    <3>1. Saved(c).updated = 0
      BY <1>1, <1>3, <1>4, PutWrites
    <3> QED
      BY <3>1 DEF Metadata
  <2>2. \A s \in Screens : WillList(s) => WillList(s)'
    BY <1>5 DEF WillList
  <2>3. \A s \in Screens, d \in Runs : WillMark(s, d) => WillMark(s, d)'
    BY <1>5 DEF WillMark
  <2> QED
    BY <1>3, <1>4, <1>5, <1>7, <2>1, <2>2, <2>3, PutKeepsNews
<1>11. PruningSuffices'
  <2>1. Counting'
    BY <1>2, <1>7 DEF Counting
  <2>2. Owned' \subseteq Owned \cup {c} /\ IsFiniteSet(Owned)
    BY <1>1, <1>3, <1>4, PutKeepsOwned DEF PruningSuffices
  <2>3. IsFiniteSet(Owned')
    BY <2>2, FS_AddElement, FS_Subset
  <2> QED
    BY <2>1, <2>3 DEF PruningSuffices
<1>12. DeskShapes' /\ AwayIsUnmarked'
  BY <1>1, <1>5 DEF DeskShapes, AwayIsUnmarked
<1> QED
  BY <1>7, <1>8, <1>9, <1>10, <1>11, <1>12 DEF ListInv

LEMMA TouchKeepsLists ==
  ASSUME ListInv, NEW c \in Runs, Touch(c)
  PROVE  ListInv'
<1>1. /\ StoreShapes /\ TellerShapes /\ DeskShapes /\ TellersAreValid
      /\ AwayIsUnmarked /\ PruningSuffices
  BY DEF ListInv
<1> DEFINE f == [firer[c] EXCEPT !.at = IF @ = "owned" THEN "fire" ELSE "say", !.meta = {Metadata(c, Saved(c))}]
           r == [Current(c) EXCEPT !.updated = stamps + 1]
<1>2. Current(c) \in Records /\ stamps + 1 \in 0..MaxStamps /\ stamps < MaxStamps /\ stamps \in Nat
  BY <1>1, CurrentIsARecord, ListAssumption DEF Touch, Stamp, StoreShapes
<1>3. r \in Records /\ r.updated = stamps + 1 /\ r.owned = Current(c).owned
  BY <1>2 DEF Records
<1>4. /\ Put(c, r) /\ stamps' = stamps + 1 /\ firer' = [firer EXCEPT ![c] = f]
      /\ UNCHANGED <<asked, session, desks>>
  BY <1>1 DEF Touch, Stamp, TellerShapes
<1>5. firer[c].at \in {"owned", "quiet"}
  BY QuietShape DEF Touch
<1>6. PICK n : n = Metadata(c, Saved(c))
  OBVIOUS
<1>7. n \in Metas /\ Valid(n)' /\ \A m \in Metas : Valid(m) => Valid(m)'
  BY <1>1, <1>3, <1>4, <1>6, PutKeepsValid
<1>8. /\ f.at = (IF firer[c].at = "owned" THEN "fire" ELSE "say") /\ f.meta = {n} /\ f.victims = {}
      /\ f \in At({"quiet", "owned", "fire", "say", "told", "prune"})
  <2>1. firer[c] \in At({"quiet", "owned", "fire", "say", "told", "prune"}) /\ firer[c].victims = {}
    BY <1>1, <1>5 DEF TellerShapes
  <2>2. PICK a \in {"fire", "say"} : a = IF firer[c].at = "owned" THEN "fire" ELSE "say"
    OBVIOUS
  <2>3. f = [firer[c] EXCEPT !.at = a, !.meta = {n}]
    BY <1>6, <2>2
  <2>4. {n} \in SUBSET Metas
    BY <1>7
  <2>5. LET g == [firer[c] EXCEPT !.at = a, !.meta = {n}]
        IN  /\ g \in At({"quiet", "owned", "fire", "say", "told", "prune"})
            /\ g.at = a /\ g.meta = {n} /\ g.victims = firer[c].victims
    BY <2>1, <2>2, <2>4 DEF At
  <2> HIDE DEF f
  <2> QED
    BY <2>1, <2>2, <2>3, <2>5
<1> HIDE DEF f, r
<1>9. UNCHANGED <<online, inbox, outbox, handler, list, viewing, crossed, unmarked>>
  BY <1>4 DEF desks
<1>10. AtMostOne(f.meta) /\ (f.at # "prune" => f.victims = {})
  BY <1>8 DEF AtMostOne
<1>11. /\ TellerShapes' /\ firer'[c] = f /\ \A d \in Runs : d # c => firer'[d] = firer[d]
       /\ \A m \in Metas : Tells(m) => Tells(m)' \/ (firer[c].at \in {"fire", "say"} /\ m \in firer[c].meta)
       /\ f.at \in {"fire", "say"} => \A m \in f.meta : Tells(m)'
       /\ \A s \in Screens, m \in Metas : Lists(s, m) => Lists(s, m)'
  BY <1>1, <1>4, <1>8, <1>9, <1>10, FirerMoves
<1>12. (\A m \in Metas : Tells(m) => Tells(m)') /\ Tells(n)'
  BY <1>5, <1>8, <1>11
<1>13. StoreShapes'
  <2>1. \A d \in Runs : asked'[d] + (IF firer'[d].at \in {"fire", "say"} THEN 1 ELSE 0) <= stamps'
    <3>1. asked[c] + 0 <= stamps /\ asked[c] \in Nat
      BY <1>1, <1>5 DEF StoreShapes
    <3>2. asked'[c] + (IF firer'[c].at \in {"fire", "say"} THEN 1 ELSE 0) <= stamps + 1
      BY <1>2, <1>4, <3>1
    <3>3. ASSUME NEW d \in Runs, d # c
          PROVE  asked'[d] + (IF firer'[d].at \in {"fire", "say"} THEN 1 ELSE 0) <= stamps + 1
      <4>1. /\ asked[d] + (IF firer[d].at \in {"fire", "say"} THEN 1 ELSE 0) <= stamps /\ asked[d] \in Nat
            /\ firer'[d] = firer[d] /\ asked'[d] = asked[d]
        BY <1>1, <1>4, <1>11, <3>3 DEF StoreShapes
      <4> QED
        BY <1>2, <4>1
    <3> QED
      BY <1>4, <3>2, <3>3
  <2> QED
    BY <1>1, <1>2, <1>3, <1>4, <2>1, PutWrites DEF StoreShapes
<1>14. TellersAreValid'
  <2>1. ASSUME NEW d \in Runs, NEW m \in (firer[d].meta \cup session[d].meta)' PROVE Valid(m)'
    <3>1. m = n \/ (m \in firer[d].meta \cup session[d].meta /\ m \in Metas)
      BY <1>1, <1>4, <1>8, <1>11, <2>1 DEF TellerShapes, At
    <3> QED
      BY <1>1, <1>7, <3>1 DEF TellersAreValid
  <2>2. ASSUME NEW s \in Screens, NEW m \in handler'[s].meta PROVE Valid(m)'
    BY <1>1, <1>7, <1>9, <2>2 DEF TellersAreValid, TellerShapes, At
  <2> QED
    BY <2>1, <2>2 DEF TellersAreValid
<1>15. DevicesHear' /\ MarksCome'
  <2>1. \A s \in Screens : WillList(s) => WillList(s)'
    BY <1>9 DEF WillList
  <2>2. \A s \in Screens, d \in Runs : WillMark(s, d) => WillMark(s, d)'
    BY <1>9 DEF WillMark
  <2> QED
    BY <1>3, <1>4, <1>6, <1>9, <1>11, <1>12, <2>1, <2>2, PutKeepsNews
<1>16. PruningSuffices'
  <2>1. Owned' \subseteq Owned
    BY <1>1, <1>3, <1>4, PutKeepsOwned
  <2>2. firer'[c].victims = firer[c].victims
    BY <1>1, <1>5, <1>8, <1>11 DEF TellerShapes
  <2>3. Victims' = Victims
    BY <1>11, <2>2 DEF Victims
  <2>4. Counting => Counting'
    BY <1>5, <1>8, <1>11 DEF Counting
  <2> QED
    BY <1>1, <2>1, <2>3, <2>4, PruningStays
<1>17. DeskShapes' /\ AwayIsUnmarked'
  BY <1>1, <1>9 DEF DeskShapes, AwayIsUnmarked
<1> QED
  BY <1>11, <1>13, <1>14, <1>15, <1>16, <1>17 DEF ListInv

LEMMA ToldKeepsLists ==
  ASSUME ListInv, NEW c \in Runs, Told(c)
  PROVE  ListInv'
<1>1. /\ StoreShapes /\ TellerShapes /\ DeskShapes /\ TellersAreValid
      /\ AwayIsUnmarked /\ PruningSuffices
  BY DEF ListInv
<1> DEFINE f == IF firer[c].at = "fire" THEN [Quiet EXCEPT !.at = "told"] ELSE Quiet
<1>2. PICK m \in firer[c].meta : TellAll(m)
  BY DEF Told
<1>3. /\ firer[c].at \in {"fire", "say"} /\ firer' = [firer EXCEPT ![c] = f]
      /\ asked' = [asked EXCEPT ![c] = @ + 1]
      /\ UNCHANGED <<record, stamps, session, writes, online, outbox, handler, list, viewing, unmarked>>
  BY <1>1 DEF Told, TellerShapes
<1>4. /\ f.at = (IF firer[c].at = "fire" THEN "told" ELSE "quiet") /\ f.meta = {} /\ f.victims = {}
      /\ f \in At({"quiet", "owned", "fire", "say", "told", "prune"})
  BY DEF Quiet, At, NoRecord
<1> HIDE DEF f
<1>5. m \in Metas /\ Valid(m) /\ firer[c].meta = {m}
  BY <1>1, <1>2 DEF TellersAreValid, TellerShapes, At, AtMostOne
<1>6. AtMostOne(f.meta) /\ (f.at # "prune" => f.victims = {})
  BY <1>4 DEF AtMostOne
<1>7. /\ TellerShapes' /\ firer'[c] = f /\ \A d \in Runs : d # c => firer'[d] = firer[d]
      /\ \A n \in Metas : Tells(n) => Tells(n)' \/ (firer[c].at \in {"fire", "say"} /\ n \in firer[c].meta)
      /\ \A s \in Screens, n \in Metas : Lists(s, n) => Lists(s, n)'
  BY <1>1, <1>3, <1>4, <1>6, FirerMoves
<1>8. \A n \in Metas : Tells(n) => n = m \/ Tells(n)'
  BY <1>5, <1>7
<1>9. DevicesHear' /\ MarksCome' /\ DeskShapes'
  BY <1>2, <1>3, <1>5, <1>7, <1>8, TellKeepsNews
<1>10. StoreShapes'
  <2>1. /\ asked' \in [Runs -> Nat] /\ asked'[c] = asked[c] + 1 /\ asked[c] + 1 <= stamps
        /\ \A d \in Runs : d # c => asked'[d] = asked[d]
    BY <1>1, <1>3 DEF StoreShapes
  <2>2. firer'[c].at \notin {"fire", "say"}
    BY <1>4, <1>7
  <2>3. \A d \in Runs : asked'[d] + (IF firer'[d].at \in {"fire", "say"} THEN 1 ELSE 0) <= stamps
    <3>1. asked'[c] + (IF firer'[c].at \in {"fire", "say"} THEN 1 ELSE 0) <= stamps
      BY <2>1, <2>2, <1>1 DEF StoreShapes
    <3>2. \A d \in Runs : d # c => asked'[d] + (IF firer'[d].at \in {"fire", "say"} THEN 1 ELSE 0) <= stamps
      BY <1>1, <1>7, <2>1 DEF StoreShapes
    <3> QED
      BY <3>1, <3>2
  <2>4. \A d \in Runs : Current(d)' = Current(d)
    BY <1>3, StoreSame
  <2> QED
    BY <1>1, <1>3, <2>1, <2>3, <2>4 DEF StoreShapes
<1>11. TellersAreValid'
  <2>1. \A n \in Metas : Valid(n)' = Valid(n)
    BY <1>3, StoreSame
  <2>2. ASSUME NEW d \in Runs, NEW n \in (firer[d].meta \cup session[d].meta)' PROVE Valid(n)'
    <3>1. n \in firer[d].meta \cup session[d].meta /\ n \in Metas
      BY <1>1, <1>3, <1>4, <1>7, <2>2 DEF TellerShapes, At
    <3> QED
      BY <1>1, <2>1, <3>1 DEF TellersAreValid
  <2>3. ASSUME NEW s \in Screens, NEW n \in handler'[s].meta PROVE Valid(n)'
    BY <1>1, <1>3, <2>1, <2>3 DEF TellersAreValid, TellerShapes, At
  <2> QED
    BY <2>2, <2>3 DEF TellersAreValid
<1>12. PruningSuffices'
  <2>1. Owned' = Owned
    BY <1>3, StoreSame
  <2>2. firer'[c].victims = firer[c].victims
    BY <1>1, <1>3, <1>4, <1>7 DEF TellerShapes
  <2>3. Victims' = Victims
    BY <1>7, <2>2 DEF Victims
  <2>4. Counting => Counting'
    BY <1>3, <1>4, <1>7 DEF Counting
  <2> QED
    BY <1>1, <2>1, <2>3, <2>4, PruningStays
<1>13. AwayIsUnmarked'
  BY <1>1, <1>3 DEF AwayIsUnmarked
<1> QED
  BY <1>7, <1>9, <1>10, <1>11, <1>12, <1>13 DEF ListInv

LEMMA ListRunsKeepsLists ==
  ASSUME ListInv, NEW c \in Runs, ListRuns(c)
  PROVE  ListInv'
<1>1. /\ StoreShapes /\ TellerShapes /\ DeskShapes /\ TellersAreValid
      /\ AwayIsUnmarked /\ PruningSuffices
  BY DEF ListInv
<1>2. PICK v \in Surplus :
        firer' = [firer EXCEPT ![c] = IF v = {} THEN Quiet ELSE [Quiet EXCEPT !.at = "prune", !.victims = v]]
  BY DEF ListRuns
<1>3. /\ firer[c].at = "told"
      /\ UNCHANGED <<record, stamps, asked, session, writes, desks>>
  BY DEF ListRuns
<1>4. UNCHANGED <<online, inbox, outbox, handler, list, viewing, crossed, unmarked>>
  BY <1>3 DEF desks
<1>5. v \subseteq Owned /\ Cardinality(Owned \ v) <= Kept
  <2>1. /\ IsFiniteSet(Owned) /\ Cardinality(Owned) \in Nat /\ Kept \in Nat
        /\ Cardinality(Owned \ v) = Cardinality(Owned) - Cardinality(Owned \cap v)
    BY <1>1, ListAssumption, FS_CardinalityType, FS_Difference DEF PruningSuffices
  <2>2. CASE Cardinality(Owned) > Kept
    <3>1. v \in SUBSET Owned /\ Cardinality(v) = Cardinality(Owned) - Kept
      BY <1>2, <2>2 DEF Surplus, Oldest
    <3>2. Owned \cap v = v
      BY <3>1
    <3> QED
      BY <2>1, <3>1, <3>2
  <2>3. CASE ~(Cardinality(Owned) > Kept)
    <3>1. v = {} /\ Owned \ v = Owned
      BY <1>2, <2>3 DEF Surplus
    <3> QED
      BY <2>1, <2>3, <3>1
  <2> QED
    BY <2>2, <2>3
<1> DEFINE f == IF v = {} THEN Quiet ELSE [Quiet EXCEPT !.at = "prune", !.victims = v]
<1>6. v \subseteq Runs
  BY <1>5 DEF Owned
<1>7. /\ f.at \in {"quiet", "prune"} /\ f.meta = {} /\ f.victims = v /\ (f.at # "prune" => f.victims = {})
      /\ f \in At({"quiet", "owned", "fire", "say", "told", "prune"})
  <2>1. CASE v = {}
    BY <2>1, QuietShape
  <2>2. CASE v # {}
    BY <1>6, <2>2 DEF Quiet, At, NoRecord
  <2> QED
    BY <2>1, <2>2
<1>8. firer' = [firer EXCEPT ![c] = f]
  BY <1>2
<1> HIDE DEF f
<1>9. AtMostOne(f.meta)
  BY <1>7 DEF AtMostOne
<1>10. /\ TellerShapes' /\ firer'[c] = f /\ \A d \in Runs : d # c => firer'[d] = firer[d]
       /\ \A m \in Metas : Tells(m) => Tells(m)'
       /\ \A s \in Screens, m \in Metas : Lists(s, m) => Lists(s, m)'
  BY <1>1, <1>3, <1>4, <1>7, <1>8, <1>9, FirerMoves
<1>11. StoreShapes'
  <2>1. \A d \in Runs : asked'[d] + (IF firer'[d].at \in {"fire", "say"} THEN 1 ELSE 0) <= stamps'
    <3>1. firer'[c].at \notin {"fire", "say"} /\ firer[c].at \notin {"fire", "say"}
      BY <1>3, <1>7, <1>10
    <3> QED
      BY <1>1, <1>3, <1>10, <3>1 DEF StoreShapes
  <2> QED
    BY <1>1, <1>3, <2>1, StoreSame DEF StoreShapes
<1>12. TellersAreValid'
  <2>1. \A m \in Metas : Valid(m) => Valid(m)'
    BY <1>3, StoreSame
  <2>2. ASSUME NEW d \in Runs, NEW m \in (firer[d].meta \cup session[d].meta)' PROVE Valid(m)'
    <3>1. m \in firer[d].meta \cup session[d].meta /\ m \in Metas
      BY <1>1, <1>3, <1>7, <1>10, <2>2 DEF TellerShapes, At
    <3> QED
      BY <1>1, <2>1, <3>1 DEF TellersAreValid
  <2>3. ASSUME NEW s \in Screens, NEW m \in handler'[s].meta PROVE Valid(m)'
    BY <1>1, <1>4, <2>1, <2>3 DEF TellersAreValid, TellerShapes, At
  <2> QED
    BY <2>2, <2>3 DEF TellersAreValid
<1>13. DevicesHear' /\ MarksCome'
  <2>1. \A d \in Runs, m \in Metas : Stated(d, m)' => Stated(d, m)
    BY <1>3, StoreSame
  <2>2. \A s \in Screens : WillList(s) => WillList(s)'
    BY <1>4 DEF WillList
  <2>3. \A s \in Screens, d \in Runs : WillMark(s, d) => WillMark(s, d)'
    BY <1>4 DEF WillMark
  <2>4. online \subseteq Screens
    BY <1>1 DEF DeskShapes
  <2> QED
    BY <1>4, <1>10, <2>1, <2>2, <2>3, <2>4, NewsStay, MarksStay
<1>14. PruningSuffices'
  <2>1. Owned' = Owned /\ IsFiniteSet(Owned)
    BY <1>1, <1>3, StoreSame DEF PruningSuffices
  <2>2. v \subseteq Victims'
    BY <1>7, <1>10 DEF Victims
  <2>3. IsFiniteSet(Owned \ v) /\ Owned \ Victims' \subseteq Owned \ v
    BY <2>1, <2>2, FS_Difference
  <2>4. /\ Cardinality(Owned \ Victims') <= Cardinality(Owned \ v)
        /\ Cardinality(Owned \ Victims') \in Nat /\ Cardinality(Owned \ v) \in Nat
    BY <2>3, FS_Subset, FS_CardinalityType
  <2>5. Cardinality(Owned \ Victims') <= Kept
    BY <1>5, <2>4, ListAssumption
  <2> QED
    BY <2>1, <2>5 DEF PruningSuffices
<1>15. DeskShapes' /\ AwayIsUnmarked'
  BY <1>1, <1>4 DEF DeskShapes, AwayIsUnmarked
<1> QED
  BY <1>10, <1>11, <1>12, <1>13, <1>14, <1>15 DEF ListInv

LEMMA PruneKeepsLists ==
  ASSUME ListInv, NEW c \in Runs, Prune(c)
  PROVE  ListInv'
<1>1. /\ StoreShapes /\ TellerShapes /\ DeskShapes /\ TellersAreValid
      /\ AwayIsUnmarked /\ PruningSuffices
  BY DEF ListInv
<1>2. PICK v \in firer[c].victims :
        /\ record' = [record EXCEPT ![v] = NoRecord]
        /\ LET rest == firer[c].victims \ {v}
           IN firer' = [firer EXCEPT ![c] = IF rest = {} THEN Quiet ELSE [@ EXCEPT !.victims = rest]]
  BY DEF Prune
<1>3. firer[c].at = "prune" /\ UNCHANGED <<stamps, asked, session, writes, desks>>
  BY DEF Prune
<1>4. UNCHANGED <<online, inbox, outbox, handler, list, viewing, crossed, unmarked>>
  BY <1>3 DEF desks
<1>5. v \in Runs /\ firer[c] \in At({"quiet", "owned", "fire", "say", "told", "prune"})
      /\ AtMostOne(firer[c].meta)
  BY <1>1, <1>2 DEF TellerShapes, At
<1> DEFINE rest == firer[c].victims \ {v}
           f == IF rest = {} THEN Quiet ELSE [firer[c] EXCEPT !.victims = rest]
<1>6. firer' = [firer EXCEPT ![c] = f]
  BY <1>1, <1>2 DEF TellerShapes
<1>7. /\ f.at \in {"quiet", "prune"} /\ f.victims = rest /\ (f.at # "prune" => f.victims = {})
      /\ f.meta \subseteq firer[c].meta
      /\ f \in At({"quiet", "owned", "fire", "say", "told", "prune"})
  <2>1. CASE rest = {}
    BY <2>1, QuietShape
  <2>2. CASE rest # {}
    BY <1>3, <1>5, <2>2 DEF At
  <2> QED
    BY <2>1, <2>2
<1> HIDE DEF f
<1>8. AtMostOne(f.meta)
  BY <1>5, <1>7 DEF AtMostOne
<1>9. /\ TellerShapes' /\ firer'[c] = f /\ \A d \in Runs : d # c => firer'[d] = firer[d]
      /\ \A m \in Metas : Tells(m) => Tells(m)'
      /\ \A s \in Screens, m \in Metas : Lists(s, m) => Lists(s, m)'
  BY <1>1, <1>3, <1>4, <1>6, <1>7, <1>8, FirerMoves
<1>10. /\ record' \in [Runs -> SUBSET Records] /\ record'[v] = NoRecord /\ Current(v)' = Fresh
       /\ \A d \in Runs : d # v => record'[d] = record[d] /\ Current(d)' = Current(d)
  <2>1. record'[v] = NoRecord /\ \A d \in Runs : d # v => record'[d] = record[d]
    BY <1>1, <1>2, <1>5 DEF StoreShapes
  <2>2. record' \in [Runs -> SUBSET Records]
    BY <1>1, <1>2 DEF StoreShapes, NoRecord
  <2>3. ASSUME NEW d \in Runs, d # v PROVE Current(d)' = Current(d)
    <3>1. record'[d] = record[d]
      BY <2>1, <2>3
    <3> QED
      BY <3>1 DEF Current
  <2> QED
    BY <2>1, <2>2, <2>3 DEF Current
<1>11. StoreShapes'
  <2>1. \A d \in Runs : asked'[d] + (IF firer'[d].at \in {"fire", "say"} THEN 1 ELSE 0) <= stamps'
    <3>1. firer'[c].at \notin {"fire", "say"} /\ firer[c].at \notin {"fire", "say"}
      BY <1>3, <1>7, <1>9
    <3> QED
      BY <1>1, <1>3, <1>9, <3>1 DEF StoreShapes
  <2>2. \A d \in Runs : AtMostOne(record'[d])
    BY <1>1, <1>10 DEF StoreShapes, AtMostOne, NoRecord
  <2>3. \A d \in Runs : record'[d] # NoRecord => Current(d)'.version = writes'[d]
    BY <1>1, <1>3, <1>10 DEF StoreShapes
  <2> QED
    BY <1>1, <1>3, <1>10, <2>1, <2>2, <2>3 DEF StoreShapes
<1>12. TellersAreValid'
  <2>1. ASSUME NEW m \in Metas, Valid(m) PROVE Valid(m)'
    <3>1. m.id \in Runs
      BY DEF Metas
    <3> QED
      BY <1>3, <1>10, <2>1, <3>1 DEF Valid
  <2>2. ASSUME NEW d \in Runs, NEW m \in (firer[d].meta \cup session[d].meta)' PROVE Valid(m)'
    <3>1. m \in firer[d].meta \cup session[d].meta /\ m \in Metas
      BY <1>1, <1>3, <1>7, <1>9, <2>2 DEF TellerShapes, At
    <3> QED
      BY <1>1, <2>1, <3>1 DEF TellersAreValid
  <2>3. ASSUME NEW s \in Screens, NEW m \in handler'[s].meta PROVE Valid(m)'
    BY <1>1, <1>4, <2>1, <2>3 DEF TellersAreValid, TellerShapes, At
  <2> QED
    BY <2>2, <2>3 DEF TellersAreValid
<1>13. DevicesHear' /\ MarksCome'
  <2>1. ASSUME NEW d \in Runs, NEW m \in Metas, Stated(d, m)' PROVE Stated(d, m)
    <3>1. m = Metadata(d, Current(d)') /\ m.updated > 0 /\ m.updated = Current(d)'.updated
      BY <2>1 DEF Stated, Metadata
    <3>2. d # v
      BY <1>10, <3>1, FreshSaysNothing
    <3> QED
      BY <1>10, <3>1, <3>2 DEF Stated
  <2>2. \A s \in Screens : WillList(s) => WillList(s)'
    BY <1>4 DEF WillList
  <2>3. \A s \in Screens, d \in Runs : WillMark(s, d) => WillMark(s, d)'
    BY <1>4 DEF WillMark
  <2>4. online \subseteq Screens
    BY <1>1 DEF DeskShapes
  <2> QED
    BY <1>4, <1>9, <2>1, <2>2, <2>3, <2>4, NewsStay, MarksStay
<1>14. PruningSuffices'
  <2>1. Owned' \subseteq Owned /\ v \notin Owned'
    BY <1>10 DEF Owned
  <2>2. ASSUME NEW x \in Owned' \ Victims', x \in Victims PROVE FALSE
    <3>1. PICK d \in Runs : x \in firer[d].victims
      BY <2>2 DEF Victims
    <3>2. x \in firer'[d].victims
      BY <1>7, <1>9, <2>1, <3>1
    <3> QED
      BY <2>2, <3>2 DEF Victims
  <2>3. Counting => Counting'
    BY <1>3, <1>9 DEF Counting
  <2> QED
    BY <1>1, <2>1, <2>2, <2>3, PruningStays
<1>15. DeskShapes' /\ AwayIsUnmarked'
  BY <1>1, <1>4 DEF DeskShapes, AwayIsUnmarked
<1> QED
  BY <1>9, <1>11, <1>12, <1>13, <1>14, <1>15 DEF ListInv

(* What a step makes of the session's save, and of a device's command.       *)
LEMMA SessionMoves ==
  ASSUME TellerShapes, NEW c \in Runs, NEW f, f \in At({"quiet", "tell"}), AtMostOne(f.meta),
         session' = [session EXCEPT ![c] = f], UNCHANGED <<firer, handler>>
  PROVE  /\ TellerShapes' /\ session'[c] = f /\ \A d \in Runs : d # c => session'[d] = session[d]
         /\ \A m \in Metas : Tells(m) => Tells(m)' \/ (session[c].at = "tell" /\ m \in session[c].meta)
         /\ f.at = "tell" => \A m \in f.meta : Tells(m)'
         /\ \A s \in Screens, m \in Metas : Lists(s, m) => Lists(s, m)'
<1>1. session'[c] = f /\ \A d \in Runs : d # c => session'[d] = session[d]
  BY DEF TellerShapes
<1>2. TellerShapes'
  BY <1>1 DEF TellerShapes
<1>3. \A m \in Metas : Tells(m) => Tells(m)' \/ (session[c].at = "tell" /\ m \in session[c].meta)
  BY <1>1 DEF Tells
<1>4. f.at = "tell" => \A m \in f.meta : Tells(m)'
  BY <1>1 DEF Tells
<1>5. \A s \in Screens, m \in Metas : Lists(s, m) => Lists(s, m)'
  BY DEF Lists
<1> QED
  BY <1>1, <1>2, <1>3, <1>4, <1>5

LEMMA HandlerMoves ==
  ASSUME TellerShapes, NEW s \in Screens, NEW h, h \in At({"quiet", "tell", "reply"}),
         h.at = "tell" => AtMostOne(h.meta),
         handler' = [handler EXCEPT ![s] = h], UNCHANGED <<firer, session>>
  PROVE  /\ TellerShapes' /\ handler'[s] = h /\ \A t \in Screens : t # s => handler'[t] = handler[t]
         /\ \A m \in Metas : Tells(m) => Tells(m)' \/ (handler[s].at = "tell" /\ m \in handler[s].meta)
         /\ h.at = "tell" => \A m \in h.meta : Tells(m)'
         /\ \A t \in Screens, m \in Metas : Lists(t, m) => Lists(t, m)' \/ (t = s /\ handler[s].at = "reply")
         /\ h.at = "reply" => \A m \in h.meta : Lists(s, m)'
<1>1. handler'[s] = h /\ \A t \in Screens : t # s => handler'[t] = handler[t]
  BY DEF TellerShapes
<1>2. TellerShapes'
  BY <1>1 DEF TellerShapes
<1>3. \A m \in Metas : Tells(m) => Tells(m)' \/ (handler[s].at = "tell" /\ m \in handler[s].meta)
  BY <1>1 DEF Tells
<1>4. h.at = "tell" => \A m \in h.meta : Tells(m)'
  BY <1>1 DEF Tells
<1>5. \A t \in Screens, m \in Metas : Lists(t, m) => Lists(t, m)' \/ (t = s /\ handler[s].at = "reply")
  BY <1>1 DEF Lists
<1>6. h.at = "reply" => \A m \in h.meta : Lists(s, m)'
  BY <1>1 DEF Lists
<1> QED
  BY <1>1, <1>2, <1>3, <1>4, <1>5, <1>6

LEMMA SaveTurnKeepsLists ==
  ASSUME ListInv, NEW c \in Runs, SaveTurn(c)
  PROVE  ListInv'
<1>1. /\ StoreShapes /\ TellerShapes /\ DeskShapes /\ TellersAreValid
      /\ AwayIsUnmarked /\ PruningSuffices
  BY DEF ListInv
<1> DEFINE f == [Quiet EXCEPT !.at = "tell", !.meta = {Metadata(c, Saved(c))}]
           r == [Current(c) EXCEPT !.updated = stamps + 1]
<1>2. Current(c) \in Records /\ stamps + 1 \in 0..MaxStamps /\ stamps < MaxStamps /\ stamps \in Nat
  BY <1>1, CurrentIsARecord, ListAssumption DEF SaveTurn, Stamp, StoreShapes
<1>3. r \in Records /\ r.updated = stamps + 1 /\ r.owned = Current(c).owned
  BY <1>2 DEF Records
<1>4. /\ Put(c, r) /\ stamps' = stamps + 1 /\ session' = [session EXCEPT ![c] = f]
      /\ session[c] = Quiet /\ asked[c] > 0 /\ asked' = [asked EXCEPT ![c] = @ - 1]
      /\ UNCHANGED <<firer, desks>>
  BY DEF SaveTurn, Stamp
<1>5. PICK n : n = Metadata(c, Saved(c))
  OBVIOUS
<1>6. n \in Metas /\ Valid(n)' /\ \A m \in Metas : Valid(m) => Valid(m)'
  BY <1>1, <1>3, <1>4, <1>5, PutKeepsValid
<1>7. f.at = "tell" /\ f.meta = {n} /\ f \in At({"quiet", "tell"})
  <2>1. f = [Quiet EXCEPT !.at = "tell", !.meta = {n}]
    BY <1>5
  <2>2. {n} \in SUBSET Metas
    BY <1>6
  <2>3. LET g == [Quiet EXCEPT !.at = "tell", !.meta = {n}]
        IN  g.at = "tell" /\ g.meta = {n} /\ g \in At({"quiet", "tell"})
    BY <2>2 DEF Quiet, At, NoRecord
  <2> HIDE DEF f
  <2> QED
    BY <2>1, <2>3
<1> HIDE DEF f, r
<1>8. UNCHANGED <<online, inbox, outbox, handler, list, viewing, crossed, unmarked>>
  BY <1>4 DEF desks
<1>9. AtMostOne(f.meta)
  BY <1>7 DEF AtMostOne
<1>10. /\ TellerShapes' /\ session'[c] = f /\ \A d \in Runs : d # c => session'[d] = session[d]
       /\ \A m \in Metas : Tells(m) => Tells(m)' \/ (session[c].at = "tell" /\ m \in session[c].meta)
       /\ \A m \in f.meta : Tells(m)'
       /\ \A s \in Screens, m \in Metas : Lists(s, m) => Lists(s, m)'
  BY <1>1, <1>4, <1>7, <1>8, <1>9, SessionMoves
<1>11. (\A m \in Metas : Tells(m) => Tells(m)') /\ Tells(n)'
  BY <1>4, <1>7, <1>10, QuietShape
<1>12. StoreShapes'
  <2>1. /\ asked' \in [Runs -> Nat] /\ asked'[c] = asked[c] - 1 /\ asked[c] - 1 \in Nat
        /\ \A d \in Runs : d # c => asked'[d] = asked[d]
    BY <1>1, <1>4 DEF StoreShapes
  <2>2. \A d \in Runs : asked'[d] <= asked[d] /\ asked'[d] \in Nat /\ asked[d] \in Nat
    BY <1>1, <2>1 DEF StoreShapes
  <2>3. ASSUME NEW d \in Runs
        PROVE  asked'[d] + (IF firer'[d].at \in {"fire", "say"} THEN 1 ELSE 0) <= stamps'
    <3>1. PICK k \in {0, 1} : k = IF firer[d].at \in {"fire", "say"} THEN 1 ELSE 0
      OBVIOUS
    <3>2. asked[d] + k <= stamps
      BY <1>1, <3>1 DEF StoreShapes
    <3>3. asked'[d] + k <= stamps + 1
      BY <1>2, <2>2, <3>2
    <3> QED
      BY <1>4, <3>1, <3>3
  <2> QED
    BY <1>1, <1>2, <1>3, <1>4, <2>1, <2>3, PutWrites DEF StoreShapes
<1>13. TellersAreValid'
  <2>1. ASSUME NEW d \in Runs, NEW m \in (firer[d].meta \cup session[d].meta)' PROVE Valid(m)'
    <3>1. m = n \/ (m \in firer[d].meta \cup session[d].meta /\ m \in Metas)
      BY <1>1, <1>4, <1>7, <1>10, <2>1 DEF TellerShapes, At
    <3> QED
      BY <1>1, <1>6, <3>1 DEF TellersAreValid
  <2>2. ASSUME NEW s \in Screens, NEW m \in handler'[s].meta PROVE Valid(m)'
    BY <1>1, <1>6, <1>8, <2>2 DEF TellersAreValid, TellerShapes, At
  <2> QED
    BY <2>1, <2>2 DEF TellersAreValid
<1>14. DevicesHear' /\ MarksCome'
  <2>1. \A s \in Screens : WillList(s) => WillList(s)'
    BY <1>8 DEF WillList
  <2>2. \A s \in Screens, d \in Runs : WillMark(s, d) => WillMark(s, d)'
    BY <1>8 DEF WillMark
  <2> QED
    BY <1>3, <1>4, <1>5, <1>8, <1>10, <1>11, <2>1, <2>2, PutKeepsNews
<1>15. PruningSuffices'
  <2>1. Owned' \subseteq Owned
    BY <1>1, <1>3, <1>4, PutKeepsOwned
  <2>2. Victims' = Victims /\ Counting' = Counting
    BY <1>4 DEF Victims, Counting
  <2> QED
    BY <1>1, <2>1, <2>2, PruningStays
<1>16. DeskShapes' /\ AwayIsUnmarked'
  BY <1>1, <1>8 DEF DeskShapes, AwayIsUnmarked
<1> QED
  BY <1>10, <1>12, <1>13, <1>14, <1>15, <1>16 DEF ListInv

LEMMA TellTurnKeepsLists ==
  ASSUME ListInv, NEW c \in Runs, TellTurn(c)
  PROVE  ListInv'
<1>1. /\ StoreShapes /\ TellerShapes /\ DeskShapes /\ TellersAreValid
      /\ AwayIsUnmarked /\ PruningSuffices
  BY DEF ListInv
<1>2. PICK m \in session[c].meta : TellAll(m)
  BY DEF TellTurn
<1>3. /\ session[c].at = "tell" /\ session' = [session EXCEPT ![c] = Quiet]
      /\ UNCHANGED <<record, stamps, firer, asked, writes, online, outbox, handler, list, viewing, unmarked>>
  BY DEF TellTurn
<1>4. m \in Metas /\ Valid(m) /\ session[c].meta = {m}
  BY <1>1, <1>2 DEF TellersAreValid, TellerShapes, At, AtMostOne
<1>5. Quiet.meta = {} /\ Quiet \in At({"quiet", "tell"}) /\ AtMostOne(Quiet.meta)
  BY QuietShape DEF AtMostOne
<1>6. /\ TellerShapes' /\ session'[c] = Quiet /\ \A d \in Runs : d # c => session'[d] = session[d]
      /\ \A n \in Metas : Tells(n) => Tells(n)' \/ (session[c].at = "tell" /\ n \in session[c].meta)
      /\ \A s \in Screens, n \in Metas : Lists(s, n) => Lists(s, n)'
  BY <1>1, <1>3, <1>5, SessionMoves
<1>7. \A n \in Metas : Tells(n) => n = m \/ Tells(n)'
  BY <1>4, <1>6
<1>8. DevicesHear' /\ MarksCome' /\ DeskShapes'
  BY <1>2, <1>3, <1>4, <1>6, <1>7, TellKeepsNews
<1>9. StoreShapes'
  BY <1>1, <1>3, StoreSame DEF StoreShapes
<1>10. TellersAreValid'
  <2>1. \A n \in Metas : Valid(n)' = Valid(n)
    BY <1>3, StoreSame
  <2>2. ASSUME NEW d \in Runs, NEW n \in (firer[d].meta \cup session[d].meta)' PROVE Valid(n)'
    <3>1. n \in firer[d].meta \cup session[d].meta /\ n \in Metas
      BY <1>1, <1>3, <1>5, <1>6, <2>2 DEF TellerShapes, At
    <3> QED
      BY <1>1, <2>1, <3>1 DEF TellersAreValid
  <2>3. ASSUME NEW s \in Screens, NEW m1 \in handler'[s].meta PROVE Valid(m1)'
    BY <1>1, <1>3, <2>1, <2>3 DEF TellersAreValid, TellerShapes, At
  <2> QED
    BY <2>2, <2>3 DEF TellersAreValid
<1>11. PruningSuffices'
  BY <1>1, <1>3, PruningSame
<1>12. AwayIsUnmarked'
  BY <1>1, <1>3 DEF AwayIsUnmarked
<1> QED
  BY <1>6, <1>8, <1>9, <1>10, <1>11, <1>12 DEF ListInv

LEMMA TellMarkKeepsLists ==
  ASSUME ListInv, NEW s \in Screens, TellMark(s)
  PROVE  ListInv'
<1>1. /\ StoreShapes /\ TellerShapes /\ DeskShapes /\ TellersAreValid
      /\ AwayIsUnmarked /\ PruningSuffices
  BY DEF ListInv
<1>2. PICK m \in handler[s].meta : TellAll(m)
  BY DEF TellMark
<1>3. /\ handler[s].at = "tell" /\ handler' = [handler EXCEPT ![s] = Quiet]
      /\ UNCHANGED <<record, stamps, firer, asked, session, writes, online, outbox, list, viewing, unmarked>>
  BY DEF TellMark
<1>4. m \in Metas /\ Valid(m) /\ handler[s].meta = {m}
  BY <1>1, <1>2, <1>3 DEF TellersAreValid, TellerShapes, At, AtMostOne
<1>5. Quiet.at = "quiet" /\ Quiet.meta = {} /\ Quiet \in At({"quiet", "tell", "reply"})
  BY QuietShape
<1>6. /\ TellerShapes' /\ handler'[s] = Quiet /\ \A t \in Screens : t # s => handler'[t] = handler[t]
      /\ \A n \in Metas : Tells(n) => Tells(n)' \/ (handler[s].at = "tell" /\ n \in handler[s].meta)
      /\ \A t \in Screens, n \in Metas : Lists(t, n) => Lists(t, n)'
  BY <1>1, <1>3, <1>5, HandlerMoves
<1>7. \A n \in Metas : Tells(n) => n = m \/ Tells(n)'
  BY <1>4, <1>6
<1>8. DevicesHear' /\ MarksCome' /\ DeskShapes'
  BY <1>2, <1>3, <1>4, <1>6, <1>7, TellKeepsNews
<1>9. StoreShapes'
  BY <1>1, <1>3, StoreSame DEF StoreShapes
<1>10. TellersAreValid'
  <2>1. \A n \in Metas : Valid(n)' = Valid(n)
    BY <1>3, StoreSame
  <2>2. ASSUME NEW d \in Runs, NEW n \in (firer[d].meta \cup session[d].meta)' PROVE Valid(n)'
    BY <1>1, <1>3, <2>1, <2>2 DEF TellersAreValid, TellerShapes, At
  <2>3. ASSUME NEW t \in Screens, NEW n \in handler'[t].meta PROVE Valid(n)'
    <3>1. n \in handler[t].meta /\ n \in Metas
      BY <1>1, <1>5, <1>6, <2>3 DEF TellerShapes, At
    <3> QED
      BY <1>1, <2>1, <3>1 DEF TellersAreValid
  <2> QED
    BY <2>2, <2>3 DEF TellersAreValid
<1>11. PruningSuffices'
  BY <1>1, <1>3, PruningSame
<1>12. AwayIsUnmarked'
  BY <1>1, <1>3 DEF AwayIsUnmarked
<1> QED
  BY <1>6, <1>8, <1>9, <1>10, <1>11, <1>12 DEF ListInv

-----------------------------------------------------------------------------
(*****************************************************************************)
(* The steps of a device.                                                    *)
(*****************************************************************************)
Commands == [cmd : {"list", "markRead"}, id : SUBSET Runs]
OutboxShape ==
    /\ outbox \in [Screens -> Seq(Commands)]
    /\ \A s \in Screens : \A i \in 1..Len(outbox[s]) : outbox[s][i].cmd = "markRead" => AtMostOne(outbox[s][i].id)

LEMMA OutboxIsShaped == DeskShapes => OutboxShape
BY DEF DeskShapes, OutboxShape, Commands

(* A device sends the mark: what was in its outbox stays there. *)
LEMMA SendsMark ==
  ASSUME DeskShapes, NEW s \in Screens, NEW c \in Runs, SendCommands(s, <<MarkCmd(c)>>)
  PROVE  /\ OutboxShape'
         /\ \A t \in Screens : WillList(t) => WillList(t)'
         /\ \A t \in Screens, d \in Runs : WillMark(t, d) => WillMark(t, d)'
         /\ s \in online => WillMark(s, c)'
<1>1. PICK e : e = MarkCmd(c)
  OBVIOUS
<1>2. e \in Commands /\ AtMostOne(e.id) /\ e = MarkCmd(c)
  <2>1. e = [cmd |-> "markRead", id |-> {c}]
    BY <1>1 DEF MarkCmd
  <2> QED
    BY <1>1, <2>1 DEF Commands, AtMostOne
<1>3. OutboxShape
  BY OutboxIsShaped
<1>4. CASE s \notin online
  <2>1. outbox' = outbox
    BY <1>3, <1>4 DEF SendCommands, OutboxShape
  <2> QED
    BY <1>3, <1>4, <2>1 DEF OutboxShape, WillList, WillMark
<1>5. CASE s \in online
  <2>1. outbox[s] \in Seq(Commands)
    BY <1>3 DEF OutboxShape
  <2>2. PICK q : q = Append(outbox[s], e)
    OBVIOUS
  <2>3. outbox' = [outbox EXCEPT ![s] = q]
    <3>1. Append(outbox[s], e) = outbox[s] \o <<e>>
      BY <1>2, <2>1, AppendIsConcat
    <3>2. outbox' = [outbox EXCEPT ![s] = outbox[s] \o <<e>>]
      BY <1>1, <1>5 DEF SendCommands
    <3> QED
      BY <2>2, <3>1, <3>2
  <2>4. /\ q \in Seq(Commands) /\ Len(q) = Len(outbox[s]) + 1
        /\ \A i \in 1..Len(outbox[s]) : q[i] = outbox[s][i]
        /\ q[Len(outbox[s]) + 1] = e
    BY <1>2, <2>1, <2>2, AppendProperties
  <2>5. PICK k \in Nat : k = Len(outbox[s])
    BY <2>1, LenProperties
  <2>6. Len(q) = k + 1 /\ q[k + 1] = e /\ \A i \in 1..k : q[i] = outbox[s][i]
    BY <2>4, <2>5
  <2>7. outbox'[s] = q /\ \A t \in Screens : t # s => outbox'[t] = outbox[t]
    BY <1>3, <2>3 DEF OutboxShape
  <2>8. outbox' \in [Screens -> Seq(Commands)]
    BY <1>3, <2>3, <2>4 DEF OutboxShape
  <2>9. ASSUME NEW i \in 1..Len(q), q[i].cmd = "markRead" PROVE AtMostOne(q[i].id)
    <3>1. CASE i = k + 1
      BY <1>2, <2>6, <3>1
    <3>2. CASE i # k + 1
      <4>1. i \in 1..k
        BY <2>6, <3>2
      <4>2. i \in 1..Len(outbox[s]) /\ outbox[s][i].cmd = "markRead" /\ q[i] = outbox[s][i]
        BY <2>5, <2>6, <2>9, <4>1
      <4> QED
        BY <1>3, <4>2 DEF OutboxShape
    <3> QED
      BY <3>1, <3>2
  <2>10. OutboxShape'
    BY <1>3, <2>7, <2>8, <2>9 DEF OutboxShape
  <2>11. ASSUME NEW x, \E i \in 1..k : outbox[s][i] = x PROVE \E i \in 1..Len(outbox'[s]) : outbox'[s][i] = x
    <3>1. PICK i \in 1..k : outbox[s][i] = x
      BY <2>11
    <3>2. i \in 1..Len(q) /\ q[i] = x
      BY <2>6, <3>1
    <3> QED
      BY <2>7, <3>2
  <2>12. ASSUME NEW t \in Screens, WillList(t) PROVE WillList(t)'
    BY <2>5, <2>7, <2>11, <2>12 DEF WillList
  <2>13. ASSUME NEW t \in Screens, NEW d \in Runs, WillMark(t, d) PROVE WillMark(t, d)'
    BY <2>5, <2>7, <2>11, <2>13 DEF WillMark
  <2>14. WillMark(s, c)'
    <3>1. k + 1 \in 1..Len(outbox'[s]) /\ outbox'[s][k + 1] = MarkCmd(c)
      BY <1>2, <2>6, <2>7
    <3> QED
      BY <3>1 DEF WillMark
  <2> QED
    BY <2>10, <2>12, <2>13, <2>14
<1> QED
  BY <1>4, <1>5

(* Its read loop takes the first. *)
LEMMA TakesFirst ==
  ASSUME DeskShapes, NEW s \in Screens, outbox[s] # <<>>, outbox' = [outbox EXCEPT ![s] = Tail(@)]
  PROVE  /\ OutboxShape' /\ Head(outbox[s]) \in Commands
         /\ Head(outbox[s]).cmd = "markRead" => AtMostOne(Head(outbox[s]).id)
         /\ \A t \in Screens : WillList(t) => WillList(t)' \/ (t = s /\ Head(outbox[s]) = ListCmd)
         /\ \A t \in Screens, d \in Runs : WillMark(t, d) => WillMark(t, d)' \/ (t = s /\ Head(outbox[s]) = MarkCmd(d))
<1>1. OutboxShape
  BY OutboxIsShaped
<1>2. PICK q : q = Tail(outbox[s])
  OBVIOUS
<1>3. PICK h : h = Head(outbox[s])
  OBVIOUS
<1>4. outbox[s] \in Seq(Commands)
  BY <1>1 DEF OutboxShape
<1>5. PICK k \in Nat : k = Len(outbox[s]) - 1
  <2>1. Len(outbox[s]) \in Nat \ {0}
    BY <1>4, EmptySeq
  <2>2. Len(outbox[s]) - 1 \in Nat
    BY <2>1
  <2> QED
    BY <2>2
<1>6. /\ h \in Commands /\ q \in Seq(Commands) /\ Len(q) = k /\ Len(outbox[s]) = k + 1
      /\ \A i \in 1..k : q[i] = outbox[s][i + 1]
  BY <1>2, <1>3, <1>4, <1>5, HeadTailProperties, LenProperties
<1>7. h = outbox[s][1]
  BY <1>3, <1>4
<1>8. outbox'[s] = q /\ \A t \in Screens : t # s => outbox'[t] = outbox[t]
  BY <1>1, <1>2 DEF OutboxShape
<1>9. outbox' \in [Screens -> Seq(Commands)]
  BY <1>1, <1>2, <1>6 DEF OutboxShape
<1>10. ASSUME NEW i \in 1..k, q[i].cmd = "markRead" PROVE AtMostOne(q[i].id)
  <2>1. i + 1 \in 1..Len(outbox[s]) /\ q[i] = outbox[s][i + 1]
    BY <1>6
  <2> QED
    BY <1>1, <1>10, <2>1 DEF OutboxShape
<1>11. OutboxShape'
  BY <1>1, <1>6, <1>8, <1>9, <1>10 DEF OutboxShape
<1>12. h.cmd = "markRead" => AtMostOne(h.id)
  <2>1. 1 \in 1..Len(outbox[s])
    BY <1>6
  <2> QED
    BY <1>1, <1>7, <2>1 DEF OutboxShape
<1>13. ASSUME NEW x, \E i \in 1..Len(outbox[s]) : outbox[s][i] = x
       PROVE  x = h \/ \E j \in 1..Len(outbox'[s]) : outbox'[s][j] = x
  <2>1. PICK i \in 1..(k + 1) : outbox[s][i] = x
    BY <1>6, <1>13
  <2>2. CASE i = 1
    BY <1>7, <2>1, <2>2
  <2>3. CASE i # 1
    <3>1. i - 1 \in 1..k /\ (i - 1) + 1 = i
      BY <2>3
    <3>2. q[i - 1] = x
      BY <1>6, <2>1, <3>1
    <3>3. i - 1 \in 1..Len(outbox'[s]) /\ outbox'[s][i - 1] = x
      BY <1>6, <1>8, <3>1, <3>2
    <3> QED
      BY <3>3
  <2> QED
    BY <2>2, <2>3
<1>14. ASSUME NEW t \in Screens, WillList(t) PROVE WillList(t)' \/ (t = s /\ h = ListCmd)
  <2>1. CASE t = s
    <3>1. PICK x : x = ListCmd
      OBVIOUS
    <3>2. \E i \in 1..Len(outbox[s]) : outbox[s][i] = x
      BY <1>14, <2>1, <3>1 DEF WillList
    <3>3. x = h \/ \E j \in 1..Len(outbox'[s]) : outbox'[s][j] = x
      BY <1>13, <3>2
    <3> QED
      BY <2>1, <3>1, <3>3 DEF WillList
  <2>2. CASE t # s
    BY <1>8, <1>14, <2>2 DEF WillList
  <2> QED
    BY <2>1, <2>2
<1>15. ASSUME NEW t \in Screens, NEW d \in Runs, WillMark(t, d) PROVE WillMark(t, d)' \/ (t = s /\ h = MarkCmd(d))
  <2>1. CASE t = s
    <3>1. PICK x : x = MarkCmd(d)
      OBVIOUS
    <3>2. \E i \in 1..Len(outbox[s]) : outbox[s][i] = x
      BY <1>15, <2>1, <3>1 DEF WillMark
    <3>3. x = h \/ \E j \in 1..Len(outbox'[s]) : outbox'[s][j] = x
      BY <1>13, <3>2
    <3> QED
      BY <2>1, <3>1, <3>3 DEF WillMark
  <2>2. CASE t # s
    BY <1>8, <1>15, <2>2 DEF WillMark
  <2> QED
    BY <2>1, <2>2
<1> QED
  BY <1>3, <1>6, <1>11, <1>12, <1>14, <1>15

LEMMA OnlineKeepsLists ==
  ASSUME ListInv, NEW s \in Screens, Online(s)
  PROVE  ListInv'
<1>1. /\ StoreShapes /\ TellerShapes /\ DeskShapes /\ TellersAreValid
      /\ DevicesHear /\ MarksCome /\ AwayIsUnmarked /\ PruningSuffices
  BY DEF ListInv
<1>2. /\ s \notin online /\ online' = online \cup {s} /\ crossed' = crossed \ {s}
      /\ outbox' = [outbox EXCEPT ![s] = <<ListCmd>>]
      /\ UNCHANGED <<record, stamps, firer, asked, session, writes, inbox, handler, list, viewing, unmarked>>
  BY DEF Online
<1>3. PICK e : e = ListCmd
  OBVIOUS
<1>4. e \in Commands /\ e.cmd = "list"
  BY <1>3 DEF ListCmd, NoChat, Commands
<1>5. PICK q : q = <<e>>
  OBVIOUS
<1>6. q \in Seq(Commands) /\ Len(q) = 1 /\ q[1] = e
  BY <1>4, <1>5
<1>7. outbox'[s] = q /\ (\A t \in Screens : t # s => outbox'[t] = outbox[t]) /\ outbox' \in [Screens -> Seq(Commands)]
  BY <1>1, <1>2, <1>3, <1>5, <1>6, OutboxIsShaped DEF OutboxShape
<1>8. OutboxShape'
  <2>1. \A i \in 1..Len(q) : q[i].cmd # "markRead"
    BY <1>4, <1>6
  <2> QED
    BY <1>1, <1>7, <2>1, OutboxIsShaped DEF OutboxShape
<1>9. WillList(s)'
  <2>1. Len(outbox'[s]) = 1 /\ outbox'[s][1] = ListCmd
    <3>1. Len(q) = 1 /\ q[1] = ListCmd
      BY <1>3, <1>6
    <3>2. outbox'[s] = q
      BY <1>7
    <3> QED
      BY <3>1, <3>2
  <2> QED
    BY <2>1 DEF WillList
<1>10. \A m : Tells(m) => Tells(m)'
  BY <1>2 DEF Tells
<1>11. \A c \in Runs, m \in Metas : Stated(c, m)' = Stated(c, m)
  BY <1>2, StoreSame
<1>12. DevicesHear'
  <2> SUFFICES ASSUME NEW t \in online' \ crossed', NEW c \in Runs, NEW m \in Metas, Stated(c, m)'
               PROVE  Reaches(t, m)'
    BY DEF DevicesHear
  <2>1. CASE t = s
    BY <1>9, <2>1 DEF Reaches
  <2>2. CASE t # s
    <3>1. t \in online \ crossed /\ t \in Screens /\ Stated(c, m)
      BY <1>1, <1>2, <1>11, <2>2 DEF DeskShapes
    <3>2. Reaches(t, m) /\ outbox'[t] = outbox[t]
      BY <1>1, <1>7, <2>2, <3>1 DEF DevicesHear
    <3>3. WillList(t) => WillList(t)'
      BY <3>2 DEF WillList
    <3>4. (Lists(t, m) => Lists(t, m)') /\ (Stands(t, m) => Stands(t, m)')
      BY <1>2 DEF Lists, Stands, Holds
    <3> QED
      BY <1>10, <3>2, <3>3, <3>4 DEF Reaches
  <2> QED
    BY <2>1, <2>2
<1>13. MarksCome'
  <2> SUFFICES ASSUME NEW t \in online' \ (crossed' \cup unmarked'), NEW c \in Runs, NEW m \in Metas,
                      c \in viewing'[t], Stated(c, m)', Unread(m)
               PROVE  Comes(t, m)'
    BY DEF MarksCome
  <2>1. t # s
    BY <1>1, <1>2 DEF AwayIsUnmarked, NoChat
  <2>2. t \in online \ (crossed \cup unmarked) /\ t \in Screens /\ Stated(c, m) /\ c \in viewing[t]
    BY <1>1, <1>2, <1>11, <2>1 DEF DeskShapes
  <2>3. Comes(t, m) /\ outbox'[t] = outbox[t] /\ inbox'[t] = inbox[t]
    BY <1>1, <1>2, <1>7, <2>1, <2>2 DEF MarksCome
  <2>4. (WillMark(t, m.id) => WillMark(t, m.id)') /\ (Arrives(t, m) => Arrives(t, m)')
    BY <2>3 DEF WillMark, Arrives
  <2> QED
    BY <1>10, <2>3, <2>4 DEF Comes
<1>14. DeskShapes'
  BY <1>1, <1>2, <1>8 DEF DeskShapes, OutboxShape, Commands
<1>15. StoreShapes' /\ TellerShapes' /\ PruningSuffices'
  BY <1>1, <1>2, StoreSame, PruningSame DEF StoreShapes, TellerShapes
<1>16. TellersAreValid'
  <2>1. \A m \in Metas : Valid(m)' = Valid(m)
    BY <1>2, StoreSame
  <2> QED
    BY <1>1, <1>2, <2>1 DEF TellersAreValid, TellerShapes, At
<1>17. AwayIsUnmarked'
  BY <1>1, <1>2 DEF AwayIsUnmarked
<1> QED
  BY <1>12, <1>13, <1>14, <1>15, <1>16, <1>17 DEF ListInv

LEMMA OfflineKeepsLists ==
  ASSUME ListInv, NEW s \in Screens, Offline(s)
  PROVE  ListInv'
<1>1. /\ StoreShapes /\ TellerShapes /\ DeskShapes /\ TellersAreValid
      /\ DevicesHear /\ MarksCome /\ AwayIsUnmarked /\ PruningSuffices
  BY DEF ListInv
<1>2. /\ s \in online /\ online' = online \ {s}
      /\ inbox' = [inbox EXCEPT ![s] = <<>>] /\ outbox' = [outbox EXCEPT ![s] = <<>>]
      /\ handler' = [handler EXCEPT ![s] = IF @.at = "reply" THEN Quiet ELSE @]
      /\ unmarked' = (IF viewing[s] = NoChat THEN unmarked ELSE unmarked \cup {s})
      /\ UNCHANGED <<record, stamps, firer, asked, session, writes, list, viewing, crossed>>
  BY DEF Offline
<1> DEFINE h == IF handler[s].at = "reply" THEN Quiet ELSE handler[s]
<1>3. handler' = [handler EXCEPT ![s] = h]
  BY <1>1, <1>2 DEF TellerShapes
<1>4. /\ h \in At({"quiet", "tell", "reply"}) /\ (h.at = "tell" => AtMostOne(h.meta))
      /\ h.meta \subseteq handler[s].meta
  BY <1>1, QuietShape DEF TellerShapes
<1>5. handler[s].at = "tell" => h = handler[s]
  OBVIOUS
<1> HIDE DEF h
<1>6. /\ TellerShapes' /\ handler'[s] = h /\ \A t \in Screens : t # s => handler'[t] = handler[t]
      /\ \A m \in Metas : Tells(m) => Tells(m)' \/ (handler[s].at = "tell" /\ m \in handler[s].meta)
      /\ h.at = "tell" => \A m \in h.meta : Tells(m)'
      /\ \A t \in Screens, m \in Metas : Lists(t, m) => Lists(t, m)' \/ (t = s /\ handler[s].at = "reply")
  BY <1>1, <1>2, <1>3, <1>4, HandlerMoves
<1>7. \A m \in Metas : Tells(m) => Tells(m)'
  BY <1>5, <1>6
<1>8. \A c \in Runs, m \in Metas : Stated(c, m)' = Stated(c, m)
  BY <1>2, StoreSame
<1>9. \A t \in Screens : t # s => outbox'[t] = outbox[t] /\ inbox'[t] = inbox[t]
  BY <1>1, <1>2 DEF DeskShapes
<1>10. unmarked \subseteq unmarked' /\ unmarked' \subseteq Screens
  BY <1>1, <1>2 DEF DeskShapes
<1>11. DevicesHear'
  <2> SUFFICES ASSUME NEW t \in online' \ crossed', NEW c \in Runs, NEW m \in Metas, Stated(c, m)'
               PROVE  Reaches(t, m)'
    BY DEF DevicesHear
  <2>1. t \in online \ crossed /\ t \in Screens /\ Stated(c, m) /\ t # s
    BY <1>1, <1>2, <1>8 DEF DeskShapes
  <2>2. Reaches(t, m) /\ outbox'[t] = outbox[t] /\ inbox'[t] = inbox[t]
    BY <1>1, <1>9, <2>1 DEF DevicesHear
  <2>3. WillList(t) => WillList(t)'
    BY <2>2 DEF WillList
  <2>4. Stands(t, m) => Stands(t, m)'
    BY <1>2, <2>2 DEF Stands, Holds
  <2>5. Lists(t, m) => Lists(t, m)'
    BY <1>6, <2>1
  <2> QED
    BY <1>7, <2>2, <2>3, <2>4, <2>5 DEF Reaches
<1>12. MarksCome'
  <2> SUFFICES ASSUME NEW t \in online' \ (crossed' \cup unmarked'), NEW c \in Runs, NEW m \in Metas,
                      c \in viewing'[t], Stated(c, m)', Unread(m)
               PROVE  Comes(t, m)'
    BY DEF MarksCome
  <2>1. t \in online \ (crossed \cup unmarked) /\ t \in Screens /\ Stated(c, m) /\ c \in viewing[t] /\ t # s
    BY <1>1, <1>2, <1>8, <1>10 DEF DeskShapes
  <2>2. Comes(t, m) /\ outbox'[t] = outbox[t] /\ inbox'[t] = inbox[t]
    BY <1>1, <1>9, <2>1 DEF MarksCome
  <2>3. (WillMark(t, m.id) => WillMark(t, m.id)') /\ (Arrives(t, m) => Arrives(t, m)')
    BY <2>2 DEF WillMark, Arrives
  <2> QED
    BY <1>7, <2>2, <2>3 DEF Comes
<1>13. DeskShapes'
  <2> DEFINE Entries == [kind : {"list", "activity"}, meta : SUBSET Metas]
             Cmds == [cmd : {"list", "markRead"}, id : SUBSET Runs]
  <2>1. <<>> \in Seq(Entries) /\ <<>> \in Seq(Cmds) /\ Len(<<>>) = 0
    BY EmptySeq
  <2>2. inbox \in [Screens -> Seq(Entries)] /\ outbox \in [Screens -> Seq(Cmds)]
    BY <1>1 DEF DeskShapes
  <2> HIDE DEF Entries, Cmds
  <2>3. inbox' \in [Screens -> Seq(Entries)] /\ outbox' \in [Screens -> Seq(Cmds)]
    BY <1>2, <2>1, <2>2
  <2>4. inbox'[s] = <<>> /\ outbox'[s] = <<>>
    BY <1>2, <2>2
  <2>5. LineRoom \in Nat
    BY ListAssumption
  <2>6. \A t \in Screens : Len(inbox'[t]) <= LineRoom
    BY <1>1, <1>9, <2>1, <2>4, <2>5 DEF DeskShapes
  <2>7. \A i \in 1..0 : FALSE
    OBVIOUS
  <2>8. \A t \in Screens : \A i \in 1..Len(inbox'[t]) : inbox'[t][i].kind = "activity" => AtMostOne(inbox'[t][i].meta)
    BY <1>1, <1>9, <2>1, <2>4, <2>7 DEF DeskShapes
  <2>9. \A t \in Screens : \A i \in 1..Len(outbox'[t]) : outbox'[t][i].cmd = "markRead" => AtMostOne(outbox'[t][i].id)
    BY <1>1, <1>9, <2>1, <2>4, <2>7 DEF DeskShapes
  <2>10. /\ list' \in [Screens -> SUBSET Metas]
         /\ viewing' \in [Screens -> SUBSET Runs] /\ \A t \in Screens : AtMostOne(viewing'[t])
         /\ online' \subseteq Screens /\ crossed' \subseteq Screens /\ unmarked' \subseteq Screens
    BY <1>1, <1>2, <1>10 DEF DeskShapes
  <2> QED
    BY <2>3, <2>6, <2>8, <2>9, <2>10 DEF DeskShapes, Entries, Cmds
<1>14. StoreShapes' /\ PruningSuffices'
  BY <1>1, <1>2, StoreSame, PruningSame DEF StoreShapes
<1>15. TellersAreValid'
  <2>1. \A m \in Metas : Valid(m)' = Valid(m)
    BY <1>2, StoreSame
  <2>2. ASSUME NEW d \in Runs, NEW m \in (firer[d].meta \cup session[d].meta)' PROVE Valid(m)'
    BY <1>1, <1>2, <2>1, <2>2 DEF TellersAreValid, TellerShapes, At
  <2>3. ASSUME NEW t \in Screens, NEW m \in handler'[t].meta PROVE Valid(m)'
    <3>1. m \in handler[t].meta /\ m \in Metas
      BY <1>1, <1>4, <1>6, <2>3 DEF TellerShapes, At
    <3> QED
      BY <1>1, <2>1, <3>1 DEF TellersAreValid
  <2> QED
    BY <2>2, <2>3 DEF TellersAreValid
<1>16. AwayIsUnmarked'
  <2>1. viewing[s] # NoChat => s \in unmarked'
    BY <1>2
  <2> QED
    BY <1>1, <1>2, <1>10, <2>1 DEF AwayIsUnmarked
<1> QED
  BY <1>6, <1>11, <1>12, <1>13, <1>14, <1>15, <1>16 DEF ListInv

LEMMA StartViewingKeepsLists ==
  ASSUME ListInv, NEW s \in Screens, NEW c \in Runs, StartViewing(s, c)
  PROVE  ListInv'
<1>1. /\ StoreShapes /\ TellerShapes /\ DeskShapes /\ TellersAreValid
      /\ DevicesHear /\ MarksCome /\ AwayIsUnmarked /\ PruningSuffices
  BY DEF ListInv
<1>2. /\ viewing' = [viewing EXCEPT ![s] = {c}] /\ SendCommands(s, <<MarkCmd(c)>>)
      /\ unmarked' = (IF s \in online THEN unmarked ELSE unmarked \cup {s})
      /\ UNCHANGED <<record, stamps, firer, asked, session, writes, online, inbox, handler, list, crossed>>
  BY DEF StartViewing
<1>3. /\ OutboxShape'
      /\ \A t \in Screens : WillList(t) => WillList(t)'
      /\ \A t \in Screens, d \in Runs : WillMark(t, d) => WillMark(t, d)'
      /\ s \in online => WillMark(s, c)'
  BY <1>1, <1>2, SendsMark
<1>4. /\ \A m : Tells(m) => Tells(m)'
      /\ \A t \in Screens, m \in Metas : Lists(t, m) => Lists(t, m)'
  BY <1>2 DEF Tells, Lists
<1>5. \A d \in Runs, m \in Metas : Stated(d, m)' = Stated(d, m)
  BY <1>2, StoreSame
<1>6. online \subseteq Screens
  BY <1>1 DEF DeskShapes
<1>7. DevicesHear'
  BY <1>2, <1>3, <1>4, <1>5, <1>6, NewsStay
<1>8. viewing'[s] = {c} /\ \A t \in Screens : t # s => viewing'[t] = viewing[t]
  BY <1>1, <1>2 DEF DeskShapes
<1>9. MarksCome'
  <2> SUFFICES ASSUME NEW t \in online' \ (crossed' \cup unmarked'), NEW d \in Runs, NEW m \in Metas,
                      d \in viewing'[t], Stated(d, m)', Unread(m)
               PROVE  Comes(t, m)'
    BY DEF MarksCome
  <2>1. t \in online \ (crossed \cup unmarked) /\ t \in Screens /\ Stated(d, m) /\ m.id \in Runs
    BY <1>1, <1>2, <1>5 DEF DeskShapes, Metas
  <2>2. CASE t = s
    <3>1. m.id = c
      BY <1>1, <1>8, <2>1, <2>2, StatedIsRecorded
    <3> QED
      BY <1>3, <2>1, <2>2, <3>1 DEF Comes
  <2>3. CASE t # s
    <3>1. Comes(t, m)
      BY <1>1, <1>8, <2>1, <2>3 DEF MarksCome
    <3>2. Arrives(t, m) => Arrives(t, m)'
      BY <1>2 DEF Arrives
    <3> QED
      BY <1>3, <1>4, <2>1, <3>1, <3>2 DEF Comes
  <2> QED
    BY <2>2, <2>3
<1>10. DeskShapes'
  <2>1. viewing' \in [Screens -> SUBSET Runs]
    BY <1>1, <1>2 DEF DeskShapes
  <2>2. \A t \in Screens : AtMostOne(viewing'[t])
    <3>1. \A t \in Screens : AtMostOne(viewing[t])
      BY <1>1 DEF DeskShapes
    <3>2. AtMostOne({c})
      BY DEF AtMostOne
    <3>3. ASSUME NEW t \in Screens PROVE AtMostOne(viewing'[t])
      BY <1>8, <3>1, <3>2
    <3> QED
      BY <3>3
  <2>3. unmarked' \subseteq Screens
    BY <1>1, <1>2 DEF DeskShapes
  <2> QED
    BY <1>1, <1>2, <1>3, <2>1, <2>2, <2>3 DEF DeskShapes, OutboxShape, Commands
<1>11. StoreShapes' /\ TellerShapes' /\ PruningSuffices'
  BY <1>1, <1>2, StoreSame, PruningSame DEF StoreShapes, TellerShapes
<1>12. TellersAreValid'
  <2>1. \A m \in Metas : Valid(m)' = Valid(m)
    BY <1>2, StoreSame
  <2> QED
    BY <1>1, <1>2, <2>1 DEF TellersAreValid, TellerShapes, At
<1>13. AwayIsUnmarked'
  BY <1>1, <1>2, <1>8 DEF AwayIsUnmarked
<1> QED
  BY <1>7, <1>9, <1>10, <1>11, <1>12, <1>13 DEF ListInv

LEMMA StopViewingKeepsLists ==
  ASSUME ListInv, NEW s \in Screens, StopViewing(s)
  PROVE  ListInv'
<1>1. /\ StoreShapes /\ TellerShapes /\ DeskShapes /\ TellersAreValid
      /\ DevicesHear /\ MarksCome /\ AwayIsUnmarked /\ PruningSuffices
  BY DEF ListInv
<1>2. /\ viewing' = [viewing EXCEPT ![s] = NoChat] /\ unmarked' = unmarked \ {s}
      /\ UNCHANGED <<record, stamps, firer, asked, session, writes, online, inbox, outbox, handler, list, crossed>>
  BY DEF StopViewing
<1>3. /\ \A m : Tells(m) => Tells(m)'
      /\ \A t \in Screens, m \in Metas : Lists(t, m) => Lists(t, m)'
  BY <1>2 DEF Tells, Lists
<1>4. \A d \in Runs, m \in Metas : Stated(d, m)' = Stated(d, m)
  BY <1>2, StoreSame
<1>5. \A t : (WillList(t) => WillList(t)') /\ \A d \in Runs : WillMark(t, d) => WillMark(t, d)'
  BY <1>2 DEF WillList, WillMark
<1>6. online \subseteq Screens
  BY <1>1 DEF DeskShapes
<1>7. DevicesHear'
  BY <1>2, <1>3, <1>4, <1>5, <1>6, NewsStay
<1>8. viewing'[s] = {} /\ \A t \in Screens : t # s => viewing'[t] = viewing[t]
  BY <1>1, <1>2 DEF DeskShapes, NoChat
<1>9. MarksCome'
  <2> SUFFICES ASSUME NEW t \in online' \ (crossed' \cup unmarked'), NEW d \in Runs, NEW m \in Metas,
                      d \in viewing'[t], Stated(d, m)', Unread(m)
               PROVE  Comes(t, m)'
    BY DEF MarksCome
  <2>1. t # s
    BY <1>8
  <2>2. t \in online \ (crossed \cup unmarked) /\ t \in Screens /\ Stated(d, m) /\ m.id \in Runs
    BY <1>1, <1>2, <1>4, <2>1 DEF DeskShapes, Metas
  <2>3. Comes(t, m)
    BY <1>1, <1>8, <2>1, <2>2 DEF MarksCome
  <2>4. Arrives(t, m) => Arrives(t, m)'
    BY <1>2 DEF Arrives
  <2> QED
    BY <1>3, <1>5, <2>2, <2>3, <2>4 DEF Comes
<1>10. DeskShapes'
  <2>1. viewing' \in [Screens -> SUBSET Runs]
    BY <1>1, <1>2 DEF DeskShapes, NoChat
  <2>2. \A t \in Screens : AtMostOne(viewing'[t])
    <3>1. \A t \in Screens : AtMostOne(viewing[t])
      BY <1>1 DEF DeskShapes
    <3>2. AtMostOne({})
      BY DEF AtMostOne
    <3>3. ASSUME NEW t \in Screens PROVE AtMostOne(viewing'[t])
      BY <1>8, <3>1, <3>2
    <3> QED
      BY <3>3
  <2> QED
    BY <1>1, <1>2, <2>1, <2>2 DEF DeskShapes
<1>11. StoreShapes' /\ TellerShapes' /\ PruningSuffices'
  BY <1>1, <1>2, StoreSame, PruningSame DEF StoreShapes, TellerShapes
<1>12. TellersAreValid'
  <2>1. \A m \in Metas : Valid(m)' = Valid(m)
    BY <1>2, StoreSame
  <2> QED
    BY <1>1, <1>2, <2>1 DEF TellersAreValid, TellerShapes, At
<1>13. AwayIsUnmarked'
  BY <1>1, <1>2, <1>8 DEF AwayIsUnmarked, NoChat
<1> QED
  BY <1>7, <1>9, <1>10, <1>11, <1>12, <1>13 DEF ListInv

(* The list the device asked for is read: every chat that is recorded is in  *)
(* it, as it is recorded.                                                    *)
LEMMA ReadListKeepsLists ==
  ASSUME ListInv, NEW s \in Screens, TakeCommand(s), Head(outbox[s]).cmd = "list"
  PROVE  ListInv'
<1>1. /\ StoreShapes /\ TellerShapes /\ DeskShapes /\ TellersAreValid
      /\ DevicesHear /\ MarksCome /\ AwayIsUnmarked /\ PruningSuffices
  BY DEF ListInv
<1> DEFINE all == {Metadata(c, Current(c)) : c \in {d \in Runs : record[d] # NoRecord}}
<1>2. /\ outbox[s] # <<>> /\ handler[s] = Quiet /\ outbox' = [outbox EXCEPT ![s] = Tail(@)]
      /\ handler' = [handler EXCEPT ![s] = [Quiet EXCEPT !.at = "reply", !.meta = all]]
      /\ UNCHANGED <<record, writes>>
      /\ UNCHANGED <<stamps, firer, asked, session, online, inbox, list, viewing, crossed, unmarked>>
  BY DEF TakeCommand
<1>3. all \in SUBSET Metas /\ \A m \in all : Valid(m)
  <2>1. ASSUME NEW m \in all PROVE m \in Metas /\ Valid(m)
    <3>1. PICK c \in Runs : record[c] # NoRecord /\ m = Metadata(c, Current(c))
      BY <2>1
    <3>2. m.id = c /\ m.version = Current(c).version
      BY <3>1 DEF Metadata
    <3>3. m \in Metas
      BY <1>1, <3>1, CurrentIsARecord
    <3>4. m.version = writes[c] /\ writes[c] \in Nat
      BY <1>1, <3>1, <3>2 DEF StoreShapes
    <3> QED
      BY <3>1, <3>2, <3>3, <3>4 DEF Valid
  <2> QED
    BY <2>1
<1>4. \A c \in Runs, m \in Metas : Stated(c, m) => m \in all
  BY <1>1, StatedIsRecorded DEF Stated
<1> HIDE DEF all
<1> DEFINE h == [Quiet EXCEPT !.at = "reply", !.meta = all]
<1>5. h.at = "reply" /\ h.meta = all /\ h \in At({"quiet", "tell", "reply"})
  BY <1>3 DEF Quiet, At, NoRecord
<1>6. handler' = [handler EXCEPT ![s] = h]
  BY <1>2
<1> HIDE DEF h
<1>7. handler[s].at = "quiet"
  BY <1>2, QuietShape
<1>8. /\ TellerShapes' /\ handler'[s] = h /\ \A t \in Screens : t # s => handler'[t] = handler[t]
      /\ \A m \in Metas : Tells(m) => Tells(m)'
      /\ \A t \in Screens, m \in Metas : Lists(t, m) => Lists(t, m)'
      /\ \A m \in all : Lists(s, m)'
  BY <1>1, <1>2, <1>5, <1>6, <1>7, HandlerMoves
<1>9. /\ OutboxShape'
      /\ \A t \in Screens : WillList(t) => WillList(t)' \/ t = s
      /\ \A t \in Screens, d \in Runs : WillMark(t, d) => WillMark(t, d)' \/ Head(outbox[s]) = MarkCmd(d)
  BY <1>1, <1>2, TakesFirst
<1>10. \A d \in Runs : Head(outbox[s]) # MarkCmd(d)
  BY DEF MarkCmd
<1>11. \A c \in Runs, m \in Metas : Stated(c, m)' = Stated(c, m)
  BY <1>2, StoreSame
<1>12. DevicesHear'
  <2> SUFFICES ASSUME NEW t \in online' \ crossed', NEW c \in Runs, NEW m \in Metas, Stated(c, m)'
               PROVE  Reaches(t, m)'
    BY DEF DevicesHear
  <2>1. t \in online \ crossed /\ t \in Screens /\ Stated(c, m)
    BY <1>1, <1>2, <1>11 DEF DeskShapes
  <2>2. CASE t = s
    BY <1>4, <1>8, <2>1, <2>2 DEF Reaches
  <2>3. CASE t # s
    <3>1. Reaches(t, m)
      BY <1>1, <2>1 DEF DevicesHear
    <3>2. Stands(t, m) => Stands(t, m)'
      BY <1>2 DEF Stands, Holds
    <3> QED
      BY <1>8, <1>9, <2>1, <2>3, <3>1, <3>2 DEF Reaches
  <2> QED
    BY <2>2, <2>3
<1>13. MarksCome'
  <2>1. online \subseteq Screens
    BY <1>1 DEF DeskShapes
  <2>2. \A c \in Runs, m \in Metas : Stated(c, m)' => Stated(c, m)
    BY <1>11
  <2>3. \A t \in online, d \in Runs : WillMark(t, d) => WillMark(t, d)'
    BY <1>9, <1>10, <2>1
  <2> QED
    BY <1>2, <1>8, <2>2, <2>3, MarksStay
<1>14. DeskShapes'
  BY <1>1, <1>2, <1>9 DEF DeskShapes, OutboxShape, Commands
<1>15. StoreShapes' /\ PruningSuffices'
  BY <1>1, <1>2, StoreSame, PruningSame DEF StoreShapes
<1>16. TellersAreValid'
  <2>1. \A m \in Metas : Valid(m)' = Valid(m)
    BY <1>2, StoreSame
  <2>2. ASSUME NEW d \in Runs, NEW m \in (firer[d].meta \cup session[d].meta)' PROVE Valid(m)'
    BY <1>1, <1>2, <2>1, <2>2 DEF TellersAreValid, TellerShapes, At
  <2>3. ASSUME NEW t \in Screens, NEW m \in handler'[t].meta PROVE Valid(m)'
    <3>1. (m \in all \/ m \in handler[t].meta) /\ m \in Metas
      BY <1>1, <1>3, <1>5, <1>8, <2>3 DEF TellerShapes, At
    <3> QED
      BY <1>1, <1>3, <2>1, <3>1 DEF TellersAreValid
  <2> QED
    BY <2>2, <2>3 DEF TellersAreValid
<1>17. AwayIsUnmarked'
  BY <1>1, <1>2 DEF AwayIsUnmarked
<1> QED
  BY <1>8, <1>12, <1>13, <1>14, <1>15, <1>16, <1>17 DEF ListInv

(* A mark: the record is written and will be told, or there was nothing to   *)
(* mark.                                                                     *)
LEMMA MarkKeepsLists ==
  ASSUME ListInv, NEW s \in Screens, TakeCommand(s), Head(outbox[s]).cmd # "list"
  PROVE  ListInv'
<1>1. /\ StoreShapes /\ TellerShapes /\ DeskShapes /\ TellersAreValid
      /\ DevicesHear /\ MarksCome /\ AwayIsUnmarked /\ PruningSuffices
  BY DEF ListInv
<1>2. /\ outbox[s] # <<>> /\ handler[s] = Quiet /\ outbox' = [outbox EXCEPT ![s] = Tail(@)]
      /\ UNCHANGED <<stamps, firer, asked, session, online, inbox, list, viewing, crossed, unmarked>>
  BY DEF TakeCommand
<1>3. /\ OutboxShape' /\ Head(outbox[s]) \in Commands
      /\ Head(outbox[s]).cmd = "markRead" => AtMostOne(Head(outbox[s]).id)
      /\ \A t \in Screens : WillList(t) => WillList(t)' \/ (t = s /\ Head(outbox[s]) = ListCmd)
      /\ \A t \in Screens, d \in Runs : WillMark(t, d) => WillMark(t, d)' \/ (t = s /\ Head(outbox[s]) = MarkCmd(d))
  BY <1>1, <1>2, TakesFirst
<1>4. PICK c \in Head(outbox[s]).id :
         IF MarkRead(c)
         THEN /\ Put(c, [Current(c) EXCEPT !.read = Current(c).updated])
              /\ handler' = [handler EXCEPT ![s] = [Quiet EXCEPT !.at = "tell", !.meta = {Metadata(c, Saved(c))}]]
         ELSE UNCHANGED <<record, writes, handler>>
  BY DEF TakeCommand
<1>5. c \in Runs
  BY <1>3, <1>4 DEF Commands
<1>6. \A t \in Screens : WillList(t) => WillList(t)'
  BY <1>3 DEF ListCmd
<1>7. \A t \in Screens, d \in Runs : d # c /\ WillMark(t, d) => WillMark(t, d)'
  <2>1. \A d \in Runs : Head(outbox[s]) = MarkCmd(d) => c = d
    BY <1>4 DEF MarkCmd
  <2> QED
    BY <1>3, <2>1
<1>8. online \subseteq Screens
  BY <1>1 DEF DeskShapes
<1>9. DeskShapes' /\ AwayIsUnmarked'
  BY <1>1, <1>2, <1>3 DEF DeskShapes, OutboxShape, Commands, AwayIsUnmarked
<1>10. CASE MarkRead(c)
  <2> DEFINE r == [Current(c) EXCEPT !.read = Current(c).updated]
  <2>1. r \in Records /\ r.updated = Current(c).updated /\ r.owned = Current(c).owned
    BY <1>1, <1>5, CurrentIsARecord DEF Records
  <2>2. Put(c, r)
    BY <1>4, <1>10
  <2> HIDE DEF r
  <2>3. PICK n : n = Metadata(c, Saved(c))
    OBVIOUS
  <2>4. n \in Metas /\ Valid(n)' /\ \A m \in Metas : Valid(m) => Valid(m)'
    BY <1>1, <1>5, <2>1, <2>2, <2>3, PutKeepsValid
  <2> DEFINE h == [Quiet EXCEPT !.at = "tell", !.meta = {n}]
  <2>5. {n} \in SUBSET Metas
    BY <2>4
  <2>6. h.at = "tell" /\ h.meta = {n} /\ h \in At({"quiet", "tell", "reply"})
    BY <2>5 DEF Quiet, At, NoRecord
  <2>7. handler' = [handler EXCEPT ![s] = h]
    BY <1>4, <1>10, <2>3
  <2> HIDE DEF h
  <2>8. handler[s].at = "quiet" /\ AtMostOne(h.meta)
    BY <1>2, <2>6, QuietShape DEF AtMostOne
  <2>9. /\ TellerShapes' /\ handler'[s] = h /\ \A t \in Screens : t # s => handler'[t] = handler[t]
        /\ \A m \in Metas : Tells(m) => Tells(m)'
        /\ \A t \in Screens, m \in Metas : Lists(t, m) => Lists(t, m)'
        /\ \A m \in h.meta : Tells(m)'
    BY <1>1, <1>2, <2>6, <2>7, <2>8, HandlerMoves
  <2>10. Tells(n)'
    BY <2>6, <2>9
  <2>11. DevicesHear' /\ MarksCome'
    BY <1>2, <1>5, <1>6, <1>7, <2>1, <2>2, <2>3, <2>9, <2>10, PutKeepsNews
  <2>12. StoreShapes'
    BY <1>1, <1>2, <1>5, <2>1, <2>2, PutWrites DEF StoreShapes
  <2>13. TellersAreValid'
    <3>1. ASSUME NEW d \in Runs, NEW m \in (firer[d].meta \cup session[d].meta)' PROVE Valid(m)'
      BY <1>1, <1>2, <2>4, <3>1 DEF TellersAreValid, TellerShapes, At
    <3>2. ASSUME NEW t \in Screens, NEW m \in handler'[t].meta PROVE Valid(m)'
      <4>1. m = n \/ (m \in handler[t].meta /\ m \in Metas)
        BY <1>1, <2>6, <2>9, <3>2 DEF TellerShapes, At
      <4> QED
        BY <1>1, <2>4, <4>1 DEF TellersAreValid
    <3> QED
      BY <3>1, <3>2 DEF TellersAreValid
  <2>14. PruningSuffices'
    <3>1. Owned' \subseteq Owned
      BY <1>1, <1>5, <2>1, <2>2, PutKeepsOwned
    <3>2. Victims' = Victims /\ Counting' = Counting
      BY <1>2 DEF Victims, Counting
    <3> QED
      BY <1>1, <3>1, <3>2, PruningStays
  <2> QED
    BY <1>9, <2>9, <2>11, <2>12, <2>13, <2>14 DEF ListInv
<1>11. CASE ~MarkRead(c)
  <2>1. UNCHANGED <<record, writes, handler>>
    BY <1>4, <1>11
  <2>2. \A d \in Runs, m \in Metas : Stated(d, m)' = Stated(d, m)
    BY <2>1, StoreSame
  <2>3. /\ \A m : Tells(m) => Tells(m)'
        /\ \A t \in Screens, m \in Metas : Lists(t, m) => Lists(t, m)'
    BY <1>2, <2>1 DEF Tells, Lists
  <2>4. DevicesHear'
    BY <1>2, <1>6, <1>8, <2>2, <2>3, NewsStay
  <2>5. ASSUME NEW m \in Metas, Stated(c, m) PROVE ~Unread(m)
    <3>1. record[c] # NoRecord /\ m.read = Current(c).read /\ m.updated = Current(c).updated /\ m.updated > 0
      BY <1>1, <1>5, <2>5, StatedIsRecorded DEF Stated, Metadata
    <3>2. m.read = m.updated /\ m.updated \in Nat
      BY <1>11, <3>1, ListAssumption DEF MarkRead, Metas
    <3> QED
      BY <3>1, <3>2 DEF Unread
  <2>6. MarksCome'
    <3> SUFFICES ASSUME NEW t \in online' \ (crossed' \cup unmarked'), NEW d \in Runs, NEW m \in Metas,
                        d \in viewing'[t], Stated(d, m)', Unread(m)
                 PROVE  Comes(t, m)'
      BY DEF MarksCome
    <3>1. t \in online \ (crossed \cup unmarked) /\ t \in Screens /\ Stated(d, m) /\ d \in viewing[t]
      BY <1>2, <1>8, <2>2
    <3>2. d # c /\ m.id = d
      BY <1>1, <2>5, <3>1, StatedIsRecorded
    <3>3. Comes(t, m)
      BY <1>1, <3>1 DEF MarksCome
    <3>4. Arrives(t, m) => Arrives(t, m)'
      BY <1>2 DEF Arrives
    <3> QED
      BY <1>7, <2>3, <3>1, <3>2, <3>3, <3>4 DEF Comes
  <2>7. StoreShapes' /\ TellerShapes' /\ PruningSuffices'
    BY <1>1, <1>2, <2>1, StoreSame, PruningSame DEF StoreShapes, TellerShapes
  <2>8. TellersAreValid'
    <3>1. \A m \in Metas : Valid(m)' = Valid(m)
      BY <2>1, StoreSame
    <3> QED
      BY <1>1, <1>2, <2>1, <3>1 DEF TellersAreValid, TellerShapes, At
  <2> QED
    BY <1>9, <2>4, <2>6, <2>7, <2>8 DEF ListInv
<1> QED
  BY <1>10, <1>11

(* The reply is queued.  What the device knew and the list does not have is  *)
(* older than the list, or the device is crossed.                            *)
LEMMA ReplyListKeepsLists ==
  ASSUME ListInv, NEW s \in Screens, ReplyList(s)
  PROVE  ListInv'
<1>1. /\ StoreShapes /\ TellerShapes /\ DeskShapes /\ TellersAreValid
      /\ DevicesHear /\ MarksCome /\ AwayIsUnmarked /\ PruningSuffices
  BY DEF ListInv
<1> DEFINE e == [kind |-> "list", meta |-> handler[s].meta]
           Entries == [kind : {"list", "activity"}, meta : SUBSET Metas]
<1>2. /\ handler[s].at = "reply" /\ HasLine(s)
      /\ inbox' = [inbox EXCEPT ![s] = Append(@, e)]
      /\ crossed' = (IF \E n \in Known(s) : record[n.id] # NoRecord /\
                          \A m \in handler[s].meta : m.id = n.id => m.version < n.version
                     THEN crossed \cup {s} ELSE crossed)
      /\ handler' = [handler EXCEPT ![s] = Quiet]
      /\ UNCHANGED <<record, stamps, firer, asked, session, writes, online, outbox, list, viewing, unmarked>>
  BY DEF ReplyList
<1>3. handler[s].meta \in SUBSET Metas
  BY <1>1 DEF TellerShapes, At
<1>4. e \in Entries /\ e.kind = "list" /\ e.meta = handler[s].meta
  BY <1>3
<1>5. inbox \in [Screens -> Seq(Entries)]
  BY <1>1 DEF DeskShapes
<1> HIDE DEF e, Entries
<1>6. PICK q : q = Append(inbox[s], e)
  OBVIOUS
<1>7. PICK k \in Nat : k = Len(inbox[s])
  BY <1>5, LenProperties
<1>8. /\ q \in Seq(Entries) /\ Len(q) = k + 1 /\ q[k + 1] = e
      /\ \A i \in 1..k : q[i] = inbox[s][i]
  BY <1>4, <1>5, <1>6, <1>7, AppendProperties
<1>9. inbox'[s] = q /\ (\A t \in Screens : t # s => inbox'[t] = inbox[t]) /\ inbox' \in [Screens -> Seq(Entries)]
  BY <1>2, <1>5, <1>6, <1>8
<1>10. s \in online /\ k < LineRoom /\ crossed \subseteq crossed' /\ crossed' \subseteq Screens
  BY <1>1, <1>2, <1>7 DEF HasLine, DeskShapes
<1>11. DeskShapes'
  <2>1. \A t \in Screens : Len(inbox'[t]) <= LineRoom
    <3>1. Len(inbox'[s]) <= LineRoom
      BY <1>8, <1>9, <1>10, ListAssumption
    <3> QED
      BY <1>1, <1>9, <3>1 DEF DeskShapes
  <2>2. \A i \in 1..Len(q) : q[i].kind = "activity" => AtMostOne(q[i].meta)
    <3> SUFFICES ASSUME NEW i \in 1..Len(q), q[i].kind = "activity" PROVE AtMostOne(q[i].meta)
      OBVIOUS
    <3>1. i # k + 1
      BY <1>4, <1>8
    <3>2. i \in 1..k /\ i \in 1..Len(inbox[s])
      BY <1>7, <1>8, <3>1
    <3> QED
      BY <1>1, <1>8, <3>2 DEF DeskShapes
  <2>3. \A t \in Screens : \A i \in 1..Len(inbox'[t]) : inbox'[t][i].kind = "activity" => AtMostOne(inbox'[t][i].meta)
    BY <1>1, <1>9, <2>2 DEF DeskShapes
  <2> QED
    BY <1>1, <1>2, <1>9, <1>10, <2>1, <2>3 DEF DeskShapes, Entries
<1>12. Quiet.at = "quiet" /\ Quiet.meta = {} /\ Quiet \in At({"quiet", "tell", "reply"})
  BY QuietShape
<1>13. /\ TellerShapes' /\ handler'[s] = Quiet /\ \A t \in Screens : t # s => handler'[t] = handler[t]
       /\ \A m \in Metas : Tells(m) => Tells(m)'
       /\ \A t \in Screens, m \in Metas : Lists(t, m) => Lists(t, m)' \/ t = s
  BY <1>1, <1>2, <1>12, HandlerMoves
<1>14. \A c \in Runs, m \in Metas : Stated(c, m)' = Stated(c, m)
  BY <1>2, StoreSame
<1>15. ASSUME NEW m \in Metas, m \in handler[s].meta PROVE Stands(s, m)'
  <2>1. k + 1 \in 0..Len(inbox'[s]) /\ k + 1 # 0 /\ inbox'[s][k + 1] = e
    BY <1>8, <1>9
  <2>2. Holds(s, m, k + 1)'
    BY <1>4, <1>15, <2>1 DEF Holds
  <2>3. \A i \in (k + 1 + 1)..Len(inbox'[s]) : FALSE
    BY <1>8, <1>9
  <2> QED
    BY <2>1, <2>2, <2>3 DEF Stands
<1>16. ASSUME NEW c \in Runs, NEW m \in Metas, Stated(c, m), Stands(s, m), s \notin crossed'
       PROVE  m \in handler[s].meta
  <2>1. m \in Known(s) /\ record[m.id] # NoRecord /\ m.id = c /\ m.version = writes[c]
    BY <1>1, <1>10, <1>16, StandsIsKnown, StatedIsRecorded DEF DeskShapes
  <2>2. PICK x \in handler[s].meta : x.id = m.id /\ ~(x.version < m.version)
    BY <1>2, <1>16, <2>1
  <2>3. x \in Metas /\ Valid(x) /\ x.version \in Nat /\ writes[c] \in Nat
    BY <1>1, <1>3, <2>2 DEF TellersAreValid, StoreShapes, Metas
  <2>4. x.version = writes[c]
    BY <2>1, <2>2, <2>3 DEF Valid
  <2>5. x = m
    BY <1>16, <2>1, <2>2, <2>3, <2>4 DEF Valid, Stated
  <2> QED
    BY <2>2, <2>5
<1>17. DevicesHear'
  <2> SUFFICES ASSUME NEW t \in online' \ crossed', NEW c \in Runs, NEW m \in Metas, Stated(c, m)'
               PROVE  Reaches(t, m)'
    BY DEF DevicesHear
  <2>1. t \in online \ crossed /\ t \in Screens /\ Stated(c, m) /\ Reaches(t, m)
    BY <1>1, <1>2, <1>10, <1>14 DEF DeskShapes, DevicesHear
  <2>2. WillList(t) => WillList(t)'
    BY <1>2 DEF WillList
  <2>3. CASE t = s
    <3>1. Lists(s, m) \/ Stands(s, m) => m \in handler[s].meta
      BY <1>16, <2>1, <2>3 DEF Lists
    <3> QED
      BY <1>13, <1>15, <2>1, <2>2, <2>3, <3>1 DEF Reaches
  <2>4. CASE t # s
    <3>1. Stands(t, m) => Stands(t, m)'
      BY <1>2, <1>9, <2>1, <2>4 DEF Stands, Holds
    <3> QED
      BY <1>13, <2>1, <2>2, <2>4, <3>1 DEF Reaches
  <2> QED
    BY <2>3, <2>4
<1>18. MarksCome'
  <2> SUFFICES ASSUME NEW t \in online' \ (crossed' \cup unmarked'), NEW c \in Runs, NEW m \in Metas,
                      c \in viewing'[t], Stated(c, m)', Unread(m)
               PROVE  Comes(t, m)'
    BY DEF MarksCome
  <2>1. t \in online \ (crossed \cup unmarked) /\ t \in Screens /\ Comes(t, m)
    BY <1>1, <1>2, <1>10, <1>14 DEF DeskShapes, MarksCome
  <2>2. WillMark(t, m.id) => WillMark(t, m.id)'
    BY <1>2 DEF WillMark
  <2>3. ASSUME Arrives(t, m) PROVE Arrives(t, m)'
    <3>1. CASE t = s
      <4>1. PICK i \in 1..k : inbox[s][i].kind = "activity" /\ m \in inbox[s][i].meta
        BY <1>7, <2>3, <3>1 DEF Arrives
      <4>2. i \in 1..Len(inbox'[s]) /\ inbox'[s][i] = inbox[s][i]
        BY <1>8, <1>9
      <4> QED
        BY <3>1, <4>1, <4>2 DEF Arrives
    <3>2. CASE t # s
      BY <1>9, <2>1, <2>3, <3>2 DEF Arrives
    <3> QED
      BY <3>1, <3>2
  <2> QED
    BY <1>13, <2>1, <2>2, <2>3 DEF Comes
<1>19. StoreShapes' /\ PruningSuffices'
  BY <1>1, <1>2, StoreSame, PruningSame DEF StoreShapes
<1>20. TellersAreValid'
  <2>1. \A m \in Metas : Valid(m)' = Valid(m)
    BY <1>2, StoreSame
  <2>2. ASSUME NEW d \in Runs, NEW m \in (firer[d].meta \cup session[d].meta)' PROVE Valid(m)'
    BY <1>1, <1>2, <2>1, <2>2 DEF TellersAreValid, TellerShapes, At
  <2>3. ASSUME NEW t \in Screens, NEW m \in handler'[t].meta PROVE Valid(m)'
    <3>1. m \in handler[t].meta /\ m \in Metas
      BY <1>1, <1>12, <1>13, <2>3 DEF TellerShapes, At
    <3> QED
      BY <1>1, <2>1, <3>1 DEF TellersAreValid
  <2> QED
    BY <2>2, <2>3 DEF TellersAreValid
<1>21. AwayIsUnmarked'
  BY <1>1, <1>2 DEF AwayIsUnmarked
<1> QED
  BY <1>11, <1>13, <1>17, <1>18, <1>19, <1>20, <1>21 DEF ListInv

LEMMA SendsNothing ==
  ASSUME DeskShapes, NEW s \in Screens, SendCommands(s, <<>>)
  PROVE  outbox' = outbox
<1>1. outbox \in [Screens -> Seq(Commands)]
  BY OutboxIsShaped DEF OutboxShape
<1>2. outbox[s] \o <<>> = outbox[s]
  BY <1>1, ConcatEmptySeq
<1>3. outbox' = [outbox EXCEPT ![s] = IF s \in online THEN outbox[s] \o <<>> ELSE outbox[s]]
  BY DEF SendCommands
<1> QED
  BY <1>1, <1>2, <1>3

(* What a device makes of the first entry of its queue: its list keeps what  *)
(* the entry does not override and gets what is in it, and an unread chat on *)
(* its screen is marked.                                                     *)
LEMMA Reduces ==
  ASSUME DeskShapes, NEW s \in Screens, ReduceList(s), NEW e, e = Head(inbox[s]), e.meta \in SUBSET Metas,
         e.kind = "activity" => AtMostOne(e.meta)
  PROVE  /\ \E L \in SUBSET Metas :
               /\ list' = [list EXCEPT ![s] = L]
               /\ \A m \in Metas : m \in list[s] /\ ~Overrides(e, m) => m \in L
               /\ \A m \in Metas : m \in e.meta => m \in L
         /\ OutboxShape'
         /\ \A t \in Screens : WillList(t) => WillList(t)'
         /\ \A t \in Screens, d \in Runs : WillMark(t, d) => WillMark(t, d)'
         /\ s \in online /\ e.kind # "list" =>
               \A m \in e.meta : viewing[s] = {m.id} /\ Unread(m) => WillMark(s, m.id)'
<1>1. list[s] \in SUBSET Metas /\ OutboxShape
  BY OutboxIsShaped DEF DeskShapes
<1>2. CASE e.kind = "list"
  <2>1. list' = [list EXCEPT ![s] = e.meta] /\ UNCHANGED outbox
    BY <1>2 DEF ReduceList
  <2>2. \A m \in Metas : m \in list[s] /\ ~Overrides(e, m) => m \in e.meta
    BY <1>2 DEF Overrides
  <2>3. \A t : (WillList(t) => WillList(t)') /\ \A d \in Runs : WillMark(t, d) => WillMark(t, d)'
    BY <2>1 DEF WillList, WillMark
  <2>4. OutboxShape'
    BY <1>1, <2>1 DEF OutboxShape
  <2> QED
    BY <1>2, <2>1, <2>2, <2>3, <2>4
<1>3. CASE e.kind # "list"
  <2>1. PICK n \in e.meta :
            /\ list' = [list EXCEPT ![s] = Upsert(s, n)]
            /\ SendCommands(s, IF viewing[s] = {n.id} /\ Unread(n) THEN <<MarkCmd(n.id)>> ELSE <<>>)
    BY <1>3 DEF ReduceList
  <2>2. n \in Metas /\ n.id \in Runs
    BY <2>1 DEF Metas
  <2>3. Upsert(s, n) \in SUBSET Metas
    BY <1>1, <2>2 DEF Upsert
  <2>4. \A m \in Metas : m \in list[s] /\ ~Overrides(e, m) => m \in Upsert(s, n)
    BY <1>3, <2>1 DEF Overrides, Upsert
  <2>5. e.kind = "activity"
    <3>1. inbox[s] \in Seq([kind : {"list", "activity"}, meta : SUBSET Metas]) /\ inbox[s] # <<>>
      BY DEF ReduceList, DeskShapes
    <3>2. e \in [kind : {"list", "activity"}, meta : SUBSET Metas]
      BY <3>1, HeadTailProperties
    <3> QED
      BY <1>3, <3>2
  <2>6. e.meta = {n}
    BY <2>1, <2>5 DEF AtMostOne
  <2>7. \A m \in Metas : m \in e.meta => m \in Upsert(s, n)
    BY <2>6 DEF Upsert
  <2>8. CASE viewing[s] = {n.id} /\ Unread(n)
    <3>1. SendCommands(s, <<MarkCmd(n.id)>>)
      BY <2>1, <2>8
    <3>2. /\ OutboxShape'
          /\ \A t \in Screens : WillList(t) => WillList(t)'
          /\ \A t \in Screens, d \in Runs : WillMark(t, d) => WillMark(t, d)'
          /\ s \in online => WillMark(s, n.id)'
      BY <2>2, <3>1, SendsMark
    <3> QED
      BY <2>1, <2>3, <2>4, <2>6, <2>7, <3>2
  <2>9. CASE ~(viewing[s] = {n.id} /\ Unread(n))
    <3>1. outbox' = outbox
      BY <2>1, <2>9, SendsNothing
    <3>2. \A t : (WillList(t) => WillList(t)') /\ \A d \in Runs : WillMark(t, d) => WillMark(t, d)'
      BY <3>1 DEF WillList, WillMark
    <3>3. OutboxShape'
      BY <1>1, <3>1 DEF OutboxShape
    <3> QED
      BY <2>1, <2>3, <2>4, <2>6, <2>7, <2>9, <3>2, <3>3
  <2> QED
    BY <2>8, <2>9
<1> QED
  BY <1>2, <1>3

LEMMA ReduceListKeepsLists ==
  ASSUME ListInv, NEW s \in Screens, ReduceList(s)
  PROVE  ListInv'
<1>1. /\ StoreShapes /\ TellerShapes /\ DeskShapes /\ TellersAreValid
      /\ DevicesHear /\ MarksCome /\ AwayIsUnmarked /\ PruningSuffices
  BY DEF ListInv
<1> DEFINE Entries == [kind : {"list", "activity"}, meta : SUBSET Metas]
<1>2. /\ inbox[s] # <<>> /\ inbox' = [inbox EXCEPT ![s] = Tail(@)]
      /\ UNCHANGED <<record, stamps, firer, asked, session, writes, online, handler, viewing, crossed, unmarked>>
  BY DEF ReduceList
<1>3. inbox \in [Screens -> Seq(Entries)] /\ inbox[s] \in Seq(Entries)
  BY <1>1 DEF DeskShapes
<1>4. PICK e : e = Head(inbox[s])
  OBVIOUS
<1>5. PICK q : q = Tail(inbox[s])
  OBVIOUS
<1>6. \A x \in Entries : x.meta \in SUBSET Metas
  OBVIOUS
<1> HIDE DEF Entries
<1>7. PICK k \in Nat : k = Len(inbox[s]) - 1
  <2>1. Len(inbox[s]) \in Nat \ {0}
    BY <1>2, <1>3, EmptySeq
  <2>2. Len(inbox[s]) - 1 \in Nat
    BY <2>1
  <2> QED
    BY <2>2
<1>8. /\ e \in Entries /\ q \in Seq(Entries) /\ Len(q) = k /\ Len(inbox[s]) = k + 1
      /\ \A i \in 1..k : q[i] = inbox[s][i + 1]
  BY <1>2, <1>3, <1>4, <1>5, <1>7, HeadTailProperties, LenProperties
<1>9. e = inbox[s][1] /\ e.meta \in SUBSET Metas
  BY <1>3, <1>4, <1>6, <1>8
<1>10. inbox'[s] = q /\ (\A t \in Screens : t # s => inbox'[t] = inbox[t]) /\ inbox' \in [Screens -> Seq(Entries)]
  BY <1>2, <1>3, <1>5, <1>8
<1>11. e.kind = "activity" => AtMostOne(e.meta)
  <2>1. 1 \in 1..Len(inbox[s])
    BY <1>8
  <2> QED
    BY <1>1, <1>9, <2>1 DEF DeskShapes
<1>12. /\ \E L \in SUBSET Metas :
             /\ list' = [list EXCEPT ![s] = L]
             /\ \A m \in Metas : m \in list[s] /\ ~Overrides(e, m) => m \in L
             /\ \A m \in Metas : m \in e.meta => m \in L
       /\ OutboxShape'
       /\ \A t \in Screens : WillList(t) => WillList(t)'
       /\ \A t \in Screens, d \in Runs : WillMark(t, d) => WillMark(t, d)'
       /\ s \in online /\ e.kind # "list" =>
             \A m \in e.meta : viewing[s] = {m.id} /\ Unread(m) => WillMark(s, m.id)'
  BY <1>1, <1>4, <1>9, <1>11, Reduces
<1>13. PICK L \in SUBSET Metas :
             /\ list' = [list EXCEPT ![s] = L]
             /\ \A m \in Metas : m \in list[s] /\ ~Overrides(e, m) => m \in L
             /\ \A m \in Metas : m \in e.meta => m \in L
  BY <1>12
<1>14. list'[s] = L /\ (\A t \in Screens : t # s => list'[t] = list[t]) /\ list' \in [Screens -> SUBSET Metas]
  BY <1>1, <1>13 DEF DeskShapes
<1>15. /\ \A m : Tells(m) => Tells(m)'
       /\ \A t \in Screens, m \in Metas : Lists(t, m) => Lists(t, m)'
  BY <1>2 DEF Tells, Lists
<1>16. \A c \in Runs, m \in Metas : Stated(c, m)' = Stated(c, m)
  BY <1>2, StoreSame
<1>17. ASSUME NEW m \in Metas, Stands(s, m) PROVE Stands(s, m)'
  <2>1. PICK j \in 0..(k + 1) : Holds(s, m, j) /\ \A i \in (j + 1)..(k + 1) : ~Overrides(inbox[s][i], m)
    BY <1>8, <1>17 DEF Stands
  <2>2. ASSUME NEW i \in 1..k, i + 1 > j PROVE ~Overrides(q[i], m)
    <3>1. i + 1 \in (j + 1)..(k + 1) /\ q[i] = inbox[s][i + 1]
      BY <1>8, <2>1, <2>2
    <3> QED
      BY <2>1, <3>1
  <2>3. CASE j \in {0, 1}
    <3>1. m \in L
      <4>1. CASE j = 0
        <5>1. 1 \in (j + 1)..(k + 1)
          BY <4>1
        <5> QED
          BY <1>9, <1>13, <2>1, <4>1, <5>1 DEF Holds
      <4>2. CASE j = 1
        BY <1>9, <1>13, <2>1, <4>2 DEF Holds
      <4> QED
        BY <2>3, <4>1, <4>2
    <3>2. 0 \in 0..Len(inbox'[s]) /\ Holds(s, m, 0)'
      BY <1>8, <1>10, <1>14, <3>1 DEF Holds
    <3>3. \A i \in (0 + 1)..Len(inbox'[s]) : ~Overrides(inbox'[s][i], m)
      <4> SUFFICES ASSUME NEW i \in 1..k PROVE ~Overrides(q[i], m)
        BY <1>8, <1>10
      <4>1. i + 1 > j
        BY <2>3
      <4> QED
        BY <2>2, <4>1
    <3> QED
      BY <3>2, <3>3 DEF Stands
  <2>4. CASE j \notin {0, 1}
    <3>1. j - 1 \in 1..k /\ (j - 1) + 1 = j /\ j - 1 # 0 /\ j # 0
      BY <2>4
    <3>2. q[j - 1] = inbox[s][j]
      BY <1>8, <3>1
    <3>3. j - 1 \in 0..Len(inbox'[s]) /\ Holds(s, m, j - 1)'
      BY <1>8, <1>10, <2>1, <3>1, <3>2 DEF Holds
    <3>4. \A i \in ((j - 1) + 1)..Len(inbox'[s]) : ~Overrides(inbox'[s][i], m)
      <4> SUFFICES ASSUME NEW i \in j..k PROVE ~Overrides(q[i], m)
        BY <1>8, <1>10, <3>1
      <4>1. i \in 1..k /\ i + 1 > j
        BY <3>1
      <4> QED
        BY <2>2, <4>1
    <3> QED
      BY <3>3, <3>4 DEF Stands
  <2> QED
    BY <2>3, <2>4
<1>18. DevicesHear'
  <2> SUFFICES ASSUME NEW t \in online' \ crossed', NEW c \in Runs, NEW m \in Metas, Stated(c, m)'
               PROVE  Reaches(t, m)'
    BY DEF DevicesHear
  <2>1. t \in online \ crossed /\ t \in Screens /\ Stated(c, m) /\ Reaches(t, m)
    BY <1>1, <1>2, <1>16 DEF DeskShapes, DevicesHear
  <2>2. Stands(t, m) => Stands(t, m)'
    <3>1. CASE t = s
      BY <1>17, <3>1
    <3>2. CASE t # s
      BY <1>10, <1>14, <2>1, <3>2 DEF Stands, Holds
    <3> QED
      BY <3>1, <3>2
  <2> QED
    BY <1>12, <1>15, <2>1, <2>2 DEF Reaches
<1>19. MarksCome'
  <2> SUFFICES ASSUME NEW t \in online' \ (crossed' \cup unmarked'), NEW c \in Runs, NEW m \in Metas,
                      c \in viewing'[t], Stated(c, m)', Unread(m)
               PROVE  Comes(t, m)'
    BY DEF MarksCome
  <2>1. t \in online \ (crossed \cup unmarked) /\ t \in Screens /\ c \in viewing[t] /\ Comes(t, m) /\ m.id \in Runs
    BY <1>1, <1>2, <1>16 DEF DeskShapes, MarksCome, Metas
  <2>2. ASSUME Arrives(t, m) PROVE Comes(t, m)'
    <3>1. CASE t # s
      <4>1. Arrives(t, m)'
        BY <1>10, <2>1, <2>2, <3>1 DEF Arrives
      <4> QED
        BY <4>1 DEF Comes
    <3>2. CASE t = s
      <4>1. PICK i \in 1..(k + 1) : inbox[s][i].kind = "activity" /\ m \in inbox[s][i].meta
        BY <1>8, <2>2, <3>2 DEF Arrives
      <4>2. CASE i = 1
        <5>1. m \in e.meta /\ e.kind # "list"
          BY <1>9, <4>1, <4>2
        <5>2. m.id = c
          BY <1>1, <1>16, StatedIsRecorded
        <5>3. viewing[s] = {m.id}
          BY <1>1, <2>1, <3>2, <5>2 DEF DeskShapes, AtMostOne
        <5> QED
          BY <1>12, <2>1, <3>2, <5>1, <5>3 DEF Comes
      <4>3. CASE i # 1
        <5>1. i - 1 \in 1..k /\ (i - 1) + 1 = i
          BY <4>3
        <5>2. q[i - 1] = inbox[s][i]
          BY <1>8, <5>1
        <5>3. i - 1 \in 1..Len(inbox'[s]) /\ inbox'[s][i - 1] = inbox[s][i]
          BY <1>8, <1>10, <5>1, <5>2
        <5>4. Arrives(s, m)'
          BY <4>1, <5>3 DEF Arrives
        <5> QED
          BY <3>2, <5>4 DEF Comes
      <4> QED
        BY <4>2, <4>3
    <3> QED
      BY <3>1, <3>2
  <2> QED
    BY <1>12, <1>15, <2>1, <2>2 DEF Comes
<1>20. DeskShapes'
  <2>1. \A t \in Screens : Len(inbox'[t]) <= LineRoom
    <3>1. Len(inbox[s]) <= LineRoom /\ LineRoom \in Nat
      BY <1>1, ListAssumption DEF DeskShapes
    <3>2. Len(inbox'[s]) <= LineRoom
      BY <1>8, <1>10, <3>1
    <3> QED
      BY <1>1, <1>10, <3>2 DEF DeskShapes
  <2>2. \A i \in 1..Len(q) : q[i].kind = "activity" => AtMostOne(q[i].meta)
    <3> SUFFICES ASSUME NEW i \in 1..Len(q), q[i].kind = "activity" PROVE AtMostOne(q[i].meta)
      OBVIOUS
    <3>1. i + 1 \in 1..Len(inbox[s]) /\ q[i] = inbox[s][i + 1]
      BY <1>8
    <3> QED
      BY <1>1, <3>1 DEF DeskShapes
  <2>3. \A t \in Screens : \A i \in 1..Len(inbox'[t]) : inbox'[t][i].kind = "activity" => AtMostOne(inbox'[t][i].meta)
    BY <1>1, <1>10, <2>2 DEF DeskShapes
  <2> QED
    BY <1>1, <1>2, <1>10, <1>12, <1>14, <2>1, <2>3 DEF DeskShapes, Entries, OutboxShape, Commands
<1>21. StoreShapes' /\ TellerShapes' /\ PruningSuffices'
  BY <1>1, <1>2, StoreSame, PruningSame DEF StoreShapes, TellerShapes
<1>22. TellersAreValid'
  <2>1. \A m \in Metas : Valid(m)' = Valid(m)
    BY <1>2, StoreSame
  <2> QED
    BY <1>1, <1>2, <2>1 DEF TellersAreValid, TellerShapes, At
<1>23. AwayIsUnmarked'
  BY <1>1, <1>2 DEF AwayIsUnmarked
<1> QED
  BY <1>18, <1>19, <1>20, <1>21, <1>22, <1>23 DEF ListInv

-----------------------------------------------------------------------------
(*****************************************************************************)
(* The theorem.                                                              *)
(*****************************************************************************)
LEMMA ListInitHolds == ListInit => ListInv
<1> SUFFICES ASSUME ListInit PROVE ListInv
  OBVIOUS
<1>1. \A c \in Runs : Current(c) = Fresh /\ record[c] = {}
  BY DEF ListInit, Current, NoRecord
<1>2. /\ stamps = 0 /\ asked = [c \in Runs |-> 0] /\ writes = [c \in Runs |-> 0]
      /\ firer = [c \in Runs |-> Quiet] /\ session = [c \in Runs |-> Quiet] /\ handler = [s \in Screens |-> Quiet]
  BY DEF ListInit
<1>3. StoreShapes
  <2>1. record = [c \in Runs |-> {}]
    BY DEF ListInit, NoRecord
  <2>2. record \in [Runs -> SUBSET Records]
    BY <2>1
  <2>3. \A c \in Runs : AtMostOne(record[c])
    BY <1>1 DEF AtMostOne
  <2>4. \A c \in Runs : record[c] = NoRecord
    BY <1>1 DEF NoRecord
  <2>5. \A c \in Runs : asked[c] + (IF firer[c].at \in {"fire", "say"} THEN 1 ELSE 0) <= stamps
    <3>1. \A c \in Runs : asked[c] = 0 /\ firer[c].at = "quiet"
      BY <1>2, QuietShape
    <3> QED
      BY <1>2, <3>1
  <2>6. stamps \in 0..MaxStamps /\ writes \in [Runs -> Nat] /\ asked \in [Runs -> Nat]
    BY <1>2, ListAssumption
  <2> QED
    BY <2>2, <2>3, <2>4, <2>5, <2>6 DEF StoreShapes
<1>4. TellerShapes
  <2>1. AtMostOne(Quiet.meta)
    BY QuietShape DEF AtMostOne
  <2> QED
    BY <1>2, <2>1, QuietShape DEF TellerShapes
<1>5. DeskShapes
  <2> DEFINE Entries == [kind : {"list", "activity"}, meta : SUBSET Metas]
             Cmds == [cmd : {"list", "markRead"}, id : SUBSET Runs]
  <2>1. <<>> \in Seq(Entries) /\ <<>> \in Seq(Cmds) /\ Len(<<>>) = 0 /\ LineRoom \in Nat
    BY EmptySeq, ListAssumption
  <2>2. inbox = [s \in Screens |-> <<>>] /\ outbox = [s \in Screens |-> <<>>]
    BY DEF ListInit
  <2> HIDE DEF Entries, Cmds
  <2>3. inbox \in [Screens -> Seq(Entries)] /\ outbox \in [Screens -> Seq(Cmds)]
    BY <2>1, <2>2
  <2>4. \A s \in Screens : Len(inbox[s]) = 0 /\ Len(outbox[s]) = 0
    BY <2>1, <2>2
  <2>5. \A i \in 1..0 : FALSE
    OBVIOUS
  <2>6. \A s \in Screens : \A i \in 1..Len(inbox[s]) : inbox[s][i].kind = "activity" => AtMostOne(inbox[s][i].meta)
    BY <2>4, <2>5
  <2>7. \A s \in Screens : \A i \in 1..Len(outbox[s]) : outbox[s][i].cmd = "markRead" => AtMostOne(outbox[s][i].id)
    BY <2>4, <2>5
  <2>8. /\ list \in [Screens -> SUBSET Metas] /\ viewing \in [Screens -> SUBSET Runs]
        /\ online \subseteq Screens /\ crossed \subseteq Screens /\ unmarked \subseteq Screens
    BY DEF ListInit, NoChat
  <2>9. \A s \in Screens : AtMostOne(viewing[s])
    BY DEF ListInit, NoChat, AtMostOne
  <2>10. \A s \in Screens : Len(inbox[s]) <= LineRoom
    BY <2>1, <2>4
  <2> QED
    BY <2>3, <2>6, <2>7, <2>8, <2>9, <2>10 DEF DeskShapes, Entries, Cmds
<1>6. TellersAreValid
  BY <1>2, QuietShape DEF TellersAreValid
<1>7. DevicesHear /\ MarksCome
  BY DEF ListInit, DevicesHear, MarksCome
<1>8. AwayIsUnmarked
  BY DEF ListInit, AwayIsUnmarked
<1>9. PruningSuffices
  <2>1. Owned = {}
    BY <1>1 DEF Owned, NoRecord
  <2>2. Owned \ Victims = {}
    BY <2>1
  <2> QED
    BY <2>1, <2>2, FS_EmptySet, ListAssumption DEF PruningSuffices
<1> QED
  BY <1>3, <1>4, <1>5, <1>6, <1>7, <1>8, <1>9 DEF ListInv

LEMMA ListStepsHold == ListInv /\ [ListNext]_listVars => ListInv'
<1> SUFFICES ASSUME ListInv, [ListNext]_listVars PROVE ListInv'
  OBVIOUS
<1>1. ASSUME NEW c \in Runs, Fire(c) \/ ChatWork(c) PROVE ListInv'
  BY <1>1, FireKeepsLists, TouchKeepsLists, ToldKeepsLists, ListRunsKeepsLists, PruneKeepsLists,
     SaveTurnKeepsLists, TellTurnKeepsLists DEF ChatWork
<1>2. ASSUME NEW s \in Screens, TakeCommand(s) PROVE ListInv'
  BY <1>2, ReadListKeepsLists, MarkKeepsLists
<1>3. ASSUME NEW s \in Screens,
             Online(s) \/ Offline(s) \/ StopViewing(s) \/ Desk(s) \/ \E c \in Runs : StartViewing(s, c)
      PROVE  ListInv'
  BY <1>2, <1>3, OnlineKeepsLists, OfflineKeepsLists, StopViewingKeepsLists, StartViewingKeepsLists,
     ReduceListKeepsLists, TellMarkKeepsLists, ReplyListKeepsLists DEF Desk
<1>4. CASE UNCHANGED listVars
  <2>1. /\ UNCHANGED <<record, stamps, firer, asked, session, online, inbox, outbox, handler, list, viewing>>
        /\ UNCHANGED <<writes, crossed, unmarked>>
    BY <1>4 DEF listVars
  <2>2. /\ StoreShapes /\ TellerShapes /\ DeskShapes /\ TellersAreValid
        /\ DevicesHear /\ MarksCome /\ AwayIsUnmarked /\ PruningSuffices
    BY DEF ListInv
  <2>3. StoreShapes' /\ TellerShapes' /\ PruningSuffices'
    BY <2>1, <2>2, StoreSame, PruningSame DEF StoreShapes, TellerShapes
  <2>4. DeskShapes' /\ AwayIsUnmarked'
    BY <2>1, <2>2 DEF DeskShapes, AwayIsUnmarked
  <2>5. TellersAreValid'
    <3>1. \A m \in Metas : Valid(m)' = Valid(m)
      BY <2>1, StoreSame
    <3> QED
      BY <2>1, <2>2, <3>1 DEF TellersAreValid, TellerShapes, At
  <2>6. /\ \A m : Tells(m) => Tells(m)'
        /\ \A s \in Screens, m \in Metas : Lists(s, m) => Lists(s, m)'
        /\ \A s : (WillList(s) => WillList(s)') /\ \A c \in Runs : WillMark(s, c) => WillMark(s, c)'
    BY <2>1 DEF Tells, Lists, WillList, WillMark
  <2>7. /\ \A c \in Runs, m \in Metas : Stated(c, m)' => Stated(c, m)
        /\ online \subseteq Screens
    BY <2>1, <2>2, StoreSame DEF DeskShapes
  <2>8. DevicesHear' /\ MarksCome'
    BY <2>1, <2>6, <2>7, NewsStay, MarksStay
  <2> QED
    BY <2>3, <2>4, <2>5, <2>8 DEF ListInv
<1> QED
  BY <1>1, <1>3, <1>4 DEF ListNext

LEMMA ListInvImplies == ListInv => ListsHold
<1> SUFFICES ASSUME ListInv PROVE ListsHold
  OBVIOUS
<1>1. /\ StoreShapes /\ TellerShapes /\ DeskShapes
      /\ DevicesHear /\ MarksCome /\ PruningSuffices
  BY DEF ListInv
<1>2. ListTypeOK
  <2>1. ASSUME NEW c \in Runs
        PROVE  /\ record[c] = NoRecord \/ \E r \in record[c] : record[c] = {r} /\ r \in Records
               /\ firer[c].at \in {"quiet", "owned", "fire", "say", "told", "prune"}
               /\ session[c].at \in {"quiet", "tell"} /\ asked[c] \in 0..MaxStamps
    <3>1. record[c] = NoRecord \/ \E r \in record[c] : record[c] = {r} /\ r \in Records
      BY <1>1, CurrentIsARecord
    <3>2. firer[c].at \in {"quiet", "owned", "fire", "say", "told", "prune"} /\ session[c].at \in {"quiet", "tell"}
      BY <1>1 DEF TellerShapes, At
    <3>3. PICK k \in {0, 1} : k = IF firer[c].at \in {"fire", "say"} THEN 1 ELSE 0
      OBVIOUS
    <3>4. asked[c] \in Nat /\ asked[c] + k <= stamps /\ stamps \in 0..MaxStamps /\ MaxStamps \in Nat
      BY <1>1, <3>3, ListAssumption DEF StoreShapes
    <3>5. asked[c] \in 0..MaxStamps
      BY <3>4
    <3> QED
      BY <3>1, <3>2, <3>5
  <2>2. ASSUME NEW s \in Screens
        PROVE  /\ handler[s].at \in {"quiet", "tell", "reply"} /\ Len(inbox[s]) <= LineRoom
               /\ viewing[s] \subseteq Runs
    BY <1>1 DEF TellerShapes, DeskShapes, At
  <2>3. online \subseteq Screens /\ {crossed, unmarked} \subseteq SUBSET Screens
    BY <1>1 DEF DeskShapes
  <2> QED
    BY <2>1, <2>2, <2>3 DEF ListTypeOK
<1>3. ListsConverge
  <2> SUFFICES ASSUME NEW s \in online \ crossed, AtRest(s), NobodyTells, DesksRest, NEW c \in Runs,
                      Current(c).updated > 0
               PROVE  /\ Metadata(c, Current(c)) \in list[s]
                      /\ s \in unmarked \/ (c \in viewing[s] => ~Unread(Current(c)))
    BY <1>1 DEF ListsConverge, DeskShapes
  <2>1. PICK m \in Metas : m = Metadata(c, Current(c))
    BY <1>1, CurrentIsARecord
  <2>2. Stated(c, m) /\ s \in Screens
    BY <1>1, <2>1 DEF Stated, Metadata, DeskShapes
  <2>3. ~Tells(m)
    BY DEF Tells, NobodyTells, DesksRest
  <2>4. inbox[s] = <<>> /\ outbox[s] = <<>> /\ handler[s].at = "quiet" /\ Len(<<>>) = 0
    BY QuietShape, EmptySeq DEF AtRest
  <2>5. \A i \in 1..0 : FALSE
    OBVIOUS
  <2>6. ~WillList(s) /\ ~WillMark(s, m.id) /\ ~Lists(s, m) /\ ~Arrives(s, m)
    BY <2>4, <2>5 DEF WillList, WillMark, Lists, Arrives
  <2>7. m \in list[s]
    <3>1. Stands(s, m)
      BY <1>1, <2>2, <2>3, <2>6 DEF DevicesHear, Reaches
    <3>2. PICK j \in 0..0 : Holds(s, m, j)
      BY <2>4, <3>1 DEF Stands
    <3> QED
      BY <3>2 DEF Holds
  <2>8. ASSUME s \notin unmarked, c \in viewing[s], Unread(Current(c)) PROVE FALSE
    <3>1. Unread(m)
      BY <2>1, <2>8 DEF Unread, Metadata
    <3>2. Comes(s, m)
      BY <1>1, <2>2, <2>8, <3>1 DEF MarksCome
    <3> QED
      BY <2>3, <2>6, <3>2 DEF Comes
  <2> QED
    BY <2>1, <2>7, <2>8
<1>4. RunsAreKept
  <2> SUFFICES ASSUME \A c \in Runs : firer[c] = Quiet PROVE Cardinality(Owned) <= Kept
    BY DEF RunsAreKept, Owned
  <2>1. ~Counting /\ Victims = {}
    BY QuietShape DEF Counting, Victims
  <2>2. Owned \ Victims = Owned
    BY <2>1
  <2> QED
    BY <1>1, <2>1, <2>2 DEF PruningSuffices
<1> QED
  BY <1>2, <1>3, <1>4 DEF ListsHold

(* A device that has listed since it connected, and that no broadcast        *)
(* crossed, shows every chat as the store has it once nothing is under way,  *)
(* with what is on its screen read; and an agent keeps no more runs than it  *)
(* may: for every number of chats and devices and every room of the queues.  *)
THEOREM ListsAlwaysHold == ListSpec => []ListsHold
<1>1. ListInit => ListInv
  BY ListInitHolds
<1>2. ListInv /\ [ListNext]_listVars => ListInv'
  BY ListStepsHold
<1>3. ListInv => ListsHold
  BY ListInvImplies
<1> QED
  BY <1>1, <1>2, <1>3, PTL DEF ListSpec
=============================================================================
