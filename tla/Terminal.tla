------------------------------ MODULE Terminal ------------------------------
(***************************************************************************)
(* The terminal: the approver that puts a call's question on the screen    *)
(* (internal/tui/approver.go), the modes and overlays of the one event     *)
(* loop (app.go, mode.go, palette.go, inspect.go, tool.go, command.go),    *)
(* where the keyboard is, and the start and the end of it (tui.go).        *)
(*                                                                         *)
(* An event is handled and the frame after it drawn in one step.  Of the   *)
(* framework (go-tui, which is not part of the repository) the model takes *)
(* what the code relies on: the tab ring is the order of the elements,     *)
(* focus is restored by index after a frame, and an overlay traps it.      *)
(***************************************************************************)
EXTENDS Naturals, Sequences, FiniteSets, SequencesExt

CONSTANTS
    Asking,         \* tool calls that ask, each once
    Talks, Fires,   \* ids: of chats, and of the runs of agents
    ClearRoom,      \* capacity of the channel of questions that are over
    MaxKeys         \* bound: keys and clicks that reach the panes

ASSUME TerminalAssumption == MaxKeys \in Nat /\ ClearRoom \in Nat \ {0} /\ Talks \cap Fires = {}

VARIABLES
    question,       \* per call: where Approver.Ask is
    reply,          \* per call: what the person said, the channel of one
    given,          \* the calls whose turn is cancelled
    overs,          \* Approver.cleared
    surface,        \* Approver.done: "open" or "closed"
    modal,          \* app.ask: no question, or one
    panes,          \* what is open: conversation, log pane, overlays
    station,        \* the keyboard's place in the tab ring; 0 is nowhere
    known,          \* the conversations of the sidebar, each a kind and an id
    stored,         \* those with a file, in the store of their kind
    stage,          \* tui.Run
    opener,         \* the goroutine that opens the workspace, and who has it
    overtaken,      \* history: questions that were on screen when another came
    unsaid,         \* history: questions whose end found no room in overs
    allowed,        \* history: questions a person allowed
    found,          \* history: what is on screen was on disk when it was opened or written
                    \* to, and nothing else has deleted it
    keys            \* keys and clicks so far

questionVars == <<question, reply, given, overs, surface, modal, overtaken, unsaid, allowed>>
paneVars == <<panes, station, known, stored, found, keys>>
terminalVars == <<questionVars, paneVars, stage, opener>>

NoQuestion == {}
NewChat == {}                                   \* activeID "": else one conversation
Offers == 1                                     \* answers a question has; any other refuses
Shut == "shut"

BlankScreen == [talk |-> NewChat, kind |-> "user", logs |-> FALSE, palette |-> Shut, armed |-> {},
                tool |-> FALSE, inspect |-> Shut, typing |-> FALSE]

TerminalInit ==
    /\ question = [c \in Asking |-> "quiet"] /\ reply = [c \in Asking |-> <<>>]
    /\ given = {} /\ overs = <<>> /\ surface = "open" /\ modal = NoQuestion
    /\ panes = BlankScreen
    /\ station = 3                              \* autoFocus: the composer
    /\ known = {} /\ found = FALSE /\ keys = 0
    /\ stored = ({"user"} \X Talks) \cup ({"agent"} \X Fires)
    /\ stage = "running" /\ opener = "opening"
    /\ overtaken = {} /\ unsaid = {} /\ allowed = {}

Steps == {Shut, "root", "open", "delete", "fire", "confirm"}
TerminalTypeOK ==
    /\ question \in [Asking -> {"quiet", "offered", "waiting", "over", "yes", "no", "failed"}]
    /\ \A c \in Asking : Len(reply[c]) <= 1
    /\ Len(overs) <= ClearRoom /\ Cardinality(modal) <= 1
    /\ panes.palette \in Steps /\ panes.inspect \in {Shut, "board", "tools"} /\ station \in 0..4
    /\ stage \in {"running", "stopped", "released", "closed"}
    /\ opener \in {"opening", "failed", "delivered", "taken", "ended"}

-----------------------------------------------------------------------------
(* mode, region, the tab ring.                                             *)
ReadOnly(p) == p.kind = "agent"
Mode(p, m) ==
    IF m # NoQuestion THEN "approve"
    ELSE IF p.palette # Shut THEN "palette"
    ELSE IF p.tool THEN "tool"
    ELSE IF p.inspect # Shut THEN "inspect" ELSE "chat"

Ring(p) == <<"list", "transcript">> \o (IF p.logs THEN <<"logs">> ELSE <<>>)
                                    \o (IF ReadOnly(p) THEN <<>> ELSE <<"composer">>)
Region == IF Mode(panes, modal) # "chat" \/ station = 0 THEN "nowhere" ELSE Ring(panes)[station]
Nothing == "nothing"                            \* wantFocus is nil

\* settleFocus, after a frame of p: the ring restores by index, then the walk goes to what is
\* wanted; if that is not on screen it comes back to where it began, or to the first station.
Landing(p, m, want) ==
    LET ring == Ring(p)
        kept == IF station \in 1..Len(ring) THEN station ELSE 0
    IN IF want = Nothing \/ Mode(p, m) # "chat" THEN kept
       ELSE IF \E i \in DOMAIN ring : ring[i] = want THEN CHOOSE i \in DOMAIN ring : ring[i] = want
       ELSE IF kept = 0 THEN 1 ELSE kept

Show(p, want) ==
    /\ keys < MaxKeys /\ keys' = keys + 1
    /\ panes' = p /\ station' = Landing(p, modal, want)

Handles(mode) == stage = "running" /\ Mode(panes, modal) = mode
Ready == opener = "taken"
NoQuestionTouched == UNCHANGED questionVars
NothingStored == UNCHANGED <<known, stored, found>>
Frozen == UNCHANGED <<stage, opener>>

-----------------------------------------------------------------------------
(* Approver.Ask.                                                           *)
Offer(c) ==
    /\ question[c] = "quiet" /\ opener \in {"delivered", "taken"}
    /\ question' = [question EXCEPT ![c] = "offered"]
    /\ UNCHANGED <<reply, given, overs, surface, modal, overtaken, unsaid, allowed, paneVars>> /\ Frozen

\* onAsk: the channel has no room, the question on screen is the newest.
OnAsk(c) ==
    /\ question[c] = "offered" /\ stage = "running"
    /\ question' = [question EXCEPT ![c] = "waiting"]
    /\ modal' = {c} /\ overtaken' = overtaken \cup modal
    /\ UNCHANGED <<reply, given, overs, surface, unsaid, allowed, paneVars>> /\ Frozen

\* The first answer stands; one that was never offered is a refusal.
Heard(c) ==
    /\ question[c] = "waiting" /\ reply[c] # <<>>
    /\ question' = [question EXCEPT ![c] = IF reply[c][1] \in 1..Offers THEN "yes" ELSE "no"]
    /\ overs' = IF Len(overs) < ClearRoom THEN Append(overs, c) ELSE overs
    /\ unsaid' = IF Len(overs) < ClearRoom THEN unsaid ELSE unsaid \cup {c}
    /\ UNCHANGED <<reply, given, surface, modal, overtaken, allowed, paneVars>> /\ Frozen

\* ctx.Done or done: a question that was never presented has nothing to clear.
GiveUp(c) ==
    /\ question[c] \in {"offered", "waiting"} /\ (c \in given \/ surface = "closed")
    /\ question' = [question EXCEPT ![c] = "failed"]
    /\ LET told == question[c] = "waiting"
           room == Len(overs) < ClearRoom
       IN /\ overs' = IF told /\ room THEN Append(overs, c) ELSE overs
          /\ unsaid' = IF told /\ ~room THEN unsaid \cup {c} ELSE unsaid
    /\ UNCHANGED <<reply, given, surface, modal, overtaken, allowed, paneVars>> /\ Frozen

CancelCall(c) ==
    /\ question[c] \in {"offered", "waiting"} /\ c \notin given /\ given' = given \cup {c}
    /\ UNCHANGED <<question, reply, overs, surface, modal, overtaken, unsaid, allowed, paneVars>> /\ Frozen

\* Fault: whatever is on screen goes.
OnAskClearedBlindly ==
    /\ stage = "running" /\ overs # <<>> /\ overs' = Tail(overs)
    /\ modal' = NoQuestion
    /\ UNCHANGED <<question, reply, given, surface, overtaken, unsaid, allowed, paneVars>> /\ Frozen

OnAskCleared ==
    /\ stage = "running" /\ overs # <<>> /\ overs' = Tail(overs)
    /\ modal' = modal \ {Head(overs)}
    /\ UNCHANGED <<question, reply, given, surface, overtaken, unsaid, allowed, paneVars>> /\ Frozen

\* answer: a digit, Enter, n, Escape or Ctrl+C; cancel answers before it cancels.
Reply(i) ==
    /\ Handles("approve")
    /\ \E c \in modal :
        /\ reply' = [reply EXCEPT ![c] = IF @ = <<>> THEN <<i>> ELSE @]
        /\ allowed' = IF reply[c] = <<>> /\ i \in 1..Offers THEN allowed \cup {c} ELSE allowed
    /\ modal' = NoQuestion
    /\ UNCHANGED <<question, given, overs, surface, overtaken, unsaid, paneVars>> /\ Frozen

-----------------------------------------------------------------------------
(* The overlays.  Each closes by asking for the composer, where there is   *)
(* one.                                                                    *)
Composer(p) == IF ReadOnly(p) THEN Nothing ELSE "composer"
Closed(p) == [p EXCEPT !.palette = Shut, !.armed = {}]
AtStep(p, s) == [p EXCEPT !.palette = s, !.armed = IF s = "confirm" THEN @ ELSE {}]

Tab ==
    /\ Handles("chat")
    /\ Show(panes, Ring(panes)[IF station = 0 THEN 1 ELSE (station % Len(Ring(panes))) + 1])
    /\ NothingStored /\ NoQuestionTouched /\ Frozen

\* A click in a pane or the composer, and /chats.
Click ==
    /\ Handles("chat") /\ \E i \in DOMAIN Ring(panes) : Show(panes, Ring(panes)[i])
    /\ NothingStored /\ NoQuestionTouched /\ Frozen

OpenPalette ==
    /\ Handles("chat")
    /\ \E s \in {"root"} \cup (IF Ready THEN {"fire"} ELSE {}) : Show(AtStep(panes, s), Nothing)
    /\ NothingStored /\ NoQuestionTouched /\ Frozen

EscapePalette ==
    /\ Handles("palette")
    /\ IF panes.palette = "root" THEN Show(Closed(panes), Composer(panes)) ELSE Show(AtStep(panes, "root"), Nothing)
    /\ NothingStored /\ NoQuestionTouched /\ Frozen

GoToStep ==
    /\ Handles("palette") /\ panes.palette = "root"
    /\ \E s \in {"open", "delete"} \cup (IF Ready THEN {"fire"} ELSE {}) : Show(AtStep(panes, s), Nothing)
    /\ NothingStored /\ NoQuestionTouched /\ Frozen

\* toggleLogs, from a key or from the palette.
Logs(p) ==
    LET q == [p EXCEPT !.logs = ~@] IN Show(q, IF q.logs THEN "logs" ELSE "composer")
ToggleLogs ==
    /\ \/ Handles("chat") /\ Logs(panes)
       \/ Handles("palette") /\ panes.palette = "root" /\ Logs(Closed(panes))
    /\ NothingStored /\ NoQuestionTouched /\ Frozen

ToggleInspect ==
    /\ \/ Handles("chat") /\ Show([panes EXCEPT !.inspect = "board", !.typing = FALSE], Nothing)
       \/ Handles("palette") /\ panes.palette = "root"
            /\ Show([Closed(panes) EXCEPT !.inspect = "board", !.typing = FALSE], Nothing)
       \/ Handles("inspect") /\ ~panes.typing /\ Show([panes EXCEPT !.inspect = Shut], Composer(panes))
    /\ NothingStored /\ NoQuestionTouched /\ Frozen

\* A digit, "/", Enter, and Escape, which peels one layer.
Inspect ==
    /\ Handles("inspect")
    /\ \/ ~panes.typing /\ Show([panes EXCEPT !.inspect = "tools"], Nothing)
       \/ ~panes.typing /\ panes.inspect = "tools" /\ Show([panes EXCEPT !.typing = TRUE], Nothing)
       \/ panes.typing /\ Show([panes EXCEPT !.typing = FALSE], Nothing)
       \/ ~panes.typing /\ panes.inspect = "tools" /\ Show([panes EXCEPT !.inspect = "board"], Nothing)
    /\ NothingStored /\ NoQuestionTouched /\ Frozen

ToolOverlay ==
    /\ \/ Handles("chat") /\ Show([panes EXCEPT !.tool = TRUE], Nothing)
       \/ Handles("tool") /\ Show([panes EXCEPT !.tool = FALSE], Composer(panes))
    /\ NothingStored /\ NoQuestionTouched /\ Frozen

-----------------------------------------------------------------------------
(* Conversations.  metaFor looks in both lists, the chats first; an id that  *)
(* is in neither is taken for a chat.                                       *)
Ids == Talks \cup Fires
OnScreen(p) == {p.kind} \X p.talk
Kind(x) == IF <<"agent", x>> \in known /\ <<"user", x>> \notin known THEN "agent" ELSE "user"
Refreshed == known' = stored'

\* openIn: of what has no file an empty conversation is shown.  Of a run there is no composer, and
\* browsing the list leaves the keyboard there.
OpenIn(p, kind, x) ==
    LET q == [p EXCEPT !.talk = {x}, !.kind = kind]
    IN /\ Show(q, IF ReadOnly(q) THEN IF Region = "list" THEN Nothing ELSE "transcript"
                  ELSE IF p = panes THEN Nothing ELSE Composer(panes))
       /\ found' = (<<kind, x>> \in stored')
       /\ Refreshed

\* A row of the list, /open of whatever id, a row of the palette.
OpenTalk ==
    /\ Ready /\ UNCHANGED stored
    /\ \/ Handles("chat") /\ \E row \in known : OpenIn(panes, row[1], row[2])
       \/ Handles("chat") /\ Region = "composer" /\ \E x \in Ids : OpenIn(panes, Kind(x), x)
       \/ Handles("palette") /\ panes.palette = "open" /\ \E row \in known : OpenIn(Closed(panes), row[1], row[2])
    /\ NoQuestionTouched /\ Frozen

\* An id that is not valid, a file that cannot be read, a workspace that is not open yet: all
\* that changes is the palette.
OpenFails ==
    /\ \/ Handles("chat") /\ Region \in {"list", "composer"} /\ Show(panes, Nothing)
       \/ Handles("palette") /\ panes.palette = "open" /\ known # {} /\ Show(Closed(panes), Composer(panes))
    /\ NothingStored /\ NoQuestionTouched /\ Frozen

FreshTalk(p) == [p EXCEPT !.talk = NewChat, !.kind = "user"]
StartChat ==
    /\ \/ Handles("chat") /\ Show(FreshTalk(panes), "composer")
       \/ Handles("palette") /\ panes.palette = "root" /\ Show(FreshTalk(Closed(panes)), "composer")
    /\ found' = FALSE /\ UNCHANGED <<known, stored>> /\ NoQuestionTouched /\ Frozen

\* submit, to the manager of the chats: a message gives a new chat its id, and makes a file that is
\* not there unless the touch fails.
SubmitLine ==
    /\ Handles("chat") /\ Region = "composer" /\ Ready
    /\ \E x \in IF panes.talk = NewChat THEN {t \in Talks : <<"user", t>> \notin stored} ELSE panes.talk :
        /\ Show([panes EXCEPT !.talk = {x}], Nothing)
        /\ \/ stored' = stored \cup {<<"user", x>>} /\ found' = TRUE
           \/ UNCHANGED <<stored, found>>
    /\ UNCHANGED known /\ NoQuestionTouched /\ Frozen

\* fire: the run is opened at once, though the stamp of its owner may have failed and it never began.
Fired(p) ==
    \E x \in Fires :
        /\ <<"agent", x>> \notin stored
        /\ stored' \in {stored, stored \cup {<<"agent", x>>}}
        /\ OpenIn(p, "agent", x)

FireRun ==
    /\ Ready
    /\ \/ Handles("palette") /\ panes.palette = "fire" /\ Fired(Closed(panes))
       \/ Handles("chat") /\ Region = "composer" /\ Fired(panes)
    /\ NoQuestionTouched /\ Frozen

\* No such agent, or the file of the run just begun cannot be read: it runs unseen.
FireFails ==
    /\ Ready
    /\ \/ Handles("palette") /\ panes.palette = "fire" /\ Show(Closed(panes), Composer(panes))
       \/ Handles("chat") /\ Region = "composer" /\ Show(panes, Nothing)
    /\ \/ UNCHANGED stored
       \/ \E x \in Fires : stored' = stored \cup {<<"agent", x>>}
    /\ UNCHANGED <<known, found>> /\ NoQuestionTouched /\ Frozen

ArmDelete ==
    /\ Handles("palette") /\ panes.palette = "delete" /\ Ready
    /\ \E row \in known : Show([panes EXCEPT !.palette = "confirm", !.armed = {row[2]}], Nothing)
    /\ NothingStored /\ NoQuestionTouched /\ Frozen

\* deleteChat: of what is on screen a new chat takes the place.
ConfirmDelete ==
    /\ Handles("palette") /\ panes.palette = "confirm"
    /\ stored' = stored \ {<<Kind(x), x>> : x \in panes.armed}
    /\ \/ panes.talk = panes.armed /\ Show(FreshTalk(Closed(panes)), "composer") /\ found' = FALSE
       \/ panes.talk # panes.armed /\ Show(Closed(panes), Composer(panes)) /\ UNCHANGED found
    /\ Refreshed /\ NoQuestionTouched /\ Frozen

\* The file cannot be removed.
DeleteFails ==
    /\ Handles("palette") /\ panes.palette = "confirm"
    /\ Show(Closed(panes), Composer(panes))
    /\ NothingStored /\ NoQuestionTouched /\ Frozen

\* A device deletes one, or a fire prunes one; the lists are read again at the next update.
DeletedElsewhere(kind, x) ==
    /\ <<kind, x>> \in stored /\ Ready /\ stage = "running"
    /\ stored' = stored \ {<<kind, x>>} /\ found' = (found /\ <<kind, x>> \notin OnScreen(panes))
    /\ UNCHANGED <<panes, station, known, keys>> /\ NoQuestionTouched /\ Frozen

\* A device writes in one, or a turn saves the one that was deleted under it or never touched.
WrittenElsewhere(kind, x) ==
    /\ <<kind, x>> \notin stored /\ (kind = "agent" => x \in Fires) /\ Ready /\ stage = "running"
    /\ stored' = stored \cup {<<kind, x>>}
    /\ UNCHANGED <<panes, station, known, found, keys>> /\ NoQuestionTouched /\ Frozen

RefreshLists ==
    /\ stage = "running" /\ Ready /\ known # stored /\ UNCHANGED stored /\ Refreshed
    /\ UNCHANGED <<panes, station, found, keys>> /\ NoQuestionTouched /\ Frozen

-----------------------------------------------------------------------------
(* tui.Run: the workspace opens behind the first frame.                    *)
Opened ==
    /\ opener = "opening" /\ opener' \in {"delivered", "failed"}
    /\ UNCHANGED <<paneVars, stage>> /\ NoQuestionTouched

OnOpened ==
    /\ stage = "running" /\ opener = "delivered" /\ opener' = "taken"
    /\ UNCHANGED <<panes, station, stored, found, keys, stage>> /\ Refreshed /\ NoQuestionTouched

\* Nothing is on screen any more.
Quit ==
    /\ stage = "running" /\ stage' = "stopped"
    /\ panes' = BlankScreen /\ station' = 3 /\ found' = FALSE /\ keys' = MaxKeys
    /\ known' = {} /\ UNCHANGED <<stored, opener>> /\ NoQuestionTouched

Release ==
    /\ stage = "stopped" /\ stage' = "released" /\ surface' = "closed"
    /\ UNCHANGED <<question, reply, given, overs, modal, overtaken, unsaid, allowed, paneVars, opener>>

\* Workspace.Close waits for the turns, and so for their calls; the loader's result may still
\* be in its channel.
CloseWorkspace ==
    /\ stage = "released" /\ opener # "opening"
    /\ opener \in {"delivered", "taken"} => \A c \in Asking : question[c] \notin {"offered", "waiting"}
    /\ stage' = "closed" /\ opener' = IF opener = "failed" THEN opener ELSE "ended"
    /\ UNCHANGED paneVars /\ NoQuestionTouched

Keys == \/ Tab \/ Click \/ OpenPalette \/ EscapePalette \/ GoToStep \/ ToggleLogs \/ ToggleInspect \/ Inspect
        \/ ToolOverlay \/ OpenTalk \/ OpenFails \/ StartChat \/ SubmitLine \/ FireRun \/ FireFails
        \/ ArmDelete \/ ConfirmDelete \/ DeleteFails
        \/ \E i \in 0..Offers : Reply(i)
TerminalNext ==
    \/ \E c \in Asking : Offer(c) \/ OnAsk(c) \/ Heard(c) \/ GiveUp(c) \/ CancelCall(c)
    \/ \E kind \in {"user", "agent"}, x \in Ids : DeletedElsewhere(kind, x) \/ WrittenElsewhere(kind, x)
    \/ OnAskCleared \/ Keys \/ RefreshLists \/ Opened \/ OnOpened \/ Quit \/ Release \/ CloseWorkspace

TerminalSpec == TerminalInit /\ [][TerminalNext]_terminalVars

-----------------------------------------------------------------------------
(* While the terminal runs, a question that waits is the one on screen     *)
(* unless a later one took its place; one that is over stays there only    *)
(* until its end is heard of, or had no room; a call is allowed only by a  *)
(* person who was asked for it.                                            *)
QuestionsAreShown ==
    /\ stage = "running" =>
        \A c \in Asking \ overtaken : question[c] = "waiting" /\ reply[c] = <<>> => modal = {c}
    /\ \A c \in modal : question[c] # "waiting" => c \in unsaid \/ Contains(overs, c)
    /\ \A c \in Asking : question[c] = "yes" => c \in allowed

(* In the chat the keyboard is always somewhere: whatever opens, closes or *)
(* is replaced, no frame restores it to a place the ring has lost.         *)
KeyboardIsSomewhere == Mode(panes, modal) = "chat" => station # 0

(* What is on screen and was found on disk, or written there since, is in  *)
(* the store of its kind unless something else deleted it: what the        *)
(* terminal deletes leaves the screen, and what is typed goes to the store *)
(* the conversation is read from.                                          *)
ConversationIsThere == found => panes.talk # NewChat /\ OnScreen(panes) \subseteq stored

(* The terminal, as a whole.                                               *)
TerminalHolds ==
    /\ TerminalTypeOK
    /\ QuestionsAreShown /\ KeyboardIsSomewhere /\ ConversationIsThere
=============================================================================
