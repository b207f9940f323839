---------------------------- MODULE Conversation ----------------------------
(***************************************************************************)
(* One chat as a screen shows it: the events of the session's turns        *)
(* (agentkit/session.go), the pump that keeps the turn in flight and hands *)
(* each event on (internal/chat/manager.go), the snapshot a screen asks    *)
(* for (internal/serve/chat.go, internal/tui/app.go), and the fold that    *)
(* both of them and the live events go through (chat-model.ts, and its     *)
(* sibling internal/tui/transcript).                                       *)
(*                                                                         *)
(* A phone gets events that a full queue drops, and a snapshot that its    *)
(* connection reads in three steps; a terminal has a channel that loses    *)
(* nothing, and reads the three on the loop that folds.  Screens meet only *)
(* in the manager, so there is one; what others ask is Elsewhere.          *)
(***************************************************************************)
EXTENDS Naturals, Sequences, FiniteSets, SequencesExt

CONSTANTS
    Questions,      \* messages, each submitted once
    Kinds,          \* the screens there may be: "phone", "terminal"
    Rounds,         \* most model rounds of a turn
    OutRoom,        \* capacity of the session's stream
    FeedRoom,       \* capacity of the connection's queue, of the feed
    MaxOpens,       \* bound: times a chat is opened or a socket is made
    MaxNotices      \* bound: notifications that reach the terminal

ASSUME ConversationAssumption ==
    /\ Rounds \in Nat \ {0} /\ OutRoom \in Nat \ {0} /\ FeedRoom \in Nat \ {0}
    /\ MaxOpens \in Nat /\ MaxNotices \in Nat
    /\ Kinds \subseteq {"phone", "terminal"} /\ Kinds # {}

VARIABLES
    inputs,         \* session.in, and what a caller is about to put there
    loop,           \* the session's loop
    emitted,        \* session.out
    relay,          \* the pump: the event it is at
    flight,         \* the live record: running, input, events, forest
    saved,          \* the transcript, a turn each
    groups,         \* the tool groups, a turn each
    screen,         \* what is on it, and its socket
    feed,           \* what is on its way to it
    reader,         \* the snapshot being read
    view,           \* the screen's view of the chat
    opens,          \* chats opened, sockets made
    notices,        \* notifications so far
    astray,         \* history: the screen missed an event, got one twice, or asked across a turn
    interrupted,    \* history: a notice was put below an answer under way
    cut             \* history: turns that were aborted

conversationVars == <<inputs, loop, emitted, relay, flight, saved, groups, screen, feed, reader, view,
                      opens, notices, astray, interrupted, cut>>
chatSide == <<inputs, loop, emitted, relay, flight, saved, groups, cut>>
marks == <<opens, notices, astray, interrupted>>
screenSide == <<screen, feed, reader, view, marks>>

Nobody == {}                                \* no question; else one
Emission(k, q, n) == [kind |-> k, q |-> q, n |-> n]
NoTurn == [at |-> "idle", q |-> Nobody, text |-> <<>>, produced |-> <<>>, calls |-> {}, round |-> 0]
NoFlight == [running |-> FALSE, input |-> Nobody, events |-> <<>>, forest |-> {}]
NoRead == [at |-> "idle", turns |-> <<>>, tools |-> <<>>, flight |-> NoFlight, clean |-> TRUE]
Blank == [blocks |-> <<>>, running |-> FALSE]

ConversationInit ==
    /\ inputs = <<>> /\ loop = NoTurn /\ emitted = <<>> /\ relay = <<>> /\ flight = NoFlight
    /\ saved = <<>> /\ groups = <<>> /\ cut = {}
    /\ \E k \in Kinds : screen = [kind |-> k, on |-> FALSE, linked |-> TRUE]
    /\ feed = <<>> /\ reader = NoRead /\ view = Blank /\ opens = 0 /\ astray = TRUE
    /\ notices = 0 /\ interrupted = FALSE

ConversationTypeOK ==
    /\ Len(emitted) <= OutRoom /\ Len(feed) <= FeedRoom /\ Len(relay) <= 1
    /\ loop.at \in {"idle", "asking", "spoke", "calling", "finished", "saved"}
    /\ reader.at \in {"idle", "asked", "tools", "flight", "send"}
    /\ Len(groups) <= Len(saved) + 1 /\ opens <= MaxOpens /\ notices <= MaxNotices
    /\ screen.kind = "terminal" => screen.linked

OnTerminal == screen.kind = "terminal"

-----------------------------------------------------------------------------
(* The fold.  A block is a bubble: a question, or an answer with its text, *)
(* its tool calls and those that have returned.                            *)
Bubble(q) == [who |-> "user", q |-> q, text |-> <<>>, calls |-> {}, done |-> {}, pending |-> FALSE]
AnswerBubble == [who |-> "assistant", q |-> Nobody, text |-> <<>>, calls |-> {}, done |-> {}, pending |-> TRUE]
LastAnswers(v) == v.blocks # <<>> /\ Last(v.blocks).who = "assistant"

Notice == [Bubble(Nobody) EXCEPT !.who = "notice"]
PushNotice(v) == [v EXCEPT !.blocks = Append(@, Notice)]
PushUser(v, q) == [v EXCEPT !.blocks = Append(@, Bubble(q))]
OpenAssistant(v) ==
    IF LastAnswers(v) /\ Last(v.blocks).pending THEN v ELSE [v EXCEPT !.blocks = Append(@, AnswerBubble)]
EditAssistant(v, b) == IF LastAnswers(v) THEN [v EXCEPT !.blocks = Append(Front(@), b)] ELSE v

ApplyEvent(v, e) ==
    LET b == Last(v.blocks)
    IN IF e.kind = "start" THEN OpenAssistant(v)
       ELSE IF v.blocks = <<>> THEN IF e.kind = "end" THEN [v EXCEPT !.running = FALSE] ELSE v
       ELSE CASE e.kind = "text" -> EditAssistant(v, [b EXCEPT !.text = Append(@, <<e.q, e.n>>)])
              [] e.kind = "call" -> EditAssistant(v, [b EXCEPT !.calls = @ \cup {<<e.q, e.n>>}])
              [] e.kind = "return" -> EditAssistant(v, [b EXCEPT !.calls = @ \cup {<<e.q, e.n>>},
                                                                 !.done = @ \cup {<<e.q, e.n>>}])
              [] e.kind = "end" -> [EditAssistant(v, [b EXCEPT !.pending = FALSE]) EXCEPT !.running = FALSE]

\* snapshotBlocks: a turn that never got a message of the assistant has no bubble for it.
TurnBlocks(t, group) ==
    <<Bubble(t.q)>> \o
    IF t.answered THEN <<[AnswerBubble EXCEPT !.text = t.text, !.calls = group, !.done = group, !.pending = FALSE]>>
                  ELSE <<>>
SnapshotBlocks(turns, tools) ==
    LET upTo[i \in 0..Len(turns)] ==
            IF i = 0 THEN <<>>
            ELSE upTo[i - 1] \o TurnBlocks(turns[i], IF i <= Len(tools) THEN tools[i] ELSE {})
    IN upTo[Len(turns)]

\* Fault: the running turn is left to the events that are still to come.
SeedFinished(turns, tools, f) ==
    [blocks |-> SnapshotBlocks(turns, tools), running |-> f.running \/ f.input # Nobody]

Folded(v, events) ==
    LET after[i \in 0..Len(events)] == IF i = 0 THEN v ELSE ApplyEvent(after[i - 1], events[i])
    IN after[Len(events)]

Seed(turns, tools, f) ==
    LET finished == [blocks |-> SnapshotBlocks(turns, tools), running |-> FALSE]
        asked == IF f.input = Nobody THEN finished ELSE PushUser(finished, f.input)
        folded == Folded(asked, f.events)
    IN IF f.running \/ f.input # Nobody
       THEN [OpenAssistant(folded) EXCEPT !.running = TRUE]
       ELSE finished

-----------------------------------------------------------------------------
(* The snapshot is clean if the chat did nothing from its first reading    *)
(* until it is on its way, and nothing was between two places at first.    *)
Stir == reader' = [reader EXCEPT !.clean = FALSE]
Settled ==
    /\ relay = <<>> /\ loop.at # "saved" /\ \A i \in DOMAIN emitted : emitted[i].kind # "end"
    /\ OnTerminal => feed = <<>>

(* Of a view that went astray only the flag is kept: no guard reads more.  *)
Seen(v, lost) == IF lost THEN [v EXCEPT !.blocks = <<>>] ELSE v

(* Manager.Submit: under the lock the input in flight, then the session's  *)
(* queue.                                                                  *)
Submitted(q) ==
    /\ \A i \in DOMAIN inputs : inputs[i] # q
    /\ loop.q # {q} /\ \A i \in DOMAIN saved : saved[i].q # {q}
    /\ inputs' = Append(inputs, q)
    /\ flight' = [flight EXCEPT !.input = {q}]

Elsewhere(q) ==
    /\ Submitted(q) /\ Stir
    /\ UNCHANGED <<loop, emitted, relay, saved, groups, cut, screen, feed, view, marks>>

\* The terminal refuses while its view runs; the phone's Enter does not.  An answer that
\* streams above the new bubble is no longer the last block.
SubmitHere(q) ==
    /\ screen.on /\ screen.linked /\ reader.at = "idle"
    /\ OnTerminal => ~view.running
    /\ Submitted(q)
    /\ astray' = (astray \/ (LastAnswers(view) /\ Last(view.blocks).pending))
    /\ view' = Seen([PushUser(view, {q}) EXCEPT !.running = TRUE], astray')
    /\ UNCHANGED <<loop, emitted, relay, saved, groups, cut, screen, feed, reader, opens, notices, interrupted>>

-----------------------------------------------------------------------------
(* The session.  A round streams its text, then calls a tool or is the     *)
(* answer; what a round produced counts only when it is complete.          *)
EmitOut(e) == Len(emitted) < OutRoom /\ emitted' = Append(emitted, e)
LoopStep == UNCHANGED <<relay, flight, groups, screen, feed, view, marks>>

BeginTurn ==
    /\ loop.at = "idle" /\ inputs # <<>>
    /\ EmitOut(Emission("start", Head(inputs), 0))
    /\ inputs' = Tail(inputs)
    /\ loop' = [NoTurn EXCEPT !.at = "asking", !.q = {Head(inputs)}, !.round = 1]
    /\ UNCHANGED <<saved, cut, reader>> /\ LoopStep

StreamText ==
    /\ loop.at = "asking"
    /\ \E q \in loop.q :
        /\ EmitOut(Emission("text", q, loop.round))
        /\ loop' = [loop EXCEPT !.at = "spoke", !.text = Append(@, <<q, loop.round>>)]
    /\ UNCHANGED <<inputs, saved, cut, reader>> /\ LoopStep

CallTool ==
    /\ loop.at = "spoke" /\ loop.round < Rounds
    /\ \E q \in loop.q :
        /\ EmitOut(Emission("call", q, loop.round))
        /\ loop' = [loop EXCEPT !.at = "calling", !.produced = loop.text, !.calls = @ \cup {<<q, loop.round>>}]
    /\ UNCHANGED <<inputs, saved, cut, reader>> /\ LoopStep

ToolReturns ==
    /\ loop.at = "calling"
    /\ \E q \in loop.q : EmitOut(Emission("return", q, loop.round))
    /\ loop' = [loop EXCEPT !.at = "asking", !.round = @ + 1]
    /\ UNCHANGED <<inputs, saved, cut, reader>> /\ LoopStep

FinishRound ==
    /\ loop.at = "spoke"
    /\ loop' = [loop EXCEPT !.at = "finished", !.produced = loop.text]
    /\ UNCHANGED <<inputs, emitted, saved, cut, reader>> /\ LoopStep

\* Cancel, a cap, or the model's failure.
AbortTurn ==
    /\ loop.at \in {"asking", "spoke"}
    /\ loop' = [loop EXCEPT !.at = "finished"]
    /\ cut' = cut \cup loop.q
    /\ UNCHANGED <<inputs, emitted, saved, reader>> /\ LoopStep

PersistTurn ==
    /\ loop.at = "finished"
    /\ saved' = Append(saved, [q |-> loop.q, text |-> loop.produced, answered |-> loop.produced # <<>>])
    /\ loop' = [loop EXCEPT !.at = "saved"]
    /\ Stir /\ UNCHANGED <<inputs, emitted, cut>> /\ LoopStep

EndTurn ==
    /\ loop.at = "saved"
    /\ \E q \in loop.q : EmitOut(Emission("end", q, 0))
    /\ loop' = NoTurn
    /\ UNCHANGED <<inputs, saved, cut, reader>> /\ LoopStep

-----------------------------------------------------------------------------
(* The pump: observe under the lock, the group of a turn that has ended    *)
(* outside it, then the event goes on.                                     *)
Buffered(f, e) == IF f.running THEN [f EXCEPT !.events = Append(@, e)] ELSE f
Observed(e) ==
    CASE e.kind = "start" -> Buffered([flight EXCEPT !.running = TRUE, !.events = <<>>, !.forest = {}], e)
      [] e.kind = "call" -> Buffered([flight EXCEPT !.forest = @ \cup {<<e.q, e.n>>}], e)
      [] e.kind = "end" -> NoFlight
      [] OTHER -> Buffered(flight, e)

TakeEvent ==
    /\ relay = <<>> /\ emitted # <<>>
    /\ LET e == Head(emitted)
       IN /\ flight' = Observed(e)
          /\ relay' = <<[event |-> e, group |-> flight.forest, flushed |-> e.kind # "end"]>>
    /\ emitted' = Tail(emitted)
    /\ Stir
    /\ UNCHANGED <<inputs, loop, saved, groups, cut, screen, feed, view, marks>>

AppendTools ==
    /\ relay # <<>> /\ ~relay[1].flushed
    /\ groups' = Append(groups, relay[1].group)
    /\ relay' = <<[relay[1] EXCEPT !.flushed = TRUE]>>
    /\ Stir
    /\ UNCHANGED <<inputs, loop, emitted, flight, saved, cut, screen, feed, view, marks>>

Tainted ==
    [i \in DOMAIN feed |->
        IF feed[i].kind = "snapshot" THEN [feed[i] EXCEPT !.clean = FALSE, !.view = Seen(@, TRUE)] ELSE feed[i]]

\* Feed.push waits for room; hub.broadcast drops what has none.
HandOn ==
    /\ relay # <<>> /\ relay[1].flushed
    /\ OnTerminal => Len(feed) < FeedRoom
    /\ relay' = <<>>
    /\ LET room == Len(feed) < FeedRoom /\ screen.linked
       IN /\ feed' = IF room THEN Append(feed, [kind |-> "event", event |-> relay[1].event]) ELSE Tainted
          /\ astray' = (astray \/ ~room) /\ view' = Seen(view, astray')
    /\ Stir
    /\ UNCHANGED <<inputs, loop, emitted, flight, saved, groups, cut, screen, opens, notices, interrupted>>

-----------------------------------------------------------------------------
(* The screen.                                                             *)
OpenChat ==
    /\ screen.linked /\ reader.at = "idle" /\ opens < MaxOpens
    /\ opens' = opens + 1
    /\ screen' = [screen EXCEPT !.on = TRUE]
    /\ astray' = TRUE
    /\ view' = IF OnTerminal THEN Seen(view, TRUE) ELSE Blank
    /\ reader' = [NoRead EXCEPT !.at = "asked"]
    /\ UNCHANGED <<chatSide, feed, notices, interrupted>>

LeaveChat ==
    /\ screen.on /\ reader.at = "idle"
    /\ screen' = [screen EXCEPT !.on = FALSE]
    /\ view' = Blank /\ astray' = TRUE
    /\ UNCHANGED <<chatSide, feed, reader, opens, notices, interrupted>>

\* Transcript, Tools, Inflight: each takes a lock of its own.
ReadTranscript ==
    /\ reader.at = "asked"
    /\ reader' = [reader EXCEPT !.at = "tools", !.turns = saved, !.clean = Settled]
    /\ UNCHANGED <<chatSide, screen, feed, view, marks>>

ReadTools ==
    /\ reader.at = "tools"
    /\ reader' = [reader EXCEPT !.at = "flight", !.tools = groups]
    /\ UNCHANGED <<chatSide, screen, feed, view, marks>>

ReadFlight ==
    /\ reader.at = "flight"
    /\ IF OnTerminal
       THEN /\ astray' = ~reader.clean
            /\ view' = Seen(Seed(reader.turns, reader.tools, flight), astray')
            /\ reader' = NoRead /\ interrupted' = FALSE
       ELSE /\ reader' = [reader EXCEPT !.at = "send", !.flight = flight]
            /\ UNCHANGED <<view, astray, interrupted>>
    /\ UNCHANGED <<chatSide, screen, feed, opens, notices>>

SendSnapshot ==
    /\ reader.at = "send" /\ Len(feed) < FeedRoom
    /\ feed' = Append(feed, [kind |-> "snapshot", clean |-> reader.clean,
                             view |-> Seen(Seed(reader.turns, reader.tools, reader.flight), ~reader.clean)])
    /\ reader' = NoRead
    /\ UNCHANGED <<chatSide, screen, view, marks>>

\* Feed, onItem: a notification, whichever chat it is about; a phone shows it elsewhere.
Notify ==
    /\ OnTerminal /\ Len(feed) < FeedRoom
    /\ notices < MaxNotices /\ notices' = notices + 1
    /\ feed' = Append(feed, [kind |-> "notice"])
    /\ UNCHANGED <<chatSide, screen, reader, view, opens, astray, interrupted>>

\* A terminal that reads a snapshot folds nothing meanwhile.
ReduceChat ==
    /\ feed # <<>> /\ (OnTerminal => reader.at = "idle")
    /\ LET e == Head(feed)
       IN /\ astray' = IF screen.on /\ e.kind = "snapshot" THEN ~e.clean ELSE astray
          /\ view' = IF ~screen.on THEN view
                      ELSE Seen(CASE e.kind = "snapshot" -> e.view
                                  [] e.kind = "notice" -> PushNotice(view)
                                  [] OTHER -> ApplyEvent(view, e.event), astray')
          /\ interrupted' = (interrupted \/ (screen.on /\ e.kind = "notice" /\ LastAnswers(view)
                                               /\ Last(view.blocks).pending))
    /\ feed' = Tail(feed)
    /\ UNCHANGED <<chatSide, screen, reader, opens, notices>>

\* The socket of a phone: its queue and its read loop go with it, and it opens the chat again.
LoseSocket ==
    /\ ~OnTerminal /\ screen.linked
    /\ screen' = [screen EXCEPT !.linked = FALSE]
    /\ feed' = <<>> /\ reader' = NoRead /\ astray' = TRUE /\ view' = Seen(view, TRUE)
    /\ UNCHANGED <<chatSide, opens, notices, interrupted>>

Reconnect ==
    /\ ~screen.linked /\ opens < MaxOpens /\ opens' = opens + 1
    /\ screen' = [screen EXCEPT !.linked = TRUE]
    /\ reader' = IF screen.on THEN [NoRead EXCEPT !.at = "asked"] ELSE NoRead
    /\ UNCHANGED <<chatSide, feed, view, notices, astray, interrupted>>

TurnSteps == BeginTurn \/ StreamText \/ CallTool \/ ToolReturns \/ FinishRound \/ AbortTurn \/ PersistTurn \/ EndTurn
PumpSteps == TakeEvent \/ AppendTools \/ HandOn
ScreenSteps == OpenChat \/ LeaveChat \/ ReadTranscript \/ ReadTools \/ ReadFlight \/ SendSnapshot \/ ReduceChat
               \/ Notify \/ LoseSocket \/ Reconnect
ConversationNext == TurnSteps \/ PumpSteps \/ ScreenSteps \/ \E q \in Questions : SubmitHere(q) \/ Elsewhere(q)

ConversationSpec == ConversationInit /\ [][ConversationNext]_conversationVars

-----------------------------------------------------------------------------
ChatRests == inputs = <<>> /\ loop.at = "idle" /\ emitted = <<>> /\ relay = <<>>
ScreenRests == feed = <<>> /\ reader.at = "idle" /\ screen.on /\ screen.linked
OfCutTurn(b) == \E q \in cut : \E n \in 1..Rounds : <<q, n>> \in b.calls \/ \E i \in DOMAIN b.text : b.text[i] = <<q, n>>
AnswersOf(blocks) ==
    LET kept[i \in 0..Len(blocks)] ==
            IF i = 0 THEN <<>>
            ELSE IF blocks[i].who = "assistant" /\ blocks[i].text # <<>> /\ ~OfCutTurn(blocks[i])
                 THEN Append(kept[i - 1], blocks[i])
                 ELSE kept[i - 1]
    IN kept[Len(blocks)]

(* When the chat and the screen have come to rest, a screen that read its  *)
(* snapshot whole, got every event once and had no line put below an       *)
(* answer under way shows the answers of the transcript with their tools,  *)
(* none of them under way.                                                 *)
ScreenConverges ==
    ChatRests /\ ScreenRests /\ ~astray /\ ~interrupted =>
        /\ AnswersOf(view.blocks) = AnswersOf(SnapshotBlocks(saved, groups))
        /\ ~view.running
        /\ \A i \in DOMAIN view.blocks : ~view.blocks[i].pending

(* One view of a chat: what a screen folded is what was persisted, and the *)
(* file and its groups belong together, when nothing is under way.         *)
ConversationHolds ==
    /\ ConversationTypeOK
    /\ ScreenConverges
    /\ ChatRests => Len(groups) = Len(saved) /\ flight = NoFlight

(* What a comment in the code says, and a run refutes.                     *)

(* "reopening mid-turn and watching one live render identically" (Seed):   *)
(* at rest the answer that was watched is the one that reopening shows.    *)
WatchedIsReopened ==
    ChatRests /\ ScreenRests /\ ~astray =>
        AnswersOf(view.blocks) = AnswersOf(SnapshotBlocks(saved, groups))
=============================================================================
