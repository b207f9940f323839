----------------------------- MODULE ChatManager -----------------------------
(***************************************************************************)
(* One chat of a workspace: the sessions the manager opens for it           *)
(* (internal/chat/manager.go), the loop that runs a session's turns         *)
(* (agentkit/session.go), the pump that drains its event stream, and the    *)
(* chat's file (internal/chat/store.go).  Messages arrive from any number   *)
(* of callers; the reaper, a delete and the shutdown each end sessions.     *)
(*                                                                         *)
(* A turn is named by the message it answers: the messages it appends to    *)
(* the transcript, and the forest of its tool calls, are that name.         *)
(*                                                                         *)
(* Whatever reads or writes the file may fail, which is logged and no more: *)
(* the session, the pump and the callers go on as if it had not.            *)
(***************************************************************************)
EXTENDS Naturals, Sequences, SequencesExt

CONSTANTS Inputs,    \* the messages; each is submitted once
          Wakes,     \* those a fired wake submits, rather than a client
          Sessions,  \* bound on the sessions opened for the chat
          InCap,     \* capacity of Session.in (16 in the code)
          OutCap,    \* capacity of Session.out (64 in the code)
          Happens,   \* what else happens: "reap", "delete", "shutdown", "failure"
          None       \* no session, no message, no file

\* What the chat's file holds.
Record == [turns : Seq(Inputs), tools : Seq(Inputs \cup {None})]

ASSUME ChatAssumption ==
  /\ Wakes \subseteq Inputs
  /\ InCap \in Nat \ {0} /\ OutCap \in Nat \ {0}
  /\ Happens \subseteq {"reap", "delete", "shutdown", "failure"}
  /\ None \notin Inputs \cup Sessions \cup Record
  /\ {"idle", "done"} \cap (Sessions \cup {None}) = {}    \* the deleter's words

VARIABLES
  \* Manager and its live records
  active,    \* Manager.active[id]
  shut,      \* Manager.closed, and whether CloseAll has returned
  running,   \* live.running
  input,     \* live.input
  forest,    \* live.forest: the turn whose tool calls it gathers
  aged,      \* the sessions whose idleSince is past idleTTL
  dead,      \* sessions taken out of active, their Close still to come
  deleter,   \* Delete: "idle", the session it closes or None, "done"
  \* Session
  life,      \* its loop: "unborn", "live", "ended" (done and out closed)
  cancelled, \* the sessions whose lifecycle ctx is cancelled
  queue,     \* Session.in
  stream,    \* Session.out
  turn,      \* the running turn
  history,   \* Session.history
  \* pump, callers, Store
  pump,      \* "none", "drain", "flush", "exited"
  group,     \* the forest the pump is about to append
  proc, to,  \* each caller's next step, and the session it was given
  file,      \* the chat's record on disk
  \* Histories of the writes that failed
  unsaved,   \* the turns a failed Save left out, until a Save brings them back
  groupless  \* the turns whose tool group was not appended

mgr  == <<active, shut, running, input, forest, aged, dead, deleter>>
sess == <<life, cancelled, queue, stream, turn, history>>
disk == <<file, unsaved, groupless>>
rest == <<pump, group, proc, to, disk>>
vars == <<mgr, sess, rest>>

NoTurn == [at |-> "idle", of |-> None]
Events == {"start", "end"} \X Inputs

NewRecord == [turns |-> <<>>, tools |-> <<>>]

TypeOK ==
  /\ active \in Sessions \cup {None}
  /\ shut \in {"open", "closing", "closed"}
  /\ running \subseteq Sessions /\ aged \subseteq Sessions /\ dead \subseteq Sessions
  /\ input \in [Sessions -> Inputs \cup {None}]
  /\ forest \in [Sessions -> Inputs \cup {None}]
  /\ deleter \in Sessions \cup {"idle", None, "done"}
  /\ life \in [Sessions -> {"unborn", "live", "ended"}]
  /\ cancelled \subseteq Sessions
  /\ queue \in [Sessions -> Seq(Inputs)]
  /\ \A s \in Sessions : Len(queue[s]) <= InCap
  /\ stream \in [Sessions -> Seq(Events)]
  /\ \A s \in Sessions : Len(stream[s]) <= OutCap
  /\ turn \in [Sessions -> {NoTurn} \cup
                 [at : {"start", "run", "save", "end"}, of : Inputs]]
  /\ history \in [Sessions -> Seq(Inputs)]
  /\ pump \in [Sessions -> {"none", "drain", "flush", "exited"}]
  /\ group \in [Sessions -> Inputs \cup {None}]
  /\ proc \in [Inputs -> {"new", "touch", "send", "queued", "lost", "refused"}]
  /\ to \in [Inputs -> Sessions \cup {None}]
  /\ file \in Record \cup {None}
  /\ unsaved \subseteq Inputs /\ groupless \subseteq Inputs

Init ==
  /\ active = None /\ shut = "open"
  /\ running = {} /\ aged = {} /\ dead = {} /\ deleter = "idle"
  /\ input = [s \in Sessions |-> None]
  /\ forest = [s \in Sessions |-> None]
  /\ life = [s \in Sessions |-> "unborn"]
  /\ cancelled = {}
  /\ queue = [s \in Sessions |-> <<>>]
  /\ stream = [s \in Sessions |-> <<>>]
  /\ turn = [s \in Sessions |-> NoTurn]
  /\ history = [s \in Sessions |-> <<>>]
  /\ pump = [s \in Sessions |-> "none"]
  /\ group = [s \in Sessions |-> None]
  /\ proc = [x \in Inputs |-> "new"]
  /\ to = [x \in Inputs |-> None]
  /\ file = None
  /\ unsaved = {} /\ groupless = {}

-----------------------------------------------------------------------------
(* The store: each operation reads and rewrites the whole record under s.mu, *)
(* by a rename, so that one which fails leaves the file as it was.           *)

Fails == "failure" \in Happens
OnFile == IF file = None THEN NewRecord ELSE file
Turns == IF file = None THEN <<>> ELSE file.turns
Tools == IF file = None THEN <<>> ELSE file.tools

\* Fault: Save adds to what is there.
SaveOnTop(turns) ==
  \/ /\ file' = [OnFile EXCEPT !.turns = @ \o turns]
     /\ unsaved' = unsaved \ Range(turns)
  \/ /\ Fails /\ UNCHANGED file
     /\ unsaved' = unsaved \cup (Range(turns) \ Range(Turns))

\* Save: replaces the messages, keeps the tools, creates a missing record.
Save(turns) ==
  \/ /\ file' = [OnFile EXCEPT !.turns = turns]
     /\ unsaved' = unsaved \ Range(turns)
  \/ /\ Fails /\ UNCHANGED file
     /\ unsaved' = unsaved \cup (Range(turns) \ Range(Turns))

\* AppendTools: a no-op when the chat has no record.
AppendTools(g) ==
  \/ /\ file # None
     /\ file' = [file EXCEPT !.tools = Append(@, g)]
     /\ UNCHANGED groupless
  \/ /\ file = None \/ Fails
     /\ UNCHANGED file
     /\ groupless' = groupless \cup ({g} \ {None})

-----------------------------------------------------------------------------
(* The callers: Manager.Submit, or Manager.Open and Session.Submit.          *)

\* openLocked of a chat with no live session: NewSession loads the history,
\* and begins with none when it cannot.
OpenFresh(s) ==
  /\ life[s] = "unborn"
  /\ active' = s
  /\ life' = [life EXCEPT ![s] = "live"]
  /\ \E known \in {Turns} \cup (IF Fails THEN {<<>>} ELSE {}) :
       history' = [history EXCEPT ![s] = known]
  /\ pump' = [pump EXCEPT ![s] = "drain"]

\* Fault: openLocked does not look at Manager.closed.
OpenLockedAnyway(s) ==
  \/ active = s /\ UNCHANGED <<active, life, history, pump>>
  \/ active = None /\ OpenFresh(s)

\* openLocked: the session the caller is given.
OpenLocked(s) ==
  \/ active = s /\ UNCHANGED <<active, life, history, pump>>
  \/ active = None /\ shut = "open" /\ OpenFresh(s)

\* Submit's critical section: the live record notes the input as in flight.
\* A wake opens the session and does not go through Submit.
Submit(x, s) ==
  /\ proc[x] = "new"
  /\ OpenLocked(s)
  /\ to' = [to EXCEPT ![x] = s]
  /\ IF x \in Wakes
       THEN proc' = [proc EXCEPT ![x] = "send"] /\ UNCHANGED input
       ELSE proc' = [proc EXCEPT ![x] = "touch"] /\ input' = [input EXCEPT ![s] = x]
  /\ UNCHANGED <<shut, running, forest, aged, dead, deleter,
                 cancelled, queue, stream, turn, group, disk>>

\* openLocked fails closed after CloseAll.
Refused(x) ==
  /\ proc[x] = "new" /\ active = None /\ shut # "open"
  /\ proc' = [proc EXCEPT ![x] = "refused"]
  /\ UNCHANGED <<mgr, sess, pump, group, to, disk>>

\* touch: bumps the list metadata, which creates the record of a new chat.
Touch(x) ==
  /\ proc[x] = "touch"
  /\ file' = OnFile \/ (Fails /\ UNCHANGED file)
  /\ proc' = [proc EXCEPT ![x] = "send"]
  /\ UNCHANGED <<mgr, sess, pump, group, to, unsaved, groupless>>

\* Session.Submit: queue the message, or give up once the loop has ended.
Send(x) ==
  /\ proc[x] = "send"
  /\ LET s == to[x] IN
     \/ /\ Len(queue[s]) < InCap
        /\ queue' = [queue EXCEPT ![s] = Append(@, x)]
        /\ proc' = [proc EXCEPT ![x] = "queued"]
     \/ /\ life[s] = "ended"
        /\ proc' = [proc EXCEPT ![x] = "lost"]
        /\ UNCHANGED queue
  /\ UNCHANGED <<mgr, life, cancelled, stream, turn, history, pump, group, to, disk>>

-----------------------------------------------------------------------------
(* The session's loop.                                                      *)

\* loop: the select may still pick an input once the ctx is cancelled.
Take(s) ==
  /\ life[s] = "live" /\ turn[s].at = "idle" /\ queue[s] # <<>>
  /\ turn' = [turn EXCEPT ![s] = [at |-> "start", of |-> Head(queue[s])]]
  /\ queue' = [queue EXCEPT ![s] = Tail(@)]
  /\ UNCHANGED <<mgr, life, cancelled, stream, history, rest>>

\* loop: ctx.Done, what is queued is dropped.
Leave(s) ==
  /\ life[s] = "live" /\ turn[s].at = "idle" /\ s \in cancelled
  /\ life' = [life EXCEPT ![s] = "ended"]
  /\ UNCHANGED <<mgr, cancelled, queue, stream, turn, history, rest>>

\* sink: waits for room, and may drop the event once the ctx is cancelled.
Emit(s, kind) ==
  \/ /\ Len(stream[s]) < OutCap
     /\ stream' = [stream EXCEPT ![s] = Append(@, <<kind, turn[s].of>>)]
  \/ s \in cancelled /\ UNCHANGED stream

EmitStart(s) ==
  /\ turn[s].at = "start"
  /\ Emit(s, "start")
  /\ turn' = [turn EXCEPT ![s].at = "run"]
  /\ UNCHANGED <<mgr, life, cancelled, queue, history, rest>>

\* run returns: an answer, a tripped guard, Cancel, or the session's end.
Finish(s) ==
  /\ turn[s].at = "run"
  /\ turn' = [turn EXCEPT ![s].at = "save"]
  /\ history' = [history EXCEPT ![s] = Append(@, turn[s].of)]
  /\ UNCHANGED <<mgr, life, cancelled, queue, stream, rest>>

Persist(s) ==
  /\ turn[s].at = "save"
  /\ Save(history[s])
  /\ turn' = [turn EXCEPT ![s].at = "end"]
  /\ UNCHANGED <<mgr, life, cancelled, queue, stream, history, pump, group, proc, to, groupless>>

EmitEnd(s) ==
  /\ turn[s].at = "end"
  /\ Emit(s, "end")
  /\ turn' = [turn EXCEPT ![s] = NoTurn]
  /\ UNCHANGED <<mgr, life, cancelled, queue, history, rest>>

-----------------------------------------------------------------------------
(* The pump.                                                                *)

\* Fault: the input is taken for shown when its turn starts.
ObserveClearsEarly(s) ==
  /\ pump[s] = "drain" /\ stream[s] # <<>>
  /\ stream' = [stream EXCEPT ![s] = Tail(@)]
  /\ input' = [input EXCEPT ![s] = None]
  /\ \/ /\ Head(stream[s])[1] = "start"
        /\ running' = running \cup {s}
        /\ forest' = [forest EXCEPT ![s] = Head(stream[s])[2]]
        /\ UNCHANGED <<aged, pump, group>>
     \/ /\ Head(stream[s])[1] = "end"
        /\ running' = running \ {s}
        /\ aged' = aged \ {s}
        /\ forest' = [forest EXCEPT ![s] = None]
        /\ group' = [group EXCEPT ![s] = forest[s]]
        /\ pump' = [pump EXCEPT ![s] = "flush"]
  /\ UNCHANGED <<active, shut, dead, deleter, life, cancelled, queue, turn, history,
                 proc, to, disk>>

\* observe of a TurnStart or a TurnEnd of frame 0.
Observe(s) ==
  /\ pump[s] = "drain" /\ stream[s] # <<>>
  /\ stream' = [stream EXCEPT ![s] = Tail(@)]
  /\ \/ /\ Head(stream[s])[1] = "start"
        /\ running' = running \cup {s}
        /\ forest' = [forest EXCEPT ![s] = Head(stream[s])[2]]
        /\ UNCHANGED <<input, aged, pump, group>>
     \/ /\ Head(stream[s])[1] = "end"
        /\ running' = running \ {s}
        /\ aged' = aged \ {s}
        /\ input' = [input EXCEPT ![s] = None]
        /\ forest' = [forest EXCEPT ![s] = None]
        /\ group' = [group EXCEPT ![s] = forest[s]]
        /\ pump' = [pump EXCEPT ![s] = "flush"]
  /\ UNCHANGED <<active, shut, dead, deleter, life, cancelled, queue, turn, history,
                 proc, to, disk>>

\* Fault: The pump stops after the first turn.
FlushAndStop(s) ==
  /\ pump[s] = "flush"
  /\ AppendTools(group[s])
  /\ pump' = [pump EXCEPT ![s] = "exited"]
  /\ group' = [group EXCEPT ![s] = None]
  /\ UNCHANGED <<mgr, sess, proc, to, unsaved>>

\* observe's disk write, outside the lock.
Flush(s) ==
  /\ pump[s] = "flush"
  /\ AppendTools(group[s])
  /\ pump' = [pump EXCEPT ![s] = "drain"]
  /\ group' = [group EXCEPT ![s] = None]
  /\ UNCHANGED <<mgr, sess, proc, to, unsaved>>

\* The stream is closed and drained: wg.Done.
Exit(s) ==
  /\ pump[s] = "drain" /\ stream[s] = <<>> /\ life[s] = "ended"
  /\ pump' = [pump EXCEPT ![s] = "exited"]
  /\ UNCHANGED <<mgr, sess, group, proc, to, disk>>

-----------------------------------------------------------------------------
(* What ends a session.                                                     *)

\* idleTTL passes while nothing happens in the chat.
Age(s) ==
  /\ "reap" \in Happens
  /\ life[s] = "live" /\ s \notin aged
  /\ turn[s].at = "idle" /\ queue[s] = <<>> /\ stream[s] = <<>> /\ pump[s] = "drain"
  /\ \A x \in Inputs : to[x] = s => proc[x] \notin {"touch", "send"}
  /\ aged' = aged \cup {s}
  /\ UNCHANGED <<active, shut, running, input, forest, dead, deleter, sess, rest>>

\* reapIdle's critical section.
Reap(s) ==
  /\ "reap" \in Happens
  /\ shut = "open"
  /\ active = s /\ s \notin running /\ s \in aged
  /\ active' = None
  /\ dead' = dead \cup {s}
  /\ UNCHANGED <<shut, running, input, forest, aged, deleter, sess, rest>>

\* Fault: Close aborts the running turn and leaves the loop alone.
CloseTurnOnly(s) ==
  /\ s \in dead
  /\ dead' = dead \ {s}
  /\ UNCHANGED <<active, shut, running, input, forest, aged, deleter, sess, rest>>

\* Session.Close, by whoever took the session out of active.
Close(s) ==
  /\ s \in dead
  /\ dead' = dead \ {s}
  /\ cancelled' = cancelled \cup {s}
  /\ UNCHANGED <<active, shut, running, input, forest, aged, deleter,
                 life, queue, stream, turn, history, rest>>

\* Delete's critical section.
DeleteTake ==
  /\ "delete" \in Happens
  /\ deleter = "idle"
  /\ deleter' = active
  /\ active' = None
  /\ dead' = dead \cup ({active} \ {None})
  /\ UNCHANGED <<shut, running, input, forest, aged, sess, rest>>

\* Store.Delete, after the Close of the session if there was one.
DeleteFile ==
  /\ deleter \notin {"idle", "done"} /\ deleter \notin dead
  /\ file' = None \/ (Fails /\ UNCHANGED file)
  /\ deleter' = "done"
  /\ UNCHANGED <<active, shut, running, input, forest, aged, dead, sess,
                 pump, group, proc, to, unsaved, groupless>>

\* CloseAll's critical section.
CloseAll ==
  /\ "shutdown" \in Happens
  /\ shut = "open"
  /\ shut' = "closing"
  /\ active' = None
  /\ dead' = dead \cup ({active} \ {None})
  /\ UNCHANGED <<running, input, forest, aged, deleter, sess, rest>>

\* Fault: CloseAll does not wait for the pumps.
CloseAllAtOnce ==
  /\ shut = "closing"
  /\ dead = {}
  /\ shut' = "closed"
  /\ UNCHANGED <<active, running, input, forest, aged, dead, deleter, sess, rest>>

\* CloseAll: wg.Wait returns.
CloseAllReturns ==
  /\ shut = "closing"
  /\ \A s \in Sessions : pump[s] \in {"none", "exited"}
  /\ shut' = "closed"
  /\ UNCHANGED <<active, running, input, forest, aged, dead, deleter, sess, rest>>

-----------------------------------------------------------------------------
Loop(s) == Take(s) \/ Leave(s) \/ EmitStart(s) \/ Finish(s) \/ Persist(s) \/ EmitEnd(s)
Pump(s) == Observe(s) \/ Flush(s) \/ Exit(s)

Next ==
  \/ \E x \in Inputs : \/ \E s \in Sessions : Submit(x, s)
                       \/ Refused(x) \/ Touch(x) \/ Send(x)
  \/ \E s \in Sessions : Loop(s) \/ Pump(s) \/ Age(s) \/ Reap(s) \/ Close(s)
  \/ DeleteTake \/ DeleteFile \/ CloseAll \/ CloseAllReturns

Spec == Init /\ [][Next]_vars

\* Goroutines that can go on do.  The runtime hands a freed slot of a channel
\* to the sender that has waited longest, hence SF for the callers; the loop
\* is the only sender of its stream.  The reaper, the clients, the delete and
\* the shutdown are under no obligation.
Fairness ==
  /\ \A x \in Inputs : WF_vars(Touch(x)) /\ SF_vars(Send(x))
  /\ \A s \in Sessions : /\ WF_vars(Take(s)) /\ WF_vars(Leave(s))
                         /\ WF_vars(EmitStart(s) \/ Finish(s) \/ Persist(s) \/ EmitEnd(s))
                         /\ WF_vars(Pump(s))
                         /\ WF_vars(Close(s))
  /\ WF_vars(DeleteFile)
  /\ WF_vars(CloseAllReturns)

FairSpec == Spec /\ Fairness

-----------------------------------------------------------------------------
(* What the chat promises.                                                  *)

AtRest(s) == turn[s].at = "idle" /\ stream[s] = <<>> /\ pump[s] = "drain"

\* The tool groups on file follow the turns on file, one for one and in order,
\* at most one turn behind what the loop has saved while its TurnEnd travels to
\* the pump: what lets a client zip group k onto turn k.  Only a write that
\* failed comes between them.  A Save that failed is made up for by the next
\* one: the file always has a beginning of what the session knows, and lacks,
\* once the turns are over, no turn but those of the Saves that failed last; a
\* group that was not appended is lost, and no other is.
ToolsFollowTurns ==
  /\ unsaved = {} /\ groupless = {} => IsPrefix(Tools, Turns)
  /\ \A s \in Sessions : life[s] = "live" =>
       /\ IsPrefix(Turns, history[s])
       /\ AtRest(s) => /\ Range(Turns) = Range(history[s]) \ unsaved
                       /\ Range(history[s]) = Range(Tools) \cup groupless
                       /\ groupless = {} => Tools = history[s]

\* A client that opens a chat while its only message is under way is shown it, in
\* the transcript or as the turn in flight (Manager.Inflight), at every moment from
\* Submit to the turn's end, and from then on unless its Save failed.
QuestionIsShown ==
  \A x \in Inputs \ Wakes :
    (proc[x] \in {"touch", "send", "queued"} /\ \A y \in Inputs \ {x} : proc[y] = "new")
      => x \in Range(Turns) \/ input[to[x]] = x \/ x \in unsaved

\* A message is answered once, whatever the callers, the queue and the
\* reopened sessions do: no turn is in the transcript twice.
AnsweredOnce == IsInjective(Turns)

\* Once CloseAll has returned no session of the chat runs: every loop has
\* ended and every pump has gone, those of sessions the reaper or a delete
\* had taken before it and of callers that raced with it included.
NothingRunsAfterShutdown ==
  shut = "closed" =>
    \A s \in Sessions : life[s] # "live" /\ pump[s] \notin {"drain", "flush"}

\* After CloseAll has returned no turn reaches the file: a workspace may be
\* moved to the trash under it.
TranscriptRestsAfterShutdown == [][shut = "closed" => IsPrefix(Turns', Turns)]_vars

\* Every message handed to Submit or sent by a wake is answered when nothing
\* closes the session, and its turn ends in the transcript unless its Save fails.
SubmittedIsAnswered ==
  \A x \in Inputs : (proc[x] \in {"touch", "send"}) ~> (x \in Range(Turns) \cup unsaved)

\* A session that is closed goes away: its loop ends and its pump exits,
\* although its stream may be full and its queue not empty.
ClosedSessionsEnd ==
  \A s \in Sessions : (s \in dead) ~> (life[s] = "ended" /\ pump[s] = "exited")

\* CloseAll returns, and so does every caller that raced with it.
ShutdownCompletes ==
  /\ (shut = "closing") ~> (shut = "closed")
  /\ \A x \in Inputs : (shut = "closing" /\ proc[x] \in {"touch", "send"})
                          ~> (proc[x] \in {"queued", "lost"})

\* A chat that is closed, by whatever path, is closed in the end.
ClosingEnds == ClosedSessionsEnd /\ ShutdownCompletes

(* What a comment in the code says, and a run refutes.                       *)

\* "so a running turn is shared, never duplicated" (Open): the transcript a turn extends is the one on
\* file, so that no Save takes back what another wrote.
TranscriptGrows == [][file # None /\ file' # None => IsPrefix(Turns, Turns')]_vars
=============================================================================
