----------------------------- MODULE HitlBroker -----------------------------
(***************************************************************************)
(* The approval broker (internal/hitl/broker.go) with the connections it   *)
(* presents approvals to (internal/serve/conn.go, approval.go, presence.go) *)
(* and the device at the other end of each (mobile approval.service.ts).   *)
(*                                                                         *)
(* A call of Ask is a process: it registers its approval, presents it to   *)
(* the active connections one after the other, waits for an answer, the    *)
(* timeout or its turn's end, and then clears every prompt, again one      *)
(* connection after the other.  A connection is three more: the read loop, *)
(* the writer that drains its bounded control queue, and the heartbeat.    *)
(* A Conns element is one connection, used once: a device that comes back  *)
(* does so on a new one.                                                   *)
(***************************************************************************)
EXTENDS Naturals, Sequences

CONSTANTS Asks,       \* calls of Broker.Ask
          Conns,      \* WebSocket connections, each used once
          Devices,    \* the devices that may approve
          DeviceOf,   \* [Conns -> Devices]
          Options,    \* option ids offered with every approval
          Deny,       \* any id that is not offered
          NoConn,     \* "no connection"
          QueueCap,   \* capacity of a connection's control queue (64)
          World       \* which things outside the broker's control happen

ASSUME BrokerAssumption ==
  /\ DeviceOf \in [Conns -> Devices]
  /\ NoConn \notin Conns
  /\ QueueCap \in Nat \ {0}
  /\ World \subseteq {"stall", "cut", "broadcast", "presence", "cancel"}
  /\ Deny \notin Options
  /\ (Options \cup {Deny}) \cap {"none", "refused", "timeout", "cancelled"} = {}

Answers  == Options \cup {Deny}
Verdicts == Options \cup {"none", "refused", "timeout", "cancelled"}

\* What travels to a device: an approval.request, an approval.resolved, or any
\* of the events the hub broadcasts.
Request(a)  == [type |-> "request", ask |-> a]
Resolved(a) == [type |-> "resolved", ask |-> a]
Event       == [type |-> "event"]
Messages    == [type : {"request", "resolved"}, ask : Asks] \cup {Event}

VARIABLES
  pc,         \* where each Ask is
  pending,    \* Broker.pending: the registered approvals
  ch,         \* the one-slot channel of each approval, "none" when empty
  at,         \* the connection an Ask is sending to
  todo,       \* the connections it has still to send to
  verdict,    \* what each Ask decided
  cancelled,  \* the asks whose turn was cancelled
  pushed,     \* the asks that took the out-of-band path

  sink,       \* Broker.sinks: each connection's presence, "absent" if not attached
  cpc,        \* where each connection's read loop is
  reshow,     \* the approvals a read loop has still to re-present
  queue,      \* each connection's control queue
  writing,    \* the connections whose writer goroutine is running
  link,       \* the socket: "up", "stalled" (the peer stopped reading), "cut"

  shown,      \* the prompts each device shows
  dropped     \* the prompts each device dropped because its user answered

askVars    == <<pc, at, todo, verdict>>
brokerVars == <<pending, ch, cancelled, pushed>>
connVars   == <<sink, cpc, reshow>>
wireVars   == <<queue, writing, link>>
deviceVars == <<shown, dropped>>
hitlVars == <<askVars, brokerVars, connVars, wireVars, deviceVars>>

AskStates  == {"idle", "route", "present", "wait", "conclude", "clear", "done"}
ConnStates == {"new", "attachCopy", "attachShow", "read", "activeCopy",
               "activeShow", "closed"}

BrokerTypeOK ==
  /\ pc \in [Asks -> AskStates]
  /\ pending \subseteq Asks
  /\ ch \in [Asks -> Answers \cup {"none"}]
  /\ at \in [Asks -> Conns \cup {NoConn}]
  /\ todo \in [Asks -> SUBSET Conns]
  /\ verdict \in [Asks -> Verdicts]
  /\ cancelled \subseteq Asks
  /\ pushed \subseteq Asks
  /\ sink \in [Conns -> {"absent", "active", "background"}]
  /\ cpc \in [Conns -> ConnStates]
  /\ reshow \in [Conns -> SUBSET Asks]
  /\ queue \in [Conns -> Seq(Messages)]
  /\ \A c \in Conns : Len(queue[c]) <= QueueCap
  /\ writing \subseteq Conns
  /\ link \in [Conns -> {"up", "stalled", "cut"}]
  /\ shown \in [Devices -> SUBSET Asks]
  /\ dropped \in [Devices -> SUBSET Asks]

BrokerInit ==
  /\ pc = [a \in Asks |-> "idle"]
  /\ pending = {}
  /\ ch = [a \in Asks |-> "none"]
  /\ at = [a \in Asks |-> NoConn]
  /\ todo = [a \in Asks |-> {}]
  /\ verdict = [a \in Asks |-> "none"]
  /\ cancelled = {}
  /\ pushed = {}
  /\ sink = [c \in Conns |-> "absent"]
  /\ cpc = [c \in Conns |-> "new"]
  /\ reshow = [c \in Conns |-> {}]
  /\ queue = [c \in Conns |-> <<>>]
  /\ writing = {}
  /\ link = [c \in Conns |-> "up"]
  /\ shown = [d \in Devices |-> {}]
  /\ dropped = [d \in Devices |-> {}]

-----------------------------------------------------------------------------
(* Sending.  conn.send waits for room in the queue or for the ctx it was   *)
(* given; conn.trySend never waits.                                        *)

HasRoom(c) == Len(queue[c]) < QueueCap

Enqueue(c, m) == queue' = [queue EXCEPT ![c] = Append(@, m)]

\* Continue a loop over the connections S (a map, so in any order), then go on
\* to the state "after".
SendNext(a, S, during, after) ==
  \/ /\ S = {}
     /\ pc' = [pc EXCEPT ![a] = after]
     /\ at' = [at EXCEPT ![a] = NoConn]
     /\ todo' = [todo EXCEPT ![a] = {}]
  \/ \E c \in S :
       /\ pc' = [pc EXCEPT ![a] = during]
       /\ at' = [at EXCEPT ![a] = c]
       /\ todo' = [todo EXCEPT ![a] = S \ {c}]

-----------------------------------------------------------------------------
(* Broker.Ask                                                              *)

Active   == {c \in Conns : sink[c] = "active"}
Attached == {c \in Conns : sink[c] # "absent"}

\* Register the approval, under the broker's lock.
Register(a) ==
  /\ pc[a] = "idle"
  /\ pc' = [pc EXCEPT ![a] = "route"]
  /\ pending' = pending \cup {a}
  /\ UNCHANGED <<at, todo, verdict, ch, cancelled, pushed, connVars, wireVars, deviceVars>>

\* Snapshot the active connections; with none, take the out-of-band path.
Route(a) ==
  /\ pc[a] = "route"
  /\ SendNext(a, Active, "present", "wait")
  /\ pushed' = IF Active = {} THEN pushed \cup {a} ELSE pushed
  /\ UNCHANGED <<verdict, pending, ch, cancelled, connVars, wireVars, deviceVars>>

\* One round of the presentation loop: conn.Approval with the asking turn's
\* ctx, so the send also ends, without a message, when that turn is cancelled.
Present(a) ==
  /\ pc[a] = "present"
  /\ \/ HasRoom(at[a]) /\ Enqueue(at[a], Request(a))
     \/ a \in cancelled /\ UNCHANGED queue
  /\ SendNext(a, todo[a], "present", "wait")
  /\ UNCHANGED <<verdict, brokerVars, connVars, writing, link, deviceVars>>

\* The decision an option id stands for (broker.pick).
Pick(o) == IF o \in Options THEN o ELSE "refused"

\* The three branches of the select: whichever is ready may be taken.
TakeAnswer(a) ==
  /\ pc[a] = "wait"
  /\ ch[a] # "none"
  /\ verdict' = [verdict EXCEPT ![a] = Pick(ch[a])]
  /\ ch' = [ch EXCEPT ![a] = "none"]
  /\ pc' = [pc EXCEPT ![a] = "conclude"]
  /\ UNCHANGED <<at, todo, pending, cancelled, pushed, connVars, wireVars, deviceVars>>

\* Fault: the timer is armed only on the out-of-band path.
TimeOutIfPushed(a) ==
  /\ pc[a] = "wait"
  /\ a \in pushed
  /\ verdict' = [verdict EXCEPT ![a] = "timeout"]
  /\ pc' = [pc EXCEPT ![a] = "conclude"]
  /\ UNCHANGED <<at, todo, brokerVars, connVars, wireVars, deviceVars>>

\* Fault: silence is taken for consent.
TimeOutApproves(a) ==
  /\ pc[a] = "wait"
  /\ verdict' = [verdict EXCEPT ![a] = CHOOSE o \in Options : TRUE]
  /\ pc' = [pc EXCEPT ![a] = "conclude"]
  /\ UNCHANGED <<at, todo, brokerVars, connVars, wireVars, deviceVars>>

TimeOut(a) ==
  /\ pc[a] = "wait"
  /\ verdict' = [verdict EXCEPT ![a] = "timeout"]
  /\ pc' = [pc EXCEPT ![a] = "conclude"]
  /\ UNCHANGED <<at, todo, brokerVars, connVars, wireVars, deviceVars>>

Abandon(a) ==
  /\ pc[a] = "wait"
  /\ a \in cancelled
  /\ verdict' = [verdict EXCEPT ![a] = "cancelled"]
  /\ pc' = [pc EXCEPT ![a] = "conclude"]
  /\ UNCHANGED <<at, todo, brokerVars, connVars, wireVars, deviceVars>>

\* conclude: unregister and snapshot every attached connection in one critical
\* section, then tell them one by one on a ctx that is never cancelled.
Conclude(a) ==
  /\ pc[a] = "conclude"
  /\ pending' = pending \ {a}
  /\ SendNext(a, Attached, "clear", "done")
  /\ UNCHANGED <<verdict, ch, cancelled, pushed, connVars, wireVars, deviceVars>>

Clear(a) ==
  /\ pc[a] = "clear"
  /\ HasRoom(at[a])
  /\ Enqueue(at[a], Resolved(a))
  /\ SendNext(a, todo[a], "clear", "done")
  /\ UNCHANGED <<verdict, brokerVars, connVars, writing, link, deviceVars>>

\* The asking turn is cancelled, at any moment of the call.
Cancel(a) ==
  /\ "cancel" \in World
  /\ pc[a] \in {"route", "present", "wait"}
  /\ a \notin cancelled
  /\ cancelled' = cancelled \cup {a}
  /\ UNCHANGED <<askVars, pending, ch, pushed, connVars, wireVars, deviceVars>>

-----------------------------------------------------------------------------
(* conn.serve: the read loop, with Broker.Attach, SetActive, Resolve and    *)
(* Detach where it calls them.                                             *)

\* serve starts the writer and attaches.  A device keeps one socket: it opens
\* the next only when the last one is no longer up.
Attach(c) ==
  /\ cpc[c] = "new"
  /\ \A e \in Conns \ {c} :
       DeviceOf[e] = DeviceOf[c] => cpc[e] = "new" \/ link[e] # "up"
  /\ sink' = [sink EXCEPT ![c] = "active"]
  /\ cpc' = [cpc EXCEPT ![c] = "attachCopy"]
  /\ writing' = writing \cup {c}
  /\ UNCHANGED <<askVars, brokerVars, reshow, queue, link, deviceVars>>

\* presentPending: copy the open approvals under the lock.
CopyPending(c) ==
  /\ cpc[c] \in {"attachCopy", "activeCopy"}
  /\ reshow' = [reshow EXCEPT ![c] = pending]
  /\ cpc' = [cpc EXCEPT ![c] = IF @ = "attachCopy" THEN "attachShow" ELSE "activeShow"]
  /\ UNCHANGED <<askVars, brokerVars, sink, wireVars, deviceVars>>

\* presentPending: send the copies, outside the lock.  The ctx is the
\* connection's own, which ends only when serve returns.
Represent(c, a) ==
  /\ cpc[c] \in {"attachShow", "activeShow"}
  /\ a \in reshow[c]
  /\ HasRoom(c)
  /\ Enqueue(c, Request(a))
  /\ reshow' = [reshow EXCEPT ![c] = @ \ {a}]
  /\ UNCHANGED <<askVars, brokerVars, sink, cpc, writing, link, deviceVars>>

\* Every copy is sent: on to the next command.
Resume(c) ==
  /\ cpc[c] \in {"attachShow", "activeShow"}
  /\ reshow[c] = {}
  /\ cpc' = [cpc EXCEPT ![c] = "read"]
  /\ UNCHANGED <<askVars, brokerVars, sink, reshow, wireVars, deviceVars>>

\* Fault: coming to the foreground does not re-present the open approvals.
SetActiveSilently(c, active) ==
  /\ "presence" \in World
  /\ cpc[c] = "read"
  /\ link[c] = "up"
  /\ sink' = [sink EXCEPT ![c] = IF active THEN "active" ELSE "background"]
  /\ UNCHANGED <<askVars, brokerVars, cpc, reshow, wireVars, deviceVars>>

\* presence.set
SetActive(c, active) ==
  /\ "presence" \in World
  /\ cpc[c] = "read"
  /\ link[c] = "up"
  /\ sink' = [sink EXCEPT ![c] = IF active THEN "active" ELSE "background"]
  /\ cpc' = [cpc EXCEPT ![c] = IF active THEN "activeCopy" ELSE "read"]
  /\ UNCHANGED <<askVars, brokerVars, reshow, wireVars, deviceVars>>

\* Fault: a later answer replaces the one that is waiting.
ResolveLastWins(c, a, o) ==
  /\ cpc[c] = "read"
  /\ link[c] = "up"
  /\ a \in shown[DeviceOf[c]]
  /\ shown' = [shown EXCEPT ![DeviceOf[c]] = @ \ {a}]
  /\ dropped' = [dropped EXCEPT ![DeviceOf[c]] = @ \cup {a}]
  /\ ch' = IF a \in pending THEN [ch EXCEPT ![a] = o] ELSE ch
  /\ UNCHANGED <<askVars, pending, cancelled, pushed, connVars, wireVars>>

\* approval.resolve: the device drops the prompt and sends the option; the
\* broker offers it to the approval's channel, which keeps the first.
Resolve(c, a, o) ==
  /\ cpc[c] = "read"
  /\ link[c] = "up"
  /\ a \in shown[DeviceOf[c]]
  /\ shown' = [shown EXCEPT ![DeviceOf[c]] = @ \ {a}]
  /\ dropped' = [dropped EXCEPT ![DeviceOf[c]] = @ \cup {a}]
  /\ ch' = IF a \in pending /\ ch[a] = "none" THEN [ch EXCEPT ![a] = o] ELSE ch
  /\ UNCHANGED <<askVars, pending, cancelled, pushed, connVars, wireVars>>

\* The same answer given while the device has no socket that is read:
\* ConnectionService.send discards it, and the prompt is dropped all the same.
AnswerLost(d, a) ==
  /\ a \in shown[d]
  /\ \A c \in Conns : DeviceOf[c] = d => cpc[c] # "read" \/ link[c] # "up"
  /\ shown' = [shown EXCEPT ![d] = @ \ {a}]
  /\ dropped' = [dropped EXCEPT ![d] = @ \cup {a}]
  /\ UNCHANGED <<askVars, brokerVars, connVars, wireVars>>

\* The read loop sees the socket's end and runs serve's deferred teardown; the
\* writer ends with it, for serve's return is what cancels the connection's ctx.
Teardown(c) ==
  /\ cpc[c] = "read"
  /\ link[c] = "cut"
  /\ cpc' = [cpc EXCEPT ![c] = "closed"]
  /\ sink' = [sink EXCEPT ![c] = "absent"]
  /\ writing' = writing \ {c}
  /\ UNCHANGED <<askVars, brokerVars, reshow, queue, link, deviceVars>>

-----------------------------------------------------------------------------
(* The writer, the hub, the heartbeat and the network.                     *)

\* What a device does with a message (ApprovalService.reduce).
Reduce(d, m) ==
  shown' = [shown EXCEPT ![d] = CASE m.type = "request"  -> @ \cup {m.ask}
                                  [] m.type = "resolved" -> @ \ {m.ask}
                                  [] OTHER               -> @]

\* conn.writer: a message goes to the device, or fails and ends the writer.  A
\* peer that stopped reading leaves the write hanging.
WriteOut(c) ==
  /\ c \in writing
  /\ queue[c] # <<>>
  /\ link[c] # "stalled"
  /\ queue' = [queue EXCEPT ![c] = Tail(@)]
  /\ IF link[c] = "up"
       THEN Reduce(DeviceOf[c], Head(queue[c])) /\ UNCHANGED writing
       ELSE writing' = writing \ {c} /\ UNCHANGED shown
  /\ UNCHANGED <<askVars, brokerVars, connVars, link, dropped>>

\* hub.broadcast reaches a connection between hub.add and hub.remove, and drops
\* the message when the queue is full.
Broadcast(c) ==
  /\ "broadcast" \in World
  /\ cpc[c] \in {"read", "activeCopy", "activeShow"}
  /\ HasRoom(c)
  /\ Enqueue(c, Event)
  /\ UNCHANGED <<askVars, brokerVars, connVars, writing, link, deviceVars>>

Stall(c) ==
  /\ "stall" \in World
  /\ cpc[c] \notin {"new", "closed"}
  /\ link[c] = "up"
  /\ link' = [link EXCEPT ![c] = "stalled"]
  /\ UNCHANGED <<askVars, brokerVars, connVars, queue, writing, deviceVars>>

Cut(c) ==
  /\ "cut" \in World
  /\ cpc[c] \notin {"new", "closed"}
  /\ link[c] = "up"
  /\ link' = [link EXCEPT ![c] = "cut"]
  /\ UNCHANGED <<askVars, brokerVars, connVars, queue, writing, deviceVars>>

\* A peer that no longer answers a ping has its socket closed.
Heartbeat(c) ==
  /\ cpc[c] \notin {"new", "closed"}
  /\ link[c] = "stalled"
  /\ link' = [link EXCEPT ![c] = "cut"]
  /\ UNCHANGED <<askVars, brokerVars, connVars, queue, writing, deviceVars>>

-----------------------------------------------------------------------------
AskStep(a) ==
  \/ Register(a) \/ Route(a) \/ Present(a)
  \/ TakeAnswer(a) \/ TimeOut(a) \/ Abandon(a)
  \/ Conclude(a) \/ Clear(a) \/ Cancel(a)

ConnStep(c) ==
  \/ Attach(c) \/ CopyPending(c) \/ Resume(c) \/ Teardown(c)
  \/ WriteOut(c) \/ Broadcast(c) \/ Stall(c) \/ Cut(c) \/ Heartbeat(c)
  \/ \E a \in Asks : Represent(c, a)
  \/ \E active \in BOOLEAN : SetActive(c, active)
  \/ \E a \in Asks, o \in Answers : Resolve(c, a, o)

BrokerNext ==
  \/ \E a \in Asks : AskStep(a)
  \/ \E c \in Conns : ConnStep(c)
  \/ \E d \in Devices, a \in Asks : AnswerLost(d, a)

BrokerSpec == BrokerInit /\ [][BrokerNext]_hitlVars

(* The goroutines of the daemon are scheduled.  A sender waiting on a full *)
(* channel is first in line when the writer makes room (Go hands the slot  *)
(* to the longest-waiting sender), hence strong fairness for the sends.    *)
(* Nothing is assumed of people, of their devices or of the network.       *)
Fairness ==
  /\ \A a \in Asks :
       /\ WF_hitlVars(Route(a)) /\ SF_hitlVars(Present(a))
       /\ WF_hitlVars(TimeOut(a)) /\ WF_hitlVars(Conclude(a)) /\ SF_hitlVars(Clear(a))
  /\ \A c \in Conns :
       /\ WF_hitlVars(CopyPending(c)) /\ WF_hitlVars(Resume(c))
       /\ SF_hitlVars(\E a \in Asks : Represent(c, a))
       /\ WF_hitlVars(WriteOut(c)) /\ WF_hitlVars(Heartbeat(c)) /\ WF_hitlVars(Teardown(c))

BrokerFairSpec == BrokerSpec /\ Fairness

-----------------------------------------------------------------------------
(* Safety *)

Queued(c, a) == \E i \in 1..Len(queue[c]) : queue[c][i] = Request(a)

\* While an Ask waits for its answer, every foreground connection whose read
\* loop is idle shows the approval, is about to receive it, or belongs to a
\* device whose user answered it.  It is what the two orders of broker.go are
\* for: Ask registers before it looks for active sinks, Attach and SetActive
\* register the sink before they copy the open approvals.
ActiveSeesOpen ==
  \A a \in Asks, c \in Conns :
    (/\ pc[a] = "wait" /\ a \notin cancelled
     /\ sink[c] = "active" /\ cpc[c] = "read" /\ link[c] = "up")
    => \/ a \in shown[DeviceOf[c]]
       \/ a \in dropped[DeviceOf[c]]
       \/ Queued(c, a)

\* An approval is granted only when the user of a device that was shown it
\* answered there: no timeout, cancelled turn, lost or late message approves.
ApprovedByPerson ==
  \A a \in Asks : verdict[a] \in Options => \E d \in Devices : a \in dropped[d]

\* The strengthening of the two that every step preserves.  Its parts: where an
\* Ask is tells whether it is registered, decided or sending; a prompt is only
\* cleared for an Ask that is past its decision; a read loop holds copies only
\* while it re-presents; and until its decision an approval is shown to, or on
\* its way to, every connection that counts as active.
FlowOf(a) ==
  /\ (a \in pending) <=> (pc[a] \in {"route", "present", "wait", "conclude"})
  /\ (verdict[a] = "none") <=> (pc[a] \in {"idle", "route", "present", "wait"})
  /\ pc[a] \in {"present", "clear"} => at[a] \in Conns
  /\ pc[a] \notin {"present", "clear"} => at[a] = NoConn /\ todo[a] = {}

AskFlow == \A a \in Asks : FlowOf(a)

ClearedLate ==
  \A c \in Conns : \A i \in 1..Len(queue[c]) :
    queue[c][i].type = "resolved" => pc[queue[c][i].ask] \in {"clear", "done"}

CopiesHeld ==
  \A c \in Conns : cpc[c] \notin {"attachShow", "activeShow"} => reshow[c] = {}

OnItsWay(a, c) ==
  \/ a \in shown[DeviceOf[c]] \/ a \in dropped[DeviceOf[c]] \/ Queued(c, a)
  \/ c = at[a] \/ c \in todo[a]
  \/ cpc[c] \in {"attachCopy", "activeCopy"} \/ a \in reshow[c]

ActiveCovered ==
  \A a \in Asks, c \in Conns :
    (/\ pc[a] \in {"present", "wait"} /\ a \notin cancelled
     /\ sink[c] = "active" /\ link[c] = "up")
    => OnItsWay(a, c)

AnswersGiven ==
  \A a \in Asks : ch[a] # "none" => \E d \in Devices : a \in dropped[d]

Inductive ==
  AskFlow /\ ClearedLate /\ CopiesHeld /\ ActiveCovered /\ AnswersGiven /\ ApprovedByPerson

(* Refinement *)

Approvals == INSTANCE Approver WITH
  asked  <- {a \in Asks : pc[a] # "idle"},
  answer <- [a \in Asks |-> IF verdict[a] = "none" THEN ch[a] ELSE "none"]

\* The broker implements the contract of gate.Approver: one question per call,
\* its first answer is never replaced, only an offered option approves, and
\* what is decided stays decided.
ImplementsApprover == Approvals!Spec

(* Liveness *)

\* "approvalTimeout bounds how long an Ask waits before failing closed (deny)"
\* (broker.go): every call of Ask returns.
AskReturns == \A a \in Asks : (pc[a] = "route") ~> (pc[a] = "done")
=============================================================================
