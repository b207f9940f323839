# nocturn in TLA+

nocturn is an assistant that runs as a daemon: a model calls tools on behalf of a person, in chats, in
spoken conversations and in agents that a schedule fires. What it may do is decided by a policy and,
where the policy says so, by the person, on a phone or at a terminal. This directory specifies the parts
where several goroutines, several devices or a crash can meet, checks the specifications with TLC on
small instances, and proves their safety properties for instances of any size with TLAPS.

Contents: 1 the system, 2 the modules, 3 the runs, 4 the proofs, 5 where the code and its comments
disagree, 6 what is not modelled, 7 the plan.

Run a configuration with `tlc -config MCVoice_voice.cfg MCVoice`, check the proofs of a module with
`tlapm Voice_proofs.tla`.

## 1. The system

### 1.1 Components

Paths are below `src/`. "State" is what the component keeps and others can disturb.

| component | state | operations | talks to |
|---|---|---|---|
| approval broker `internal/hitl/broker.go` | `pending` approvals, each with a one-slot channel; `sinks` with their presence | Ask, Attach, Detach, SetActive, Resolve | called by the gate; calls the connections; wakes a device by push |
| connections and hub `internal/serve/conn.go`, `serve.go` | a bounded control queue, a writer, a read loop, a heartbeat; the set of connections | serve, send, trySend, add, remove, broadcast | device on one side; broker, registry and chat on the other |
| gate `agentkit/gate` | none of its own: a policy and an approver per run | Check, Offerable, Recall | grant store, approver |
| grant store `internal/workspace/grantstore.go` | what is allowed now, what is durable, `grants.json` | Remember, Forget, List, reading the file | shared by every run of a workspace |
| turn guards `agentkit/guards.go` | the deadlines of a turn, its paused time, its token and agent counters | WithTimeout, Pause, budgets, spawn | parallel tool calls and agents of one turn share them |
| session `agentkit/session.go` | input queue, event stream, history, the running turn | Submit, loop, turn, Cancel, Close | the pump of the chat manager drains the stream |
| chat manager `internal/chat/manager.go` | live sessions by chat id, with running flag, input in flight, tool forest, idle time | Open, Submit, pump, observe, reap, Delete, CloseAll, Fire | sessions, chat store, connections |
| chat store `internal/chat/store.go` | one file per chat: messages, tool groups, metadata | Save, AppendTools, Touch, MarkRead, Delete, PruneAgent | written by loops, pumps and callers; tells the hub |
| reminders and wakes `internal/tools/reminders.go`, `wake.go` | pending entries, their file, their timers | create, schedule, fire, CancelByID, Cancel, Restore | notifier; chat managers |
| workspace lifetime `internal/workspace/lifecycle.go` | latch, stop handle, reload signal | Close, StartAgents, runScheduler | everything of a workspace |
| discovery snapshot `internal/workspace/snapshot.go` | the current snapshot, retired plugins | Reload, retire, closePlugins | turns take their tools from it; the scheduler its agents |
| extensions `internal/extension`, `internal/serve` commands | the folders of a workspace, their grants | Install, Add, Remove, discovery | library; grant store; reload |
| consents and OAuth `internal/workspace/mcpauth.go`, `internal/secret` | pending consents, token sources, the shard `secrets.enc` | Begin, Complete, Token, persist, wire | browser, vault, discovery |
| agent scheduler `internal/agent/scheduler.go` | due time per agent | Start, fireDue | fires agent runs |
| registry `internal/workspace/registry.go` | open workspaces by name, names being created | Create, Delete, Close | opens and closes workspaces |
| voice `internal/voice`, `internal/serve/voice.go` | one conversation per device, its calls, its silence timer, the credit of its speech | Start, Stop, CloseAll, Run, speak, interrupt | live model, connection, satellite |
| satellite `satellite/main` | a state machine, its event queue, its drivers, the playback ring | one handler per event, the speaker's task, the credit task | daemon over a WebSocket |
| mailbox `internal/mail/tools.go` | a kept IMAP connection, its generation, its idle timer | operations, retry, idle close | IMAP |
| knowledge `internal/knowledge/store.go` | index in memory and on disk | reconcile, Watch, search | embedding provider |
| device registry, pairing `internal/auth`, `internal/serve/device.go` | devices and their file, one-time codes, pending joins | Redeem, CapJoins, Join, Confirm, Forget | HTTP, hub, command line |
| library `internal/library` | the catalog in hand, its copy on disk, the floor of serials | Catalog, freshness check | web |
| terminal `internal/tui` | questions, overlays, focus, lists, the transcript on screen | one event loop | a workspace of its own process |
| companion app `mobile/src` | prompts, lists, one conversation; each a fold of what the daemon sends | reduce, resolve, list, open, mark read | one socket at a time |

Vault cryptography, MCP client, sandbox, model providers, skills and parsing, base tools, web UI and
numeric code are in PROJECT.json with the reason they are left out.

### 1.2 What is hard, and what makes each part correct

* **Approvals.** Ask, every connection's read loop and writer, the hub and the devices interleave;
  queues are bounded; sockets die at any moment. Correct: nobody but a person approves; one question
  has one outcome; a device in the foreground sees every open question; Ask returns.
* **Grants and gate.** Remember and Forget each change two structures under two locks and then a file
  whose write may fail; a Check reads the grants once and may then wait for minutes. Correct: what is
  revoked stays revoked, everything that passes rests on a yes that covers it, no yes lasts longer than
  the person said or the policy allows.
* **A turn.** Parallel calls pause one set of deadlines, bill one clock and spawn agents that spend from
  one pool. Correct: no deadline outruns its cap, waiting for a person costs nothing, a turn leaves no
  run behind and passes its limit by at most a round of each run.
* **Chat.** Callers, the session's loop, its pump, the reaper, a delete and the shutdown act on one
  chat; two bounded channels connect them. Correct: every message is answered once, tool groups line
  up with turns, the shutdown ends and leaves nothing running.
* **What screens show.** A snapshot, the turn in flight and a stream of events are read one after
  another; lists are read under a lock and told outside it; sockets are lost at any moment. Correct: at
  rest a screen shows what is stored, with what is on it read.
* **Timers.** A timer that went off races its cancellation, and a crash may fall between consuming an
  entry and delivering it. Correct: never twice, never after a confirmed cancel, not forgotten.
* **Lifetime and registry.** Close goes through its parts in order while turns, timers and reloads go on;
  a directory is opened and moved outside the lock. Correct: nothing is left running, nothing in use is
  taken away, no two creations open one name, what was deleted does not come back.
* **Extensions and credentials.** Folders, discovery, grants, tokens and records are changed by devices,
  callbacks, requests and reloads in steps nothing serialises. Correct: at rest the workspace works with
  what is on disk, the newest token is the one stored and used, nothing outlives what it was given for.
* **Voice.** A device wakes, hangs up, is replaced and cut off while its conversation runs tools that wait
  for a person, and speech is paced by credit that travels back. Correct: what runs can be stopped, it
  ends, no call is hung up on, the ring never overflows, the board comes back to its wake word.
* **Devices, mail, documents, catalog.** A device is forgotten while it connects; a connection is reaped
  while it is used; files change under an index; an older catalog is replayed. Correct: what is forgotten
  stays forgotten; nothing used is reaped; an index that met no change says what the folder says; the
  shelf does not go backwards.

PROJECT.json "hazards" has each of these at its line, with the property that catches it.

## 2. The modules

    Approver <= (refines) HitlBroker; GrantStore <- Gate  <- Approvals_proofs
    ChatManager (and ChatSpec of MCChat)                  <- ChatManager_proofs
    Timers <- Lifetime; SchedulerLoop;
      Extensions; Credentials                             <- Workspace_proofs
    VoiceSessions; VoiceCalls; SpeechCredit; Satellite    <- Voice_proofs
    Mailbox; Registry; RunTree; TurnClock;
      Household; Knowledge; Library                       <- Daemon_proofs
    Terminal; ChatLists                                   <- Screens_proofs
    Mirrors                                               <- Mirrors_proofs
    Conversation                                          <- Conversation_proofs

An arrow is EXTENDS. MCApprovals, MCChat, MCDaemon, MCDevices, MCVoice and MCWorkspace put components that
share no state beside one another in one run: a variable (`half`, `calm`, `part`, `place`, `side`) picks
the one a behaviour is about and the others rest as they begin. MCHitlBroker, MCTurnClock and
MCChatManager give a specification constants that a configuration cannot write down. A definition whose
comment begins with "Fault:" is a plausible bug in the definition that follows it; put in its place, the
property that PROJECT.json "mutants" names with it fails. PROJECT.json "map" has the lines of every
definition.

### 2.1 HitlBroker, the approval broker; Approver, what it promises

| state | in the code |
|---|---|
| `pc`, `at`, `todo`, `verdict` | where a call of Ask is: its presentation loop, its select, its conclusion |
| `pending`, `ch` | `Broker.pending` and the one-slot channel of each |
| `cancelled`, `pushed` | the ctx of the asking turn; whether the out-of-band path was taken |
| `sink` | `Broker.sinks` with presence |
| `cpc`, `reshow` | the read loop: reading, or re-presenting the approvals it copied |
| `queue`, `writing`, `link` | the control queue, the writer goroutine, the socket |
| `shown`, `dropped` | the device's prompts (`approval.service.ts`), and those its user answered |

Register, Route, Present, then TakeAnswer, TimeOut or Abandon, then Conclude and Clear are Ask, one
action per critical section or channel send. Attach, CopyPending, Represent, Resume, SetActive, Resolve
and Teardown are the read loop; Write is the writer; Broadcast is the hub, Heartbeat the ping. Stall and
Cut are the network. A `Conns` element is one connection, used once; a device that returns takes the
next. AnswerLost is the app discarding an answer given without a socket.

`Approver` has three actions: a question opens, its first answer is kept, it settles on that answer or
on a refusal. `Approvals == INSTANCE Approver` maps a question to open when its Ask has registered, and
its answer to the content of the channel until the verdict.

### 2.2 GrantStore and Gate

`mem`, `durable` and `file` are `MemGrants.set`, `grantStore.durable` and `grants.json`; `job` is the
call each goroutine has half finished. Remember and Forget are two actions each, because each takes two
locks one after the other; the write to a temporary file and its rename are part of the second, for a
crash before the rename is a crash before that half. A write may fail (`WritesFail`). Restart is
`newGrantStore` at any moment. `kept`, `revoked` and `failed` are histories: asked for good, forgotten by
a call that raced no approval of the same grant, a write has failed.

Gate extends it with `check`, the place of each run in `gate.Check`. Check and AskPolicy run up to the
question; Approve, with the two halves of Remember, and Refuse are after it; in between everything else
may happen. Offerable, Offers and Effective are the pure functions of `approver.go`, `options` and the
clamp in Check; a grant's matcher is the set of `<<grant, action>>` pairs it covers. `Unattended` runs
have a nil approver, `Careless` ones an approver that does not use Offerable. An action that its policy
allows or denies outright changes nothing, so Check is only about the asked ones. `given` is the history
of the longest yes to each grant, `last` the grounds on which the latest check passed.

### 2.3 TurnClock and RunTree

TurnClock: `armed`, `at`, `left`, `paused` and `fired` are the fields of `pausables` and `deadline`;
`banked` and `mark` the paused clock and a call's first reading of it; `holds` is what the resume closure
of a call captured. Start, Pause, Resume and Return are a tool call; Fire is a timer; Tick is time, and a
timer that is due goes off before it ticks again, which is what the runtime does up to its precision.
`charged` and `active` are histories: the time a deadline ran with nobody asked, the time a call ran
without waiting. `apart` says that nothing has run beside a call that waited so far.

RunTree: `runAt`, `runParent`, `runDepth`, `runSteps`, `runCost` and `runOpen` are one run each: where its
loop is, the run whose call it answers, the depth in its context, its rounds, and the calls of the round
under way. `turnSpent` and `turnSpawned` are the counters of `guards.go` that every run of the turn
shares; spawning counts first and looks at the limit afterwards, paying comes after a round. BeginTurn,
AskModel, Answer, ModelFails, CallTools, ToolReturns, Spawn, Pay, ChargeInVain, StopAtRound and
CancelTurn are its steps.

### 2.4 ChatManager

One chat. `active`, `shut`, `running`, `input`, `forest`, `aged` are the manager and its live record;
`life`, `cancelled`, `queue`, `stream`, `turn`, `history` a session; `pump`, `group` its pump; `proc`, `to`
the callers; `file` the record on disk, its turns and its tool groups. Whatever reads or writes it may fail
(`Fails`): Save, AppendTools, Touch, the deletion, and the load of a history, which then begins empty. The code
logs each and goes on; `unsaved` and `groupless` are histories of what that left out. A turn is named by its message, so
is the forest of its tool calls. Submit, Touch, Send are `Manager.Submit` (or a wake's Open and Send);
Take, EmitStart, Finish, Persist, EmitEnd, Leave the loop, with everything the model and the tools do in
between EmitStart and Finish; Observe, Flush, Exit the pump; Age, Reap, DeleteTake, DeleteFile, CloseAll
and CloseAllReturns what ends sessions, and Close the `Session.Close` that follows outside the lock.
Every event but TurnStart and TurnEnd is left out: it changes neither the file nor the record but for the
forest, which is gathered under the turn's name.

### 2.5 Conversation, one chat as a screen shows it

Here the other events are in. `loop` and `inputs` are the session, `emitted` its stream, `relay` the event
the pump is at, `flight` the live record (running, input, events, forest), `saved` and `groups` the file;
`screen`, `feed`, `reader` and `view` the screen: its socket, what is on its way to it, the snapshot it is
reading, its blocks. A phone (`serve/chat.go`, `chat-model.ts`) reads the snapshot in three steps of its
read loop and loses events when its queue is full; a terminal (`tui/app.go`, `transcript`) reads it on the
loop that folds. Both fold events with the same rules (`ApplyEvent`) and a snapshot with `SnapshotBlocks`.
`astray`, `interrupted` and `cut` are histories: an event missed or met twice, a notice below an answer
under way, a turn aborted.

### 2.6 ChatLists, the list of chats

`record` is the metadata on disk, `stamps` the clock each write of Updated draws from, `firer` and `session`
the call and the session that write it, `asked` the messages still to be answered. `inbox`, `outbox` and
`handler` are a device's connection, `list` and `viewing` what it holds (`chat-list.service.ts`). Fire,
Prune, Save, Touch, MarkRead and the listing each change or read under the lock of the store, and tell in a
later step. `writes`, `crossed` and `unmarked` are histories: the writes of a chat, the devices that got an
older record after a newer or missed one, those that had no socket while they showed a chat.

### 2.7 Timers and Lifetime; SchedulerLoop

Timers are the two stores, reminders and wakes: `items` in memory, `file` on disk, `armed` the runtime's
timers, `due` the callbacks that were started and have not taken the lock, `firing` what is consumed and
still to be delivered. Schedule, GoesOff, Fire, Deliver or Drop, CancelByID, Cancel and Restart are create
and schedule, `time.AfterFunc`, the locked half and the unlocked half of fire, and so on. Cancelling
stops a timer that has not gone off, and does nothing to a callback that has started. The time an entry is
for is left out: a timer may go off whenever it is armed.

Lifetime extends it. `closed` counts the steps of `Close` in the order of the code (`Place`); the mailbox
between plugins and voice has nothing the rest sees. A manager under CloseAll first latches, then waits
(module ChatManager has the inside of it). A turn is in `busy`; a turn of a chat is `using` the snapshot
that was current when it began; it may schedule timers. Swap and Retire are the two halves of Reload,
between which Close may come. Reopen is the end of the process and the next start.

SchedulerLoop: `starter` is the goroutine that runs StartAgents and runScheduler, stopping where it can be
interrupted: before it registers, after it took the reload signal and before it read the agents, in its
select, and while it waits for the scheduler it cancelled. `gens` are the schedulers that run. Snapshots
and signals are counted: `published` reloads have swapped, `signal` have signalled, `held` is the channel
the loop waits for, `reading` the snapshot it took. StopBackground is the first step of Close; Shutdown is
the end of the daemon's own context. A scheduler may return by itself at any time.

### 2.8 Extensions and Credentials

Extensions: `tree` is the folder of each name as the set of its files, `wanted` what whoever made it writes
into it, `handling` the command of each device and the step it has come to. An install looks (Stat), makes
the folder (Claim), writes its parts in a fixed order (WritePart), and takes the folder away when one fails;
a removal deletes, forgets the hosts, and spawns a reload. `waiting` and `scan` are the reloads, serialised
by `reloadMu`, which read servers and payloads in two passes over the tree; `inventory` is the snapshot,
`granted` the standing grants of hosts. `excused`, `missed`, `shared`, `torn` and `staying` are histories:
what the properties exempt by name.

Credentials: one discover-mode MCP server. `declared` says that its folder is there, `shard` is
`secrets.enc` (a token and a record), `pending` the consents begun, `source` the token sources made since
the start with the lock of each, `wired` the resolver of the injector, `pass` a discovery. `writer` are the
callbacks (TakeSession, Exchange, StoreToken, StoreRecord) and the requests (Match, Token, Compare, OpenShard,
StoreToken). A shard is read whole and written whole, in two steps. `unmixed` says that nothing came between
steps that belong together, `owed` that the folder changed and no pass has begun since.

### 2.9 Voice

VoiceSessions: `talkAt` is the goroutine of each conversation, `talkActive` and `talkClosed` the manager,
`lineAt` and `lineWaits` the read loops that start and stop conversations, `talkApart` a history: no entry
was put in the place of one that was still there.

VoiceCalls: one conversation. `callAt` is where each tool call is, `inflight` the table, `silence` the
timer, `light` what the device shows while somebody is asked, `runPhase` the run and its end, `overlooked`
the calls in hand that were not in the table when the timer was started: not yet, or withdrawn.

SpeechCredit: speech is counted, not named: `room` says how much of the ring's room is at each place, from
the sender's credit through the socket's queue, the wire, the ring and the codec back to the grants under
way. `backlog` is what was not charged yet. `talkOpen`, `boardIn`, `wakeSent`, `linked` and `flushDue` are
the ends of the conversation, `clean` and `overflowed` histories.

Satellite: `satState` and `satFacts` are the machine of `state.c`; `satDrivers` what it has switched on;
`satQueue` its event loop; `satNet`, `satSpeaker`, `satTalk` the tasks that post to it. Handle is one event
with exit and entry of the states it passes; events are lost when the queue is full and the build says so
(`SatLossy`).

### 2.10 Registry, Household, Mailbox, Knowledge, Library

Registry: `regSpaces` and `regCreating` are the maps under the lock, `regDoing` what each device's call does
outside it, `regOpen` and `regDirs` the directories that are open and on disk. Reserve, BeginOpen, OpenFails
and Insert are Create; Remove, Hook, FinishClose and MoveAway are Delete; StartAgain is the daemon.

Household: `rows` and `disk` are the devices and their file, numbered as they are made; `code` and `joins`
the two ways in; `socketOf` and `socketAt` the connections from Lookup to the hub; `doing` and `target` a
device.forget, which deletes, closes sockets, and renews the command line's credential in `cliFile`.
`forgotten` and `spoiled` are histories.

Mailbox: `mailCall` is where each operation is, `mailConn`, `mailFolder` and `mailGen` the fields under
`mu`, `mailTimer` the running idle timer and `mailFired` those that went off and wait for `mu`; `mailUsed`
is a history. UseKept, UseFresh, the steps of Operation with the one retry, TimerFires, Reap, CloseMailbox.

Knowledge: `folder` is what is on disk and changes at any moment; `cached`, `loaded`, `dirty` and `onDisk`
the index; `run` the document a reconcile comes to next and `seen` what its walk found. A document is
what it says and its timestamp, which renews when it is written.

Library: `held`, `cache` and `floor` are the catalog in hand, the copy on disk and the freshness floor;
`stage`, `copy` and `got` a lookup, which holds no lock. `answer`, `calm` and `saved` are histories.

### 2.11 Terminal and Mirrors

Terminal: `question`, `reply`, `given` and `overs` are `tui/approver.go`; `modal`, `panes` and `station` the
one event loop with the keyboard's place in the tab ring; `known` and `stored` the conversations shown and
on disk, each a kind and an id; `stage` and `opener` the start and the end of `tui.Run`. A row opens in the
store it was listed in, `/open` any id in the store the lists name for it, or else that of the chats; what has
no file opens empty. Opening, firing, touching and deleting may fail, and others write and delete meanwhile.
`overtaken`, `unsaid`, `allowed` and `found` (what is on screen was on disk when it was opened or written to, and nobody
else has deleted it) are histories. The framework (go-tui) is external: an event and the frame after it are
one step.

Mirrors: the lists of the companion app. A behaviour is about one `domain` (skills, servers, plugins, grants,
reminders, agents). `spaces` are the workspaces, `real` and `found` are the daemon's content and what discovery last found,
by the number of the change that made it; `jobs` are the reloads a command spawned, ReloadUnheard one that tells
nothing of this domain (`nocturn reload`, or after a change of another domain); `order` and `sent` commands, `line`,
`effects`, `shown`, `body`, `roster`, `activeName` and `stored` the phone's services. `behind` is a history:
what a phone was told last is known not to be the last word.

## 3. The runs

The capacities of queues are 1 or 2 for 64, 16 and 64 of the code: what matters of a queue is that it is
empty, full, or has something ahead of a message, and a short one is full more often.

| run | shows | bound |
|---|---|---|
| `approvals` | two devices race for an approval with broadcasts in their queues and a turn that may be cancelled: nothing approves by itself (ApprovedByPerson), the broker refines Approver, Ask returns. And kinds of run share a store with failing writes, revocations and restarts: PassesRestOnAYes, AnswersHold, GrantsEnd | 1 ask, 2 devices with a connection each, queue 1, links that work: asks share nothing but queues, and a broadcast stands for the other ask. 1 action under an exact grant and a wider one; a run per policy (remembered for good, for the session, careless); a run without an approver adds no step and is left to the proofs |
| `reconnect` | every open approval reaches the foreground connection across presence changes, dead links and a return (ActiveSeesOpen); the lists converge on the store (ListsHold); a chat read whole shows what was persisted (ConversationHolds); the terminal's questions, focus and overlays (TerminalHolds) | approval: 1 ask, 2 connections of one device, the second's link stays up. Lists: 2 runs of which 1 is kept, 1 device with 2 connections, queue 1, 2 stamps. Conversation: 2 messages, 2 rounds, one pump, both kinds of screen, 2 opens, 1 notice; the second message meets one-round turns. Terminal: 2 calls that ask, 1 chat, 1 agent run, each id also opened in the other store, 4 keys (1 while both ask); others write in the conversation on screen |
| `chat` | three messages, one a wake, while reads and writes of the file may fail: every one ends in the transcript unless its Save fails, the file lacks no other turn and no other group than those that failed, while none failed the groups follow the turns, a lone question is shown (CalmChatIsWhole, CalmChatAnswers). And CloseAll against callers, reaper and delete: NothingRunsAfterShutdown, TranscriptRestsAfterShutdown, AnsweredOnce, ClosedChatEnds | 3 messages and 1 session, or 2 messages and 2 sessions with the reaper or a delete, where writes of turns do not fail; queue and stream of 1, so that a caller waits for the queue while the loop waits for the stream |
| `workspace` | nothing is delivered twice or after a confirmed cancel (TimersHold); plugins outlive turns; after Close only timers made late run; what is pending goes off; one scheduler, which catches up and ends; CredentialHolds, ExtensionsHold | a reminder and a wake, a cap of one wake, 1 reload, 1 restart, writes that fail. 4 reloads for the scheduler: one can fall on any two successive places. 2 callbacks, 2 requests, 1 consent, 3 tokens, 2 passes. 2 devices, 1 extension of three parts, 3 commands: install, remove and install again overlap in every way |
| `daemon` | RegistryHolds, TurnHolds, ClockHolds, HouseholdHolds, KnowledgeHolds, LibraryHolds, MailboxHolds, MirrorsHold, each through its own interleavings | mailbox: 2 readers, 2 folders, 3 dials, 4 timers. Registry: 2 devices, 2 names, 5 opens, 1 restart. Tree: limit 2, depth 2, 2 spawns, 2 rounds of 2 calls. Clock: 2 calls, caps 2 and 1, time to 3. Household: 3 rows, 2 sockets, 1 pending join, 2 callers. Knowledge: 2 documents, 2 edits, 1 restart. Library: 2 serials, 2 lookups, 1 restart. Mirrors: 1 phone, queue 1, 2 changes, 1 command, 2 sockets in one domain, a switch in two, workspaces that come and go in one |
| `voice` | TalkHolds, CallsHold, CreditHolds, SatelliteHolds; TalksEndOnClose, ConversationEnds, BoardIsReleased | 2 connections, 3 conversations: the third is started while the first is being stopped. 2 calls, one registered and one not. Ring 2, socket queue 1, backlog 2, 2 wakes: a conversation with something of an earlier one on its way. Event queue 2, 1 sentence |
| `broker_stuck` | *violation* of AskReturns: Ask does not return when a writer is gone and its queue is full | 1 ask, 1 connection, queue 1, a link that breaks |
| `clock_overlap` | *violation* of WaitingIsFree: of two overlapping waits the first answer restarts the clock | 2 calls |
| `chat_overlap` | *violation* of TranscriptGrows: a reaped session and its successor save over each other | 3 messages, 2 sessions, the reaper |
| `lifetime_leak` | *violation* of NothingArmedAfterClose: a timer is armed after Close has returned | a reminder and a wake |
| `credit_starved` | *violation* of NeverStarves: interrupts leave speech without credit | as `voice` |
| `notice_drift` | *violation* of WatchedIsReopened: a notice below a streaming answer loses the rest of it | 1 terminal, 1 notice |

`CHECK_DEADLOCK FALSE` is said where the system may come to rest: every ask returns, a message is
submitted once, a closed workspace stops.

Bounds that are in a guard carry the word "bound" in the comment of their constant (`Horizon`, `MaxRestarts`,
`MaxReloads`, `MaxSwaps`, `MaxDials`, `MaxKeys`, …); the sets `Sessions`, `Conns`, `Asks`, `Inputs`, `Ids`,
`Talks` and the like bound by being used once each, as ids in the code are. The compositions restrict
further where two of a kind are alike (the first lookup is `l1`, the first run `r1`, the first question
`q1`), and where crossing everything with everything would say nothing more; each restriction is a named
conjunct with its comment in the MC module. The proofs do without any of them.

### Fairness

Fairness is assumed of goroutines, tasks and timers and of nothing else: not of people, devices, the
network, the reaper, or callers that have not begun.

* Weak fairness: a goroutine that can take a step takes it; a timer that is armed goes off. `Finish` in
  ChatManager is weakly fair because a turn ends by its caps (`turnTimeout` with the pausable clock, the
  approval timeout, the limit of rounds) or by the cancellation of its context.
* Strong fairness for a send on a full channel: the Go runtime hands a freed slot to the sender that has
  waited longest, so a sender is not passed over for ever although the queue may be full again each time
  one looks. This is Present, Clear and Represent in HitlBroker, and Send in ChatManager. The loop is the
  only sender of its stream, for which weak fairness does.
* In HitlBroker writers that run are fair while the link does not stall; TimeOut is fair because the timer
  exists once Ask is in its select. Heartbeat is fair: it is a ticker.
* In SchedulerLoop a cancelled scheduler returns, because it selects on its context; one that is not
  cancelled need not. WatchReturns is fair because a reconcile is given the context. RestartScheduler is
  fair because nothing stands between a swap and its signal.
* In Lifetime only timers and callbacks are fair: that turns end and Close proceeds is not needed.
* TalkFairness: the manager's own steps are taken, and a conversation whose context is cancelled returns,
  which `ConversationEnds` shows of one. One that is not cancelled need not.
* CallFairness: tools return, for their calls carry the context and the caps of a turn; a wait for a person
  ends for sure only when it is cancelled.
* SatFairness: the tasks of the board run and its clock ticks; the posts of the speaker and of the clock are
  strongly fair, because the queue may be full whenever they look; a voice.wake arrives or is lost.

In a composition the parts that rest are as they begin, where no fair step of theirs is enabled.

## 4. The proofs

All are machine-checked, for every value of the constants that the `ASSUME`s of the modules allow: any
number of asks, connections, devices, grants, runs, calls, messages, sessions, timers, chats, documents and
conversations, any caps and capacities. A module's invariant is a conjunction of named parts; each proof
takes one step per action, and the last step of a theorem is temporal. Of the safety properties the passing
runs check, every one is stated by a theorem.

### 4.1 Assumptions

Sizes are natural numbers, and at least 1 where the code has a constant that is; sets that are counted are
finite; a value that stands for "none" is in no set it is compared with. Beyond that:

* `LibraryAssumption`: a serial starts at 1, for 0 is what the code keeps for "never seen".
* `ExtensionAssumption`: in `Package` what announces an extension comes last among the files, which is the
  fixed order of writes in `install.go`. Without it AnnouncedIsWhole is false after a failed write.
* `MirrorAssumption`: the lists are among the six that `DeskOf` has a row for, one for each service of the app.

### 4.2 The theorems and their inductive invariants

* **Approvals_proofs**, the broker. BrokerTypeCorrect; InductiveInvariant (`Inductive`), from which follow
  ActiveConnectionsSeeOpenApprovals, NothingApprovesByDefault and BrokerImplementsApprover. ActiveSeesOpen
  alone is not inductive: it speaks of a waiting Ask and an idle read loop, and what keeps it true is
  where the approval is before that. `ActiveCovered` says so: until its decision an approval is shown,
  answered, queued, about to be sent by its Ask, or about to be copied or sent by the read loop, for every
  connection that counts as active. It needs `AskFlow` (where an Ask is tells whether it is registered),
  `ClearedLate` (a clearing message is for an Ask that is past its decision, so it cannot remove a prompt
  early) and `CopiesHeld`. `AnswersGiven` carries the person from the device to the verdict.
  The store and the gate. TypeCorrect and SessionGrantsEndWithTheSession by `KeptInv` (what Remember holds
  half way was asked for good too); RevocationsHold by `RevokedInv`: unless a write has failed the file is
  the durable set, and a forget that is alone has no remember of its grant beside it. OffersAreHonest about
  the pure function, for any recall and ceiling. GateImplementsStore: every step of the gate is a step of the
  store or leaves it alone, so the store's theorems hold behind the gate (GrantsEndInTime). CeilingsHold by
  `CeilingInv`; EveryPassRestsOnAYes from it and the store's invariant; NoAnswerIsNarrowed from
  OffersAreHonest; AnswersAlwaysHold from both.
* **ChatManager_proofs.** ShutdownInvariant: no session opens after the latch, a session has a pump as long
  as it has a loop, a pump exits only after its loop has ended; from it ShutdownIsFinal and NoTurnAfterShutdown.
  AnsweredAtMostOnce needs that a message is in one place at a time: with its caller, in one queue, in one
  turn, or in a transcript, and that a session's history extends only by what it took; a write that fails
  leaves the file alone, and a history that could not be loaded is shorter. CalmAlwaysWhole, of
  MCChat's specification, by `InOrder`: in a chat that nothing closes one session answers all of it, and its
  turns are one line. The events of the line are numbered, turn k starts at 2k-1 and ends at 2k; what the
  pump has heard is a beginning of them, the stream holds the next ones, and the loop owes the rest
  (`Owed`). The file is a beginning of the history and lacks of it exactly what is `unsaved` (`Saved`); of the
  turns the pump has heard the end of, each has its group on file, in hand, or is `groupless`, in order as
  long as none is (`Paired`, `Tried`). As a turn's Save is tried before its end is emitted, the pump never
  appends a group whose turn is neither on file nor unsaved.
* **Workspace_proofs**, the end of a workspace. `TimersInv`: a timer that went off never runs again, and
  unless a write has failed the files are the stores and an entry is in one place on its way from the store
  to its delivery (`OneWay`): TimersAreKept. `CloseInv`: after the step of Close for chats no chat is in a turn, plugins are released only
  after it, and past the step for a store what is armed of it was made late: PluginsStayOpen and
  CloseStopsWhatItFinds. GenerationsNeverOverlap by `OnlyThisPass`: the only scheduler that may run is that
  of the pass the loop is in, and none while the loop is before its start.
  What is installed in it: ExtensionsAlwaysHold. `FolderOK`: who is in a folder and what of it is there, for
  each step of an install or a removal, as long as the folder was not made twice; an announcing file is there
  only when everything before it is. `FreshOK`: what a reload has read is on disk, or a change came since and
  another reload waits (`Doomed`, `Covered`). `GrantOK`: a grant of a host nobody declares is one somebody is
  about to forget, or excused. CredentialAlwaysHolds by `WritersOK` (where a callback or a request is tells
  which token it has in hand), `PassOK` (a pass that an extension has outlived takes its source out of use)
  and, as long as nothing came between steps that belong together, `KeptOK`: a callback stores alone
  (`StoringOK`), nobody writes a shard another has changed since it was read (`WritesOK`), the shard pairs
  the newest token with its record when nobody is at it (`AtRestOK`), and of the source in use the newest
  token is on disk or a request is at it (`InUseOK`).
* **Voice_proofs.** TalkHolds and CallsHold are inductive as they stand: while no entry is written over, a
  conversation that runs is the entry of its device or cancelled; while the silence timer runs, what is in
  hand is among the `overlooked`. As these are not in the table, that rests on TurnDone finding the table empty
  and on CallMade stopping the timer. CreditAlwaysHolds by `Balanced`: in a conversation that began with nothing
  left, either the two ends agree on it and what is at all the places adds up to the ring (`Agreed`), or its
  wake with the whole ring behind it is on its way and nothing else is (`Woken`), or that wake was lost with
  the link (`Lost`). SatelliteAlwaysHolds: the invariant is inductive as
  it stands; the work is that exit and entry of any two states compose (`GoKeeps`).
* **Daemon_proofs.** ClockAlwaysHolds by `Fits`: what a deadline was charged and what it has left never exceed
  its cap, whether it runs, is stopped or has fired; with equality as long as `apart`. TurnAlwaysHolds: the
  tokens beyond the limit are those of one round for each run that was told of it, which it is once, as it
  ends (`PaidOnce`, `ToldHasEnded`).
  RegistryAlwaysHolds: a creation holds its name from Reserve to Insert, over the steps outside the lock,
  and what a Delete closes is apart from what can be found.
  HouseholdAlwaysHolds: a row's number is never given twice, so that what was forgotten cannot come back, and the command line's
  file names a row that is there unless somebody is renewing it or it was `spoiled`. KnowledgeAlwaysHolds: a timestamp
  tells what a document says, and the run has entered what its walk found up to where it is (`RunFollows`).
  LibraryAlwaysHolds: as long as it is calm there is one lookup, what it takes is the floor itself, and no
  answer was above the floor (`CalmOrder`); as long as all was saved, the shelf holds the last answer or a
  new one is on its way to it (`SavedRest`). MailboxAlwaysHolds: one
  operation holds `mu`, with the generation standing where it took the connection into use
  (`HeldByTheOperation`), and a connection nobody holds was used before its timer was armed
  (`RestsSinceItsUse`); that the reaper takes nothing used since is an action property, from the same parts.
* **Screens_proofs.** TerminalAlwaysHolds by `QuestionInv` (a question is on screen, replaced, answered, or
  its end is on the way) and `PaneInv` (the tab ring has an element for the keyboard after every redraw, and
  what was found is stored: whatever deletes it either takes it off the screen or is `found`'s exception).
  ListsAlwaysHold by `ListInv`. Convergence at rest needs to know where each piece of news is at any moment:
  nothing anybody tells is newer than the record (`TellersAreValid`); for a device that is not `crossed`, the
  record of each chat is with a call that will tell it, in a listing it has asked for, in its queue, or in its
  list (`DevicesHear`), and its queue is in order; a mark that is due is on its way (`MarksCome`); what was
  shown without a socket is unmarked (`AwayIsUnmarked`); and pruning removes at least what the newest fire
  added (`PruningSuffices`), by counting.

* **Mirrors_proofs.** MirrorsAlwaysHold. MirrorsHold speaks of phones at rest, so again the invariant says where
  the news is before that. `Solid`: the shapes; no message tells more than there is to tell (`SoundNews`); which
  news a command or a reload can have in hand at which step (`InHandHolds`). `PhoneHolds`, for each phone that is
  connected and each thing it shows (`RosterHolds` for the workspaces, `ActiveHolds` for the one it is in,
  `ListHolds` for its list, `BodyHolds` for the text of a skill): it will ask, has asked, is being answered,
  somebody is about to tell it, or the last message of that kind on its line, or else what it shows, is what
  the daemon has; otherwise it is counted in `behind`, as after a reload that told nobody of what it found. Two arguments carry all actions: a step that leaves a
  phone and what it waits for alone (`PhoneKept`), and a step that puts one message on the line or drops it
  (`PhoneTold`).
* **Conversation_proofs.** ConversationAlwaysHolds. ConversationHolds speaks of a chat and a screen at rest; the
  invariant says how much of the chat has been seen at each place on the way. A *progress* (`Progress`) is so
  many turns whole and, of the one after them, so many texts, calls and returns; an event comes at one progress
  (`Leads`) and leaves another (`After`). `ChatInv`: a turn is where its round says (`LoopHolds`); a question is
  in one place (`EachOnce`); each event in the stream comes where the one before it left, and after the last
  comes what the loop emits next (`StreamHolds`); the turn in flight and the groups are what the pump has
  observed up to its next event (`PumpHolds`, `GroupsHold`). `ScreenInv`: a view, or a clean snapshot on its way,
  `Fits` the progress the next event behind it comes at, so the events fold it on to what the file will have
  (`FeedHolds`); a reader that is still clean has read what is there (`ReaderHolds`). A view fits a progress
  when it shows the answers of the turns before it and ends in the answer under way; answers of turns that are
  cut short are left out of the comparison (`Kept`), and as more turns may be cut later, it is made for every
  larger set of them. Three things carry the actions: what one event does to a view that fits (`FitsStep`), that
  a fresh seed fits (`SeedFits`), and that what is behind the feed stays so as the chat goes on (`Moves`, `Joins`).

The fold of a list of events, the blocks of a file and the answers of a view are recursive functions. The
library's induction theorems take a predicate, which the provers cannot instantiate; Conversation_proofs proves
one about sets first (`NatInductionInSets`, by counting a finite set without its least member), and from it that
a recursive function exists and is unique, so that each fold can be reasoned about one element at a time.

Proving found what runs had not: in Terminal, Conversation and Mirrors a `CASE` had two guards that could
hold together; TLC takes the first, the logic either. They are nested conditions now, in the order of the
code. In Mirrors the invariant could not be shown of a step that tells a list, because every message, whatever
its kind, set the mark "a body of this is behind" anew: a phone was excused for news it had not missed. A
message now touches only the marks it settles (`SettledBy`), and MirrorsHold excuses less. In Conversation the part
about screens was not inductive at first: nothing said that only a screen that is on reads a snapshot, and that
on the terminal it has lost its place by then. Both are true (`KindsHold`), and TLC checked the invariant before
it was proved.

### 4.3 What is only model-checked

* Liveness, which TLAPS does not prove under fairness: AskReturns, CalmChatAnswers, ClosedChatEnds,
  EveryTimerGoesOff, SchedulerCatchesUp, BackgroundEnds, TalksEndOnClose, ConversationEnds, BoardIsReleased.
* The six violations.

## 5. Where the code and its comments disagree

Six runs show a disagreement (PROJECT.json "findings"):

1. **`broker_stuck`** (`broker.go:217`). The presentation loop sends to each active connection before the
   approval timer exists; `conn.send` gives up only when the asking turn is cancelled. With the writer
   gone and the queue full Ask hangs. `broker.go:23` says the timeout bounds how long an Ask waits.
2. **`clock_overlap`** (`guards.go:184`). A deadline is running or paused, with no count of who waits. Of
   two overlapping waits the first to end restarts it, and the other is charged. `session.go:110` says
   that time spent waiting does not count.
3. **`chat_overlap`** (`manager.go:366`). The reaper takes a session out of the map and nobody waits for
   it. A message submitted just before it ran starts a turn there, the next Open loads the file, and the
   later of the two saves takes the other's turn back. `manager.go:85` says that a turn is never
   duplicated.
4. **`lifetime_leak`** (`lifecycle.go:30`). Close cancels the timers before it closes the managers. A turn
   that is still running makes a reminder or a wake, which is armed when Close has returned.
   `lifecycle.go:22` says "It must stop ALL of them".
5. **`credit_starved`** (`serve/voice.go:423`). An interrupt empties the audio queue of the connection; the
   frames in it were charged to the credit of the device, which never sees them and never credits them.
   After enough interrupts the sender has speech and no credit. `voice.go:417` says the credit "counts room
   in the device's queue", which discarding the backlog does not change; `audio_out.c:295` names the
   consequence for its own flush.
6. **`notice_drift`** (`transcript.go:190`). A notification is put below the answer that streams, and every
   later event of that answer is dropped by the terminal that watches. `transcript.go:86` says that
   reopening and watching "render identically".

Others were met while the models were written and proved. No property is stated for them now, or a
property excepts them by name; each is a scenario of the module named, in its actions.

**HitlBroker**
* A read loop that waits in `conn.send` (re-presenting after `presence.set`) does not read, so the close of
  its socket does not end it and its teardown never runs, against `conn.go:167`.
* `presentPending` copies under the lock and sends outside it. An approval concluded in between is presented
  after its `approval.resolved`, and stays on the screen, against `broker.go:234`.
* Whether to push is decided once. If the only active connection dies with the request in its queue, nobody
  is shown it and nobody is woken, against `broker.go:182`.

**GrantStore**
* The halves of a Remember and a Forget of one grant can interleave so that the grant is durable and not
  standing: not allowed now, allowed again after a restart, against `grantstore.go:82`.
* After a failed write the grant stays in the durable map, so List shows it as durable and a later Remember
  of it does not try again, against `grantstore.go:51`.

**TurnClock**
* The waits of all calls are banked on one counter, so a sibling's wait shortens the reported duration of a
  call that did not wait, against `guards.go:136`.
* A wait stops the budget of a guest that goes on executing in a sibling call, against `sandbox/engine.go:98`.

**ChatManager**
* The reaper looks at a flag that the pump sets after TurnStart, so it can take a session that a message was
  just submitted to, against `manager.go:24`.
* The turn that Delete interrupts saves afterwards and brings the file back, against `manager.go:382`.
* The TurnEnd of a turn that the shutdown interrupts may be dropped after its transcript was saved; its tool
  group is missing, and the groups of later turns are one place off, against `store.go:85`.
* A caller that was given a session before CloseAll touches the file after it has returned. Fire avoids this
  on purpose (`manager.go:147`), Submit does not.
* A failed AppendTools is only logged (`manager.go:246`): the groups of all later turns are one place off,
  against `store.go:204` ("to stay index-aligned with the turns"). The same follows in a new chat when the Touch
  and the Save of its first turn both fail: there is no record yet, and AppendTools does nothing.
* A turn whose Save failed is shown nowhere once it has ended, in flight or in the transcript, until the next
  turn's Save brings it back, which is never if the session ends first; `manager.go:173` counts on it ("the
  transcript persists at close regardless").
* A history that could not be loaded begins empty (`session.go:148`), and the next Save writes over the
  transcript that is on disk.
* There is one input in flight per session. A message submitted during a turn replaces that turn's question,
  and the turn's end clears it, against `manager.go:122`; a wake never sets it.

**Conversation**
* `serve/chat.go:227` and the terminal's openIn read the transcript, the tool groups and the turn in flight
  one after another: between a turn's save and its TurnEnd the turn is in both. Events that were observed and
  still wait in the pump or the feed when the snapshot is read are folded twice.
* A TurnStart caused elsewhere does not set the screen's running flag, and what others ask is not shown until
  the chat is opened again. A failed turn has no assistant's bubble in a snapshot.
* The partial text of an aborted turn was streamed and is not persisted (`session.go:190`).

**ChatLists**
* A broadcast is told outside the lock and can arrive out of order: an older record replaces a newer one.
  MarkRead does nothing when the record is read already, so the device keeps the unread dot until it lists
  again. A list that was read before an activity and is sent after it overwrites it.
* A chat on screen whose turn ended while the socket was down stays unread after the reconnect.
* PruneAgent can delete a run whose fire or turn is under way, against `agents.go:128` ("the fresh run … is
  kept"); Touch or Save then makes the record again, without its owner. Pruned runs are not told to devices.

**Timers, Lifetime, SchedulerLoop**
* A wake that goes off during Close is consumed on disk and refused by its manager. The code logs the loss.
* If Close releases the plugins between a reload's swap and its retirement, the plugins retired afterwards
  are never released.
* Close cancels the background work and does not wait for it: a reconcile may still be running when the
  directory moves, which `lifecycle.go:26` has in mind.

**Registry**
* A name is free as soon as Delete has taken it from the map: the directory is then opened by the new
  creation while the old workspace still has it open, and the rename that ends the Delete moves the
  directory of the new one.

**VoiceSessions, VoiceCalls**
* "One conversation per device" does not hold when it is restarted twice at once: after its wait nobody looks
  at the entry again (`manager.go:140`), the second start writes over the first, which nobody can stop then.
* A call is spawned before it is in the table, so the end of the turn may start the silence timer with the
  call in hand and hang up on it. A call that is withdrawn by id before it is in the table runs on.
* Of two calls that wait for a person the first answer turns the light off.

**SpeechCredit**
* The comment on deviceSink (`voice.go:250–269`) says that the rate is TCP's problem and that a credit window
  was built and given up; the code below it paces speech by exactly such a window (`voice.go:334`).

**Household**
* A renewal of the command line's credential that fails after the row was forgotten leaves a file that opens
  nothing; so does a row that is forgotten between its minting and the write of the file.

**Library**
* Lookups that overlap may put an older catalog in hand than one before. A stop between the raise of the
  floor and the write of the cache leaves an offline copy that the floor refuses.

**Credentials**
* A takes token T1, it expires, B refreshes to T2 and persists, A persists T1 over it: the refresh token on
  disk is one the server no longer honours.
* A reload between the store of the token and the store of the record pairs the new token with the old
  record; a stop there, or a failed write, leaves a token without a record.
* Writes of a shard through separate handles overlap and lose updates.
* A refresh that is persisted after the removal makes the folder again with `secrets.enc` in it, and Install
  then refuses the name.
* `auth.callback` does not reload: the source in use stays the old one and may write over the new token. A
  binding that was seeded before the authorization stays static between Reset and SetResolver.

**Extensions**
* Two installs both pass Stat and then MkdirAll; when one fails, its RemoveAll takes the other's folder,
  against `install.go:62`. A stop between two announcing files leaves a partial folder that discovery finds,
  against `install.go:50`.
* A failed install, removal or discovery spawns no reload. A removal that failed midway and is repeated, and
  a stop between the delete and the forgetting, leave the grant. `plugin.remove` and `mcp.remove` revoke only
  the hosts of their own payload.
* Lists broadcast by overlapping reloads may arrive out of order; the removal of a plugin whose folder also
  has a server broadcasts no list of servers.

**Terminal**
* With two questions at once the second takes the first one's place on screen, the first is never shown again
  and waits without a timeout, against the comment of `approver.go`.
* A workspace that was opened as the loop stopped is left with the goroutine that opened it.
* `/open` of an id that is in neither list, one that was deleted, mistyped, or a run not listed yet, takes it for
  a chat and shows an empty one; a message there makes a chat of that id. `command.go:53` says it opens
  "whichever manager owns it". If both stores have the id, delete takes the chat whichever row was armed.
* A fire whose owner could not be stamped returns its id as if the run had begun (`manager.go:152`): an empty,
  read-only transcript opens, against `command.go:112` ("no window where this opens an empty transcript").

**Mirrors**
* A skill's body that was read before a change and is delivered after the list that cleared the cache stays,
  against the comment that the cache "cannot leave a stale one". AgentService never clears its list when the
  workspace is switched.
* `loadActive` may put a stale name back after the daemon's list chose one; the refused list command is not
  repeated when that workspace is made later.
* `reconnectNow` while the socket is closing leaves two sockets that deliver (`connection.service.ts:80`).
* `nocturn reload` (`reload.go:55`) tells no device what it found, and the reloads after a change of skills
  (`skill.go:187`) and of plugins (`library.go:207`, `plugin.go`) publish a new set of servers without an
  `mcp.list`: a phone shows the old one until it lists again, against `reload.go:31` ("discovery decides both").
* `workspace.reload` tells only skills and servers; grants remembered by the gate are not told to devices; a
  failed reload leaves an announced "connecting" server, or a removed one, standing.

Met outside the modules, in the MCP client: a clash of names leaves a tool count beside a status that is not
"connected", against its comment; a session that expired (404) is not opened again until a reload, and later
401s leave the status at "connected".

## 6. What is not modelled

Listed with their reasons in PROJECT.json: notifications and push, agent definitions, memory, the MCP client,
the sandbox with plugins and scripts, base tools, model providers, the runtime's composition of tool sets,
the HTTP surface, the recogniser of speakers and the ONNX engine, the web UI and the command line, and the
rest of the companion app: I/O, numeric code, presentation or pure parsing, with no state that two actors
share. Inside what is modelled: the text of messages and the layout of files; embedding, chunking and
ranking; cryptography; cron expressions, due times and the catch-up window; compaction of a history; the gate
and the scan of a reminder's text, which only refuse; titles; the transcript, the recogniser and the
microphone's path of a spoken conversation; the codec and the network stack of the satellite; consents of
plugins and of manually declared servers. Conversation and ChatLists assume that the reads and writes of the
store succeed; what their failures do to the file is in ChatManager.

## 7. The plan

Done: the components above, each with its runs; an inductive invariant and theorems for every module.

Next, in this order:

1. A refinement between Conversation and ChatManager: the events other than TurnStart and TurnEnd are
   stutters of the manager.
2. More of the code: the MCP client's sessions, the catch-up of the scheduler over a wall clock that repeats or
   skips an hour, the consents of plugins, speaker enrolment.
