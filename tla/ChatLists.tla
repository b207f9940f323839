----------------------------- MODULE ChatLists -----------------------------
(***************************************************************************)
(* The list of chats as every device shows it: the metadata the chat store *)
(* keeps (internal/chat/store.go), what a fire and a turn write there, the *)
(* cap on the runs of an agent (internal/workspace/agents.go), and the     *)
(* devices, which list on connecting, fold each activity and mark read     *)
(* what is on their screen (chat-list.service.ts).                         *)
(*                                                                         *)
(* The chats are the runs of one agent; what a device says in one goes the *)
(* way of any chat.  Every write of a record is told outside the store's   *)
(* lock.  A broadcast is one step: the queues of two devices have no order *)
(* between them.                                                           *)
(***************************************************************************)
EXTENDS Naturals, Sequences, FiniteSets

CONSTANTS
    Runs,           \* ids of the runs of one agent
    Kept,           \* maxRuns
    Screens,        \* devices
    LineRoom,       \* capacity of a connection's queue
    MaxStamps,      \* bound: times a record is written anew
    MaxLines,       \* bound: connections a device opens
    MaxLooks        \* bound: chats a device opens

ASSUME ListAssumption ==
    /\ Kept \in Nat /\ LineRoom \in Nat \ {0} /\ {MaxStamps, MaxLines, MaxLooks} \subseteq Nat

VARIABLES
    record,         \* per chat: its metadata on disk
    stamps,         \* the clock: each write of Updated draws the next time
    firer,          \* per chat: the call that fired it or submitted to it
    asked,          \* per chat: messages its session has still to answer
    session,        \* per chat: the session's save of a turn
    online,         \* the devices that are connected
    inbox,          \* per device: the queue of its connection
    outbox,         \* per device: the commands it has sent
    handler,        \* per device: the command its read loop is in
    list,           \* per device: ChatListService._chats
    viewing,        \* per device: the chat on screen, at most one
    lines,          \* per device: connections opened so far
    looks,          \* per device: chats opened so far
    writes,         \* history: writes of a record, per chat
    crossed,        \* history: devices that got an older record after a newer, or missed one
    unmarked        \* history: devices that lost their socket, or had none, as they showed a chat

listVars == <<record, stamps, firer, asked, session, online, inbox, outbox, handler, list, viewing, lines,
              looks, writes, crossed, unmarked>>
desks == <<online, inbox, outbox, handler, list, viewing, lines, looks, crossed, unmarked>>

NoRecord == {}                          \* no file; else one record
NoChat == {}                            \* nothing on screen; else one chat
Quiet == [at |-> "quiet", meta |-> NoRecord, victims |-> {}]
Metadata(c, r) == [id |-> c, owned |-> r.owned, updated |-> r.updated, read |-> r.read,
                   version |-> r.version]

ListInit ==
    /\ record = [c \in Runs |-> NoRecord] /\ stamps = 0
    /\ firer = [c \in Runs |-> Quiet] /\ session = [c \in Runs |-> Quiet]
    /\ asked = [c \in Runs |-> 0]
    /\ online = {} /\ inbox = [s \in Screens |-> <<>>] /\ outbox = [s \in Screens |-> <<>>]
    /\ handler = [s \in Screens |-> Quiet]
    /\ list = [s \in Screens |-> {}] /\ viewing = [s \in Screens |-> NoChat]
    /\ lines = [s \in Screens |-> 0] /\ looks = [s \in Screens |-> 0]
    /\ writes = [c \in Runs |-> 0]
    /\ crossed = {} /\ unmarked = {}

Records == [owned : BOOLEAN, updated : 0..MaxStamps, read : 0..MaxStamps, version : Nat]
ListTypeOK ==
    /\ \A c \in Runs : record[c] = NoRecord \/ \E r \in record[c] : record[c] = {r} /\ r \in Records
    /\ \A c \in Runs : firer[c].at \in {"quiet", "owned", "fire", "say", "told", "prune"}
    /\ \A c \in Runs : session[c].at \in {"quiet", "tell"} /\ asked[c] \in 0..MaxStamps
    /\ \A s \in Screens : handler[s].at \in {"quiet", "tell", "reply"}
    /\ \A s \in Screens : Len(inbox[s]) <= LineRoom
    /\ online \subseteq Screens /\ {crossed, unmarked} \subseteq SUBSET Screens
    /\ \A s \in Screens : viewing[s] \subseteq Runs

-----------------------------------------------------------------------------
(* The store.  Fresh is the record a write makes where there is none: only *)
(* SetOwner gives one an owner.                                            *)
Fresh == [owned |-> FALSE, updated |-> 0, read |-> 0, version |-> 0]
Current(c) == IF record[c] = NoRecord THEN Fresh ELSE CHOOSE r \in record[c] : TRUE
Put(c, r) ==
    /\ writes' = [writes EXCEPT ![c] = @ + 1]
    /\ record' = [record EXCEPT ![c] = {[r EXCEPT !.version = writes[c] + 1]}]

\* Save and Touch, as far as the list is concerned: Updated is now.
Stamp(c) ==
    /\ stamps < MaxStamps /\ stamps' = stamps + 1
    /\ Put(c, [Current(c) EXCEPT !.updated = stamps + 1])

\* What fireSaved is given: the record as it was written.
Saved(c) == CHOOSE r \in record'[c] : TRUE

(* hub.broadcast: whoever has no room misses it. *)
Known(s) == list[s] \cup UNION {inbox[s][i].meta : i \in 1..Len(inbox[s])}
Late(s, m) == \E n \in Known(s) : n.id = m.id /\ n.version > m.version
HasLine(s) == s \in online /\ Len(inbox[s]) < LineRoom
TellAll(m) ==
    /\ inbox' = [s \in Screens |->
                    IF HasLine(s) THEN Append(inbox[s], [kind |-> "activity", meta |-> {m}])
                    ELSE inbox[s]]
    /\ crossed' = crossed \cup {s \in online : ~HasLine(s) \/ Late(s, m)}

-----------------------------------------------------------------------------
(* Manager.Fire: SetOwner makes a record that was never updated, and opens *)
(* the session; Touch follows outside the manager's lock, then the turn is *)
(* submitted.  FireAgent then prunes.  A message (Submit) touches alike.   *)
Fire(c) ==
    /\ firer[c] = Quiet /\ writes[c] = 0
    /\ Put(c, [Fresh EXCEPT !.owned = TRUE])
    /\ firer' = [firer EXCEPT ![c] = [Quiet EXCEPT !.at = "owned"]]
    /\ UNCHANGED <<stamps, asked, session, desks>>

Touch(c) ==
    /\ \/ firer[c].at = "owned"
       \/ firer[c] = Quiet /\ writes[c] > 0
    /\ Stamp(c)
    /\ firer' = [firer EXCEPT ![c].at = IF @ = "owned" THEN "fire" ELSE "say",
                             ![c].meta = {Metadata(c, Saved(c))}]
    /\ UNCHANGED <<asked, session, desks>>

Told(c) ==
    /\ firer[c].at \in {"fire", "say"}
    /\ \E m \in firer[c].meta : TellAll(m)
    /\ asked' = [asked EXCEPT ![c] = @ + 1]
    /\ firer' = [firer EXCEPT ![c] = IF @.at = "fire" THEN [Quiet EXCEPT !.at = "told"] ELSE Quiet]
    /\ UNCHANGED <<record, stamps, session, writes, online, outbox, handler, list, viewing, lines, looks,
                   unmarked>>

(* PruneAgent: the records are read under the lock, the surplus deleted    *)
(* one by one afterwards.  Between equals the sort decides.                *)
Newer(c, d) == Current(c).updated > Current(d).updated
Owned == {c \in Runs : record[c] # NoRecord /\ Current(c).owned}
Oldest(n) == {v \in SUBSET Owned : Cardinality(v) = n /\ \A c \in v : \A d \in Owned \ v : ~Newer(c, d)}

Surplus == IF Cardinality(Owned) > Kept THEN Oldest(Cardinality(Owned) - Kept) ELSE {{}}

ListRuns(c) ==
    /\ firer[c].at = "told"
    /\ \E v \in Surplus :
        firer' = [firer EXCEPT ![c] = IF v = {} THEN Quiet ELSE [Quiet EXCEPT !.at = "prune", !.victims = v]]
    /\ UNCHANGED <<record, stamps, asked, session, writes, desks>>

Prune(c) ==
    /\ firer[c].at = "prune"
    /\ \E v \in firer[c].victims :
        /\ record' = [record EXCEPT ![v] = NoRecord]
        /\ LET rest == firer[c].victims \ {v}
           IN firer' = [firer EXCEPT ![c] = IF rest = {} THEN Quiet ELSE [@ EXCEPT !.victims = rest]]
    /\ UNCHANGED <<stamps, asked, session, writes, desks>>

(* The end of the turn: the session saves.  A record that is gone is made  *)
(* anew.                                                                   *)
SaveTurn(c) ==
    /\ session[c] = Quiet /\ asked[c] > 0
    /\ asked' = [asked EXCEPT ![c] = @ - 1]
    /\ Stamp(c)
    /\ session' = [session EXCEPT ![c] = [Quiet EXCEPT !.at = "tell", !.meta = {Metadata(c, Saved(c))}]]
    /\ UNCHANGED <<firer, desks>>

TellTurn(c) ==
    /\ session[c].at = "tell"
    /\ \E m \in session[c].meta : TellAll(m)
    /\ session' = [session EXCEPT ![c] = Quiet]
    /\ UNCHANGED <<record, stamps, firer, asked, writes, online, outbox, handler, list, viewing,
                   lines, looks, unmarked>>

-----------------------------------------------------------------------------
(* A device.  Its commands reach its read loop one at a time and in order; *)
(* what it sends without a socket is lost, and it lists again when it has  *)
(* one.                                                                    *)
Unread(m) == m.read = 0 \/ m.updated > m.read
SendCommands(s, cmds) == outbox' = [outbox EXCEPT ![s] = IF s \in online THEN @ \o cmds ELSE @]
ListCmd == [cmd |-> "list", id |-> NoChat]
MarkCmd(c) == [cmd |-> "markRead", id |-> {c}]

\* Fault: the list of before is taken for good.
OnlineUnlisted(s) ==
    /\ s \notin online /\ handler[s] = Quiet
    /\ lines[s] < MaxLines /\ lines' = [lines EXCEPT ![s] = @ + 1]
    /\ online' = online \cup {s} /\ crossed' = crossed \ {s}
    /\ outbox' = [outbox EXCEPT ![s] = <<>>]
    /\ UNCHANGED <<record, stamps, firer, asked, session, writes, inbox, handler, list,
                   viewing, looks, unmarked>>

Online(s) ==
    /\ s \notin online /\ handler[s] = Quiet
    /\ lines[s] < MaxLines /\ lines' = [lines EXCEPT ![s] = @ + 1]
    /\ online' = online \cup {s} /\ crossed' = crossed \ {s}
    /\ outbox' = [outbox EXCEPT ![s] = <<ListCmd>>]
    /\ UNCHANGED <<record, stamps, firer, asked, session, writes, inbox, handler, list,
                   viewing, looks, unmarked>>

\* The read loop goes on to the end of the command it is in; a reply has nowhere to go.
Offline(s) ==
    /\ s \in online /\ online' = online \ {s}
    /\ inbox' = [inbox EXCEPT ![s] = <<>>] /\ outbox' = [outbox EXCEPT ![s] = <<>>]
    /\ handler' = [handler EXCEPT ![s] = IF @.at = "reply" THEN Quiet ELSE @]
    /\ unmarked' = IF viewing[s] = NoChat THEN unmarked ELSE unmarked \cup {s}
    /\ UNCHANGED <<record, stamps, firer, asked, session, writes, list, viewing, lines, looks,
                   crossed>>

StartViewing(s, c) ==
    /\ \E m \in list[s] : m.id = c
    /\ viewing[s] = NoChat
    /\ looks[s] < MaxLooks /\ looks' = [looks EXCEPT ![s] = @ + 1]
    /\ viewing' = [viewing EXCEPT ![s] = {c}]
    /\ SendCommands(s, <<MarkCmd(c)>>)
    /\ unmarked' = IF s \in online THEN unmarked ELSE unmarked \cup {s}
    /\ UNCHANGED <<record, stamps, firer, asked, session, writes, online, inbox, handler,
                   list, lines, crossed>>

StopViewing(s) ==
    /\ viewing[s] # NoChat
    /\ viewing' = [viewing EXCEPT ![s] = NoChat] /\ unmarked' = unmarked \ {s}
    /\ UNCHANGED <<record, stamps, firer, asked, session, writes, online, inbox, outbox,
                   handler, list, lines, looks, crossed>>

(* ChatListService.reduce: a list replaces everything, an activity one     *)
(* chat; an unread one that is on screen is marked read.                   *)
Upsert(s, m) == {n \in list[s] : n.id # m.id} \cup {m}
ReduceList(s) ==
    /\ inbox[s] # <<>>
    /\ LET e == Head(inbox[s])
       IN IF e.kind = "list"
          THEN /\ list' = [list EXCEPT ![s] = e.meta]
               /\ UNCHANGED outbox
          ELSE \E m \in e.meta :
               /\ list' = [list EXCEPT ![s] = Upsert(s, m)]
               /\ SendCommands(s, IF viewing[s] = {m.id} /\ Unread(m) THEN <<MarkCmd(m.id)>> ELSE <<>>)
    /\ inbox' = [inbox EXCEPT ![s] = Tail(@)]
    /\ UNCHANGED <<record, stamps, firer, asked, session, writes, online, handler,
                   viewing, lines, looks, crossed, unmarked>>

(* Store.MarkRead: nothing is written, and nobody told, if nothing changes. *)
MarkRead(c) == record[c] # NoRecord /\ Current(c).read # Current(c).updated

TakeCommand(s) ==
    /\ outbox[s] # <<>> /\ handler[s] = Quiet
    /\ outbox' = [outbox EXCEPT ![s] = Tail(@)]
    /\ LET cmd == Head(outbox[s])
       IN IF cmd.cmd = "list"
          THEN /\ handler' = [handler EXCEPT ![s] = [Quiet EXCEPT !.at = "reply",
                                !.meta = {Metadata(c, Current(c)) : c \in {d \in Runs : record[d] # NoRecord}}]]
               /\ UNCHANGED <<record, writes>>
          ELSE \E c \in cmd.id :
               IF MarkRead(c)
               THEN /\ Put(c, [Current(c) EXCEPT !.read = Current(c).updated])
                    /\ handler' = [handler EXCEPT ![s] = [Quiet EXCEPT !.at = "tell",
                                                                      !.meta = {Metadata(c, Saved(c))}]]
               ELSE UNCHANGED <<record, writes, handler>>
    /\ UNCHANGED <<stamps, firer, asked, session, online, inbox, list, viewing, lines, looks,
                   crossed, unmarked>>

TellMark(s) ==
    /\ handler[s].at = "tell"
    /\ \E m \in handler[s].meta : TellAll(m)
    /\ handler' = [handler EXCEPT ![s] = Quiet]
    /\ UNCHANGED <<record, stamps, firer, asked, session, writes, online, outbox, list,
                   viewing, lines, looks, unmarked>>

\* conn.send waits for room.  What was told while it waited is newer than what it read.
ReplyList(s) ==
    /\ handler[s].at = "reply" /\ HasLine(s)
    /\ inbox' = [inbox EXCEPT ![s] = Append(@, [kind |-> "list", meta |-> handler[s].meta])]
    /\ crossed' = IF \E n \in Known(s) : record[n.id] # NoRecord /\
                         \A m \in handler[s].meta : m.id = n.id => m.version < n.version
                  THEN crossed \cup {s} ELSE crossed
    /\ handler' = [handler EXCEPT ![s] = Quiet]
    /\ UNCHANGED <<record, stamps, firer, asked, session, writes, online, outbox, list,
                   viewing, lines, looks, unmarked>>

ChatWork(c) == Touch(c) \/ Told(c) \/ ListRuns(c) \/ Prune(c) \/ SaveTurn(c) \/ TellTurn(c)
Desk(s) == ReduceList(s) \/ TakeCommand(s) \/ TellMark(s) \/ ReplyList(s)
ListNext ==
    \/ \E c \in Runs : Fire(c) \/ ChatWork(c)
    \/ \E s \in Screens : Online(s) \/ Offline(s) \/ StopViewing(s) \/ Desk(s)
                          \/ \E c \in Runs : StartViewing(s, c)

ListSpec == ListInit /\ [][ListNext]_listVars

-----------------------------------------------------------------------------
AtRest(s) == inbox[s] = <<>> /\ outbox[s] = <<>> /\ handler[s] = Quiet
NobodyTells == \A c \in Runs : firer[c].at \notin {"fire", "say"} /\ session[c].at # "tell"
DesksRest == \A s \in Screens : handler[s].at # "tell"

(* A device that listed after it connected, and was sent no older record   *)
(* after a newer one, shows every chat as the store has it; and what is on *)
(* its screen is read, if it was connected as long as it is there.         *)
ListsConverge ==
    \A s \in online \ crossed :
        AtRest(s) /\ NobodyTells /\ DesksRest =>
            /\ \A c \in Runs : Current(c).updated > 0 =>
                    Metadata(c, Current(c)) \in list[s]
            /\ s \in unmarked \/ \A c \in viewing[s] : Current(c).updated > 0 => ~Unread(Current(c))

(* When no fire is under way an agent has no more runs than it may keep.   *)
RunsAreKept ==
    (\A c \in Runs : firer[c] = Quiet) =>
        Cardinality({c \in Runs : record[c] # NoRecord /\ Current(c).owned}) <= Kept

(* The lists of the devices and the runs of an agent, as a whole. *)
ListsHold == ListTypeOK /\ ListsConverge /\ RunsAreKept
=============================================================================
