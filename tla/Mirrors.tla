------------------------------ MODULE Mirrors ------------------------------
(***************************************************************************)
(* The lists of the companion app: what the workspace on screen is made of *)
(* and may do, and which workspaces there are.  Nothing is optimistic: an  *)
(* app sends commands, and shows what the daemon sends.  The daemon (serve:*)
(* skill.go, mcp.go, plugin.go, grant.go, reminder.go, agent.go, reload.go,*)
(* workspace.go) reads a list, and sends or broadcasts it in a later step; *)
(* changes that need discovery spawn a reload that tells what it found,    *)
(* but a reload for another domain, or the command line's, tells nobody.   *)
(*                                                                         *)
(* A behaviour is about one domain.  Its content in a workspace is the     *)
(* number of the change that made it; Extensions models what a reload      *)
(* reads and when, here it is one step.  The other devices are there for   *)
(* the commands they send.                                                 *)
(***************************************************************************)
EXTENDS Naturals, Sequences, FiniteSets
Lists == INSTANCE SequencesExt
LOCAL INSTANCE Functions

CONSTANTS
    Apps,           \* devices whose screen is followed
    Askers,         \* devices that only send commands
    SpaceNames,     \* names of workspaces
    Home,           \* DefaultWorkspace
    Domains,        \* the domains to look at
    InboxRoom,      \* capacity of a connection's queue
    MaxChanges,     \* bound: changes to a workspace's content
    MaxOrders,      \* bound: commands other than listing
    MaxSockets,     \* bound: connections phones open
    MaxVisits       \* bound: times a phone switches to another workspace

ASSUME MirrorAssumption ==
    /\ Home \in SpaceNames /\ InboxRoom \in Nat \ {0}
    /\ {MaxChanges, MaxOrders, MaxSockets, MaxVisits} \subseteq Nat
    /\ Domains \subseteq {"skills", "servers", "plugins", "grants", "reminders", "agents"}

VARIABLES
    domain,         \* the domain of this behaviour
    spaces,         \* per name: absent, open, or retired: deleted, and not used again
    real,           \* per workspace: what is on disk, or in the live store
    found,          \* per workspace: what the last discovery found
    jobs,           \* reloads under way, oldest first
    order,          \* per device: the command its read loop is in
    sent,           \* per device: the commands on their way
    line,           \* per phone: the queue of its connection
    online,         \* phones that are connected
    activeName,     \* per phone: WorkspaceService._active, at most one name
    stored,         \* per phone: the name Preferences has yet to deliver
    roster,         \* per phone: WorkspaceService._workspaces
    shown,          \* per phone: the list of the domain, at most one
    body,           \* per phone: the SKILL.md it has read, at most one
    effects,        \* per phone: effects that are to run
    counts,         \* orders, sockets and visits so far
    behind          \* per phone: what it was told last is known not to be the last word

mirrorVars == <<domain, spaces, real, found, jobs, order, sent, line, online, activeName,
                stored, roster, shown, body, effects, counts, behind>>
daemonState == <<spaces, real, found, jobs>>
phoneState == <<online, activeName, stored, roster, shown, body, effects>>

Devices == Apps \cup Askers
None == {}                                      \* at most one value: {} or a singleton
Calm == [at |-> "calm", cmd |-> "none", ws |-> Home, news |-> None]

-----------------------------------------------------------------------------
(* How a domain is served: where its list is read, what a change tells     *)
(* first, whether it spawns a reload, and what a reload tells.             *)
Desk(reads, first, rebuilds, later, onReload) ==
    [reads |-> reads, first |-> first, rebuilds |-> rebuilds, later |-> later, onReload |-> onReload]
SkillDesk == Desk("disk", "list", TRUE, FALSE, TRUE)
ServerDesk == Desk("discovery", "announcement", TRUE, TRUE, TRUE)
PluginDesk == Desk("discovery", "nothing", TRUE, TRUE, FALSE)
GrantDesk == Desk("disk", "list", FALSE, FALSE, FALSE)
ReminderDesk == Desk("disk", "changed", FALSE, FALSE, FALSE)
AgentDesk == Desk("discovery", "nothing", FALSE, FALSE, FALSE)
DeskOf == [skills |-> SkillDesk, servers |-> ServerDesk, plugins |-> PluginDesk,
           grants |-> GrantDesk, reminders |-> ReminderDesk, agents |-> AgentDesk]

(* How a service mirrors it: whether it clears its list when the workspace *)
(* or the connection changes, and whether it waits for the workspace to be *)
(* one that is served.                                                     *)
SkillMirror == [clears |-> TRUE, waits |-> FALSE]
ServerMirror == [clears |-> TRUE, waits |-> FALSE]
PluginMirror == [clears |-> TRUE, waits |-> FALSE]
GrantMirror == [clears |-> TRUE, waits |-> FALSE]
ReminderMirror == [clears |-> TRUE, waits |-> FALSE]
AgentMirror == [clears |-> FALSE, waits |-> TRUE]
MirrorOf == [skills |-> SkillMirror, servers |-> ServerMirror, plugins |-> PluginMirror,
             grants |-> GrantMirror, reminders |-> ReminderMirror, agents |-> AgentMirror]

The(w) == IF DeskOf[domain].reads = "disk" THEN real[w] ELSE found[w]

MirrorInit ==
    /\ domain \in Domains
    /\ spaces \in [SpaceNames -> {"open", "absent"}] /\ spaces[Home] = "open"
    /\ real = [w \in SpaceNames |-> 0] /\ found = [w \in SpaceNames |-> 0] /\ jobs = <<>>
    /\ order = [d \in Devices |-> Calm] /\ sent = [d \in Devices |-> <<>>]
    /\ line = [p \in Apps |-> <<>>] /\ online = {}
    /\ activeName = [p \in Apps |-> None]
    /\ stored \in [Apps -> {None} \cup {{w} : w \in SpaceNames}]
    /\ roster = [p \in Apps |-> {}] /\ shown = [p \in Apps |-> None]
    /\ body = [p \in Apps |-> None] /\ effects = [p \in Apps |-> {}]
    /\ counts = [orders |-> 0, sockets |-> 0, visits |-> 0]
    /\ behind = [p \in Apps |-> {}]

Served == {w \in SpaceNames : spaces[w] = "open"}
Orders == {"spaces", "list", "read", "change", "reload", "create", "delete"}
MirrorTypeOK ==
    /\ spaces \in [SpaceNames -> {"open", "absent", "retired"}] /\ spaces[Home] = "open"
    /\ \A w \in SpaceNames : {real[w], found[w]} \subseteq Nat /\ found[w] <= real[w]
    /\ \A d \in Devices : order[d].at \in {"calm", "look", "reply", "tell", "spawn"}
                          /\ \A i \in DOMAIN sent[d] : sent[d][i].cmd \in Orders
    /\ \A i \in DOMAIN jobs : jobs[i].ws \in SpaceNames /\ jobs[i].at \in {"wait", "look", "tell"}
    /\ \A p \in Apps : Len(line[p]) <= InboxRoom /\ Cardinality(shown[p]) <= 1
    /\ \A p \in Apps : activeName[p] \cup roster[p] \subseteq SpaceNames /\ effects[p] \subseteq {"spaces", "list"}
    /\ online \subseteq Apps

-----------------------------------------------------------------------------
(* What the daemon sends: a list, the bare fact that one changed, a        *)
(* SKILL.md, the workspaces.                                               *)
News(kind, w, v) == [kind |-> kind, ws |-> w, version |-> v, interim |-> FALSE, places |-> {}]
ListOf(w) == News("list", w, The(w))
Announcement(w) == [ListOf(w) EXCEPT !.interim = TRUE]
Roster == [News("spaces", Home, 0) EXCEPT !.places = Served]

(* Bookkeeping, not code: a phone is behind when it missed a message, was  *)
(* sent an older one after a newer, or nobody told of a change.            *)
Later(m, n) == m.kind = n.kind /\ m.ws = n.ws /\ m.version > n.version
Older(p, m) ==
    \/ \E i \in DOMAIN line[p] : Later(line[p][i], m)
    \/ \E n \in shown[p] : Later(n, m)
    \/ m.kind = "body" /\ m.version < real[m.ws]
On(topic, w) == [topic |-> topic, ws |-> w]
Topic(m) == On(IF m.kind = "changed" THEN "list" ELSE m.kind, m.ws)
SpacesTopic == On("spaces", Home)
\* A list also clears the body that was read.
SettledBy(m) == {Topic(m)} \cup (IF m.kind = "list" THEN {On("body", m.ws)} ELSE {})
IsLatest(m) == CASE m.kind = "list" -> m.version = The(m.ws) /\ ~m.interim
              [] m.kind = "spaces" -> m.places = Served
              [] OTHER -> FALSE
Judged(p, m) ==
    IF IsLatest(m) THEN behind[p] \ SettledBy(m)
    ELSE IF Older(p, m) \/ m.kind = "spaces" THEN behind[p] \cup {Topic(m)} ELSE behind[p]
Untold(w) ==
    behind' = [p \in Apps |->
        IF p \in online THEN behind[p] \cup {On("list", w), On("body", w)} ELSE behind[p]]

\* hub.broadcast: whoever has no room misses it.
HasRoom(p) == p \in online /\ Len(line[p]) < InboxRoom
Broadcast(m) ==
    /\ line' = [p \in Apps |-> IF HasRoom(p) THEN Append(line[p], m) ELSE line[p]]
    /\ behind' = [p \in Apps |-> IF HasRoom(p) THEN Judged(p, m)
                                   ELSE IF p \in online THEN behind[p] \cup SettledBy(m)
                                   ELSE behind[p]]

-----------------------------------------------------------------------------
(* A connection carries out one command at a time.  A command for a        *)
(* workspace that is not open is answered with an error, which changes     *)
(* nothing here.                                                           *)
Stage(d, at, c, news) ==
    order' = [order EXCEPT ![d] = [at |-> at, cmd |-> c.cmd, ws |-> c.ws, news |-> news]]

AnswerList(d, c) == Stage(d, "reply", c, {ListOf(c.ws)}) /\ UNCHANGED daemonState
AnswerSpaces(d, c) == Stage(d, "reply", c, {Roster}) /\ UNCHANGED daemonState
AnswerBody(d, c) == Stage(d, "reply", c, {News("body", c.ws, real[c.ws])}) /\ UNCHANGED daemonState

Spare == SumFunction(real) < MaxChanges
Alter(w) == Spare /\ real' = [real EXCEPT ![w] = @ + 1]

\* skill.enable, mcp.add, plugin.remove, grant.forget, reminder.cancel and their like.
CarryOut(d, c) ==
    /\ Alter(c.ws)
    /\ CASE DeskOf[domain].first = "changed" -> Stage(d, "tell", c, {News("changed", c.ws, 0)})
         [] DeskOf[domain].first = "nothing" -> Stage(d, "spawn", c, None)
         [] OTHER -> Stage(d, "look", c, None)
    /\ UNCHANGED <<spaces, found, jobs>>

Reload(d, c) == Stage(d, "spawn", c, None) /\ UNCHANGED daemonState

\* Registry.Create and Delete; the list is read afterwards.
CreateSpace(d, c) ==
    /\ spaces[c.ws] = "absent"
    /\ spaces' = [spaces EXCEPT ![c.ws] = "open"]
    /\ Stage(d, "look", c, None) /\ UNCHANGED <<real, found, jobs>>
DeleteSpace(d, c) ==
    /\ c.ws # Home /\ spaces[c.ws] = "open"
    /\ spaces' = [spaces EXCEPT ![c.ws] = "retired"]
    /\ Stage(d, "look", c, None) /\ UNCHANGED <<real, found, jobs>>

RefuseOrder(d, c) ==
    /\ c.cmd # "spaces"
    /\ \/ c.cmd \notin {"create", "delete"} /\ spaces[c.ws] # "open"
       \/ c.cmd = "create" /\ spaces[c.ws] # "absent"
       \/ c.cmd = "delete" /\ (c.ws = Home \/ spaces[c.ws] # "open")
       \/ c.cmd = "change" /\ ~Spare
    /\ behind' = [p \in Apps |-> IF p = d THEN behind[p] \cup {On(c.cmd, c.ws)} ELSE behind[p]]
    /\ UNCHANGED <<order, daemonState>>

TakeOrder(d) ==
    /\ order[d] = Calm /\ sent[d] # <<>>
    /\ LET c == Head(sent[d])
       IN \/ c.cmd = "spaces" /\ AnswerSpaces(d, c) /\ UNCHANGED behind
          \/ c.cmd = "create" /\ CreateSpace(d, c) /\ UNCHANGED behind
          \/ c.cmd = "delete" /\ DeleteSpace(d, c) /\ UNCHANGED behind
          \/ /\ spaces[c.ws] = "open"
             /\ \/ c.cmd = "list" /\ AnswerList(d, c)
                \/ c.cmd = "read" /\ AnswerBody(d, c)
                \/ c.cmd = "change" /\ CarryOut(d, c)
                \/ c.cmd = "reload" /\ Reload(d, c)
             /\ UNCHANGED behind
          \/ RefuseOrder(d, c)
    /\ sent' = [sent EXCEPT ![d] = Tail(@)]
    /\ UNCHANGED <<domain, line, phoneState, counts>>

\* The list a broadcast will carry.
Look(d) ==
    /\ order[d].at = "look"
    /\ LET o == order[d]
       IN order' = [order EXCEPT ![d].at = "tell", ![d].news =
            {IF o.cmd # "change" THEN Roster
             ELSE IF DeskOf[domain].first = "announcement" THEN Announcement(o.ws) ELSE ListOf(o.ws)}]
    /\ UNCHANGED <<domain, daemonState, sent, line, phoneState, counts, behind>>

Tell(d) ==
    /\ order[d].at = "tell"
    /\ \E m \in order[d].news : Broadcast(m)
    /\ order' = [order EXCEPT ![d] = IF @.cmd = "change" /\ DeskOf[domain].rebuilds
                                     THEN [@ EXCEPT !.at = "spawn", !.news = None] ELSE Calm]
    /\ UNCHANGED <<domain, daemonState, sent, phoneState, counts>>

Reply(p) ==
    /\ order[p].at = "reply" /\ HasRoom(p)
    /\ \E m \in order[p].news :
        /\ line' = [line EXCEPT ![p] = Append(@, m)]
        /\ behind' = [behind EXCEPT ![p] = Judged(p, m)]
    /\ order' = [order EXCEPT ![p] = Calm]
    /\ UNCHANGED <<domain, daemonState, sent, phoneState, counts>>

\* go func: the reload outlives the connection that asked for it.
SpawnReload(d) ==
    /\ order[d].at = "spawn"
    /\ LET tells == IF order[d].cmd = "reload" THEN DeskOf[domain].onReload ELSE DeskOf[domain].later
       IN jobs' = Append(jobs, [ws |-> order[d].ws, tells |-> tells, at |-> "wait", news |-> None])
    /\ order' = [order EXCEPT ![d] = Calm]
    /\ UNCHANGED <<domain, spaces, real, found, sent, line, phoneState, counts, behind>>

(* Workspace.Reload, then the list it found.                               *)
PublishReload(i) ==
    /\ jobs[i].at = "wait"
    /\ LET w == jobs[i].ws
       IN /\ found' = [found EXCEPT ![w] = real[w]]
          /\ IF jobs[i].tells THEN UNCHANGED behind
             ELSE IF DeskOf[domain].reads = "disk" \/ found[w] = real[w] THEN UNCHANGED behind ELSE Untold(w)
    /\ jobs' = IF jobs[i].tells THEN [jobs EXCEPT ![i].at = "look"] ELSE Lists!RemoveAt(jobs, i)
    /\ UNCHANGED <<domain, spaces, real, order, sent, line, phoneState, counts>>

\* What was announced is then never settled.
ReloadFails(i) ==
    /\ jobs[i].at = "wait"
    /\ IF DeskOf[domain].first = "announcement" THEN Untold(jobs[i].ws) ELSE UNCHANGED behind
    /\ jobs' = Lists!RemoveAt(jobs, i)
    /\ UNCHANGED <<domain, spaces, real, found, order, sent, line, phoneState, counts>>

(* The command line reloads a workspace, and so does a change to the       *)
(* content of another domain: a reload reads all of them, and tells at     *)
(* most of the one it was for.                                             *)
ReloadUnheard(w) ==
    /\ spaces[w] # "absent"
    /\ found' = [found EXCEPT ![w] = real[w]]
    /\ IF DeskOf[domain].reads = "disk" \/ found[w] = real[w] THEN UNCHANGED behind ELSE Untold(w)
    /\ UNCHANGED <<domain, spaces, real, jobs, order, sent, line, phoneState, counts>>

LookAgain(i) ==
    /\ jobs[i].at = "look"
    /\ jobs' = [jobs EXCEPT ![i].at = "tell", ![i].news = {ListOf(jobs[i].ws)}]
    /\ UNCHANGED <<domain, spaces, real, found, order, sent, line, phoneState, counts, behind>>

TellFound(i) ==
    /\ jobs[i].at = "tell"
    /\ \E m \in jobs[i].news : Broadcast(m)
    /\ jobs' = Lists!RemoveAt(jobs, i)
    /\ UNCHANGED <<domain, spaces, real, found, order, sent, phoneState, counts>>

(* The model sets a reminder, the gate remembers a grant, the operator     *)
(* edits the folder: only the reminders tell of it.                        *)
SomebodyElse(w) ==
    /\ spaces[w] = "open" /\ Alter(w)
    /\ IF DeskOf[domain].first = "changed" THEN Broadcast(News("changed", w, 0))
       ELSE UNCHANGED line /\ (IF DeskOf[domain].reads = "disk" THEN Untold(w) ELSE UNCHANGED behind)
    /\ UNCHANGED <<domain, spaces, found, jobs, order, sent, phoneState, counts>>

-----------------------------------------------------------------------------
(* The app.  What it sends without a socket is lost.                       *)
Cmd(c, w) == [cmd |-> c, ws |-> w]
Send(d, cmds) == sent' = [sent EXCEPT ![d] = IF d \in online \cup Askers THEN @ \o cmds ELSE @]
Within(kind, bound) == counts[kind] < bound /\ counts' = [counts EXCEPT ![kind] = @ + 1]

SocketOpens(p) ==
    /\ p \notin online /\ order[p] = Calm /\ Within("sockets", MaxSockets)
    /\ online' = online \cup {p}
    /\ effects' = [effects EXCEPT ![p] = {"spaces", "list"}]
    /\ behind' = [behind EXCEPT ![p] = {}]
    /\ UNCHANGED <<domain, daemonState, order, sent, line, activeName, stored, roster, shown, body>>

\* The read loop goes on to the end of the command it is in; a reply has nowhere to go.
SocketCloses(p) ==
    /\ p \in online /\ online' = online \ {p}
    /\ line' = [line EXCEPT ![p] = <<>>] /\ sent' = [sent EXCEPT ![p] = <<>>]
    /\ order' = [order EXCEPT ![p] = IF @.at = "reply" THEN Calm ELSE @]
    /\ effects' = [effects EXCEPT ![p] = @ \cup {"list"}]
    /\ UNCHANGED <<domain, daemonState, activeName, stored, roster, shown, body, counts, behind>>

(* The effects of WorkspaceService and of the domain's service: they list  *)
(* again, and clear first what would be another workspace's.               *)
Sees(p) ==
    /\ p \in online /\ activeName[p] # None
    /\ MirrorOf[domain].waits => activeName[p] \subseteq roster[p]
Cleared(p, held) == IF "list" \in effects[p] /\ MirrorOf[domain].clears THEN None ELSE held

Settle(p) ==
    /\ effects[p] # {} /\ effects' = [effects EXCEPT ![p] = {}]
    /\ Send(p, (IF "spaces" \in effects[p] THEN <<Cmd("spaces", Home)>> ELSE <<>>)
            \o (IF "list" \in effects[p] /\ Sees(p)
                THEN <<Cmd("list", CHOOSE w \in activeName[p] : TRUE)>> ELSE <<>>))
    /\ shown' = [shown EXCEPT ![p] = Cleared(p, @)] /\ body' = [body EXCEPT ![p] = Cleared(p, @)]
    /\ UNCHANGED <<domain, daemonState, order, line, online, activeName, stored, roster, counts, behind>>

SetActive(p, w) ==
    /\ activeName' = [activeName EXCEPT ![p] = {w}]
    /\ effects' = [effects EXCEPT ![p] = IF activeName[p] = {w} THEN @ ELSE @ \cup {"list"}]

SwitchTo(p, w) ==
    /\ w \in roster[p] \ activeName[p] /\ Within("visits", MaxVisits)
    /\ SetActive(p, w)
    /\ UNCHANGED <<domain, daemonState, order, sent, line, online, stored, roster, shown, body, behind>>

(* loadActive: Preferences answers when it likes, also after the daemon's  *)
(* list has chosen a workspace: what it then puts in its place is checked  *)
(* by the next list only.                                                  *)
LoadActive(p) ==
    /\ \E w \in stored[p] :
        /\ SetActive(p, w)
        /\ behind' = IF roster[p] # {} /\ w \notin roster[p]
                     THEN [behind EXCEPT ![p] = @ \cup {SpacesTopic}] ELSE behind
    /\ stored' = [stored EXCEPT ![p] = None]
    /\ UNCHANGED <<domain, daemonState, order, sent, line, online, roster, shown, body, counts>>

(* The services' listeners.                                                *)
ReduceSpaces(p, m) ==
    /\ roster' = [roster EXCEPT ![p] = m.places]
    /\ LET now == IF activeName[p] \cap m.places # {} THEN activeName[p] ELSE {Home}
       IN /\ activeName' = [activeName EXCEPT ![p] = now]
          /\ effects' = [effects EXCEPT ![p] =
                IF now # activeName[p] \/ MirrorOf[domain].waits THEN @ \cup {"list"} ELSE @]
    /\ UNCHANGED <<shown, body, sent>>

\* Fault: whichever workspace it is about.
ReplaceListAnyhow(p, m) ==
    /\ shown' = [shown EXCEPT ![p] = {m}] /\ body' = [body EXCEPT ![p] = None]
    /\ UNCHANGED <<sent, roster, activeName, effects>>

ReplaceList(p, m) ==
    /\ IF {m.ws} = activeName[p]
       THEN shown' = [shown EXCEPT ![p] = {m}] /\ body' = [body EXCEPT ![p] = None]
       ELSE UNCHANGED <<shown, body>>
    /\ UNCHANGED <<sent, roster, activeName, effects>>

ListAgain(p, m) ==
    /\ Send(p, IF {m.ws} = activeName[p] THEN <<Cmd("list", m.ws)>> ELSE <<>>)
    /\ UNCHANGED <<shown, body, roster, activeName, effects>>

KeepBody(p, m) ==
    /\ body' = [body EXCEPT ![p] = IF {m.ws} = activeName[p] THEN {m} ELSE @]
    /\ UNCHANGED <<shown, sent, roster, activeName, effects>>

Listen(p) ==
    /\ line[p] # <<>> /\ line' = [line EXCEPT ![p] = Tail(@)]
    /\ LET m == Head(line[p])
       IN \/ m.kind = "spaces" /\ ReduceSpaces(p, m)
          \/ m.kind = "list" /\ ReplaceList(p, m)
          \/ m.kind = "changed" /\ ListAgain(p, m)
          \/ m.kind = "body" /\ KeepBody(p, m)
    /\ UNCHANGED <<domain, daemonState, order, online, stored, counts, behind>>

(* What a person does: on a phone in the active workspace, elsewhere in        *)
(* any.  An agent has no command that changes it, only skills are read.    *)
Mine(d) == IF d \in Apps THEN activeName[d] ELSE SpaceNames
Wishes(d) ==
    {Cmd("reload", w) : w \in Mine(d)}
    \cup (IF domain = "agents" THEN {} ELSE {Cmd("change", w) : w \in Mine(d)})
    \cup (IF domain = "skills" /\ d \in Apps /\ body[d] = None THEN {Cmd("read", w) : w \in Mine(d)} ELSE {})
    \cup {Cmd("create", w) : w \in SpaceNames} \cup {Cmd("delete", w) : w \in SpaceNames}
Ask(d) ==
    /\ d \in online \cup Askers /\ Within("orders", MaxOrders)
    /\ \E c \in Wishes(d) : Send(d, <<c>>)
    /\ UNCHANGED <<domain, daemonState, order, line, phoneState, behind>>

Serve == \E d \in Devices : TakeOrder(d) \/ Look(d) \/ Tell(d) \/ SpawnReload(d) \/ Ask(d)
Rebuild == \E i \in DOMAIN jobs : PublishReload(i) \/ ReloadFails(i) \/ LookAgain(i) \/ TellFound(i)
App(p) == SocketOpens(p) \/ SocketCloses(p) \/ Reply(p) \/ Settle(p) \/ LoadActive(p) \/ Listen(p)
          \/ \E w \in SpaceNames : SwitchTo(p, w)
MirrorNext == Serve \/ Rebuild \/ (\E p \in Apps : App(p)) 
              \/ (\E w \in SpaceNames : SomebodyElse(w) \/ ReloadUnheard(w))

MirrorSpec == MirrorInit /\ [][MirrorNext]_mirrorVars

-----------------------------------------------------------------------------
DaemonRests == jobs = <<>> /\ \A d \in Devices : order[d].at = "calm"
PhoneRests(p) == p \in online /\ line[p] = <<>> /\ sent[p] = <<>> /\ effects[p] = {} /\ stored[p] = None

(* What is shown is the active workspace's, but for the agents, whose list     *)
(* is never cleared.                                                       *)
NothingForeignIsShown ==
    \A p \in Apps : "list" \notin effects[p] /\ MirrorOf[domain].clears =>
        \A m \in shown[p] \cup body[p] : {m.ws} = activeName[p]

(* Once nothing is on its way, a phone is in a workspace that is served    *)
(* and shows the list of the domain as the daemon has it, with nothing     *)
(* announced that is not settled, unless it is known to be behind.         *)
MirrorsConverge ==
    \A p \in Apps : DaemonRests /\ PhoneRests(p) /\ SpacesTopic \notin behind[p] =>
        /\ roster[p] = Served
        /\ \E w \in Served :
            /\ activeName[p] = {w}
            /\ On("list", w) \notin behind[p] => shown[p] = {ListOf(w)}
            /\ On("body", w) \notin behind[p] => \A m \in body[p] : m.version = real[w]

(* The lists of the app, as a whole.                                       *)
MirrorsHold == MirrorTypeOK /\ NothingForeignIsShown /\ MirrorsConverge
=============================================================================
