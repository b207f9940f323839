----------------------------- MODULE Extensions -----------------------------
(***************************************************************************)
(* What is installed in a workspace: the folders of the extensions tree as *)
(* devices install (internal/extension/install.go), add                    *)
(* (internal/mcp/manage.go) and remove them (internal/serve/mcp.go,        *)
(* plugin.go, skill.go), the reload each of them spawns                    *)
(* (internal/workspace/snapshot.go), and the grants of the hosts they      *)
(* reach, which a removal takes along.                                     *)
(*                                                                         *)
(* A file stands for what it announces or carries, and a grant for the     *)
(* host that a payload's declaration names.                                *)
(***************************************************************************)
EXTENDS Naturals, Sequences, Functions

CONSTANTS
    Conns,          \* devices that may manage
    Installable,          \* names of extensions
    Package,        \* the catalog's entry of each name: its parts, in the order of Install
    MaxCommands     \* bound: commands

Announcing == {"plugin", "mcp", "skill"}
FileKinds == {"manifest", "script"} \cup Announcing
Hosts == Installable \X Announcing

ASSUME ExtensionAssumption ==
    /\ MaxCommands \in Nat
    /\ \A n \in Installable : Package[n] \in Seq(FileKinds) /\ Package[n] # <<>>
    /\ \A n \in Installable : \A i, j \in DOMAIN Package[n] :       \* what announces comes last
          i < j /\ Package[n][i] \in Announcing => Package[n][j] \in Announcing

VARIABLES
    tree,         \* of each name: "none", or its files
    wanted,         \* of each name: what whoever made the folder writes into it
    handling,          \* of each device: its command, and where it is
    commands,       \* how many commands there were
    waiting,        \* reloads that wait for reloadMu
    scan,           \* the reload under way: what it has read of each name
    inventory,      \* the snapshot: the payloads of each name
    met,            \* history: hosts a snapshot in use has known
    granted,        \* grantStore: the hosts with a standing yes
    excused,        \* history: grants that nobody was told to take along
    missed,         \* history: the tree changed and no reload follows
    shared, torn,   \* history: folders made twice, folders in pieces
    staying            \* history: what was installed and nobody has removed

extensionVars == <<tree, wanted, handling, commands, waiting, scan, inventory, met, granted,
                   excused, missed, shared, torn, staying>>

Unmade == {"none"}                  \* no folder; an empty folder is {}
Unoccupied == [at |-> "idle", name |-> "", rest |-> <<>>, hosts |-> {}, asked |-> "none"]
Unread == [n \in Installable |-> {}]
NoReload == [at |-> "none", servers |-> {}, seen |-> Unread]

ExtensionInit ==
    /\ tree = [n \in Installable |-> Unmade] /\ wanted = [n \in Installable |-> {}]
    /\ handling = [c \in Conns |-> Unoccupied] /\ commands = 0
    /\ waiting = 0 /\ scan = NoReload /\ inventory = Unread /\ met = {}
    /\ granted = {} /\ excused = {} /\ missed = FALSE /\ shared = {} /\ torn = {} /\ staying = {}

ExtensionTypeOK ==
    /\ \A n \in Installable : tree[n] = Unmade \/ tree[n] \subseteq FileKinds
    /\ \A c \in Conns : handling[c].at \in {"idle", "claim", "write", "delete", "forget"}
    /\ scan.at \in {"none", "servers", "payloads", "publish"} /\ waiting \in 0..MaxCommands
    /\ inventory \in [Installable -> SUBSET Announcing]
    /\ granted \cup excused \cup met \subseteq Hosts /\ shared \cup torn \cup staying \subseteq Installable

-----------------------------------------------------------------------------
Made(n) == tree[n] # Unmade
Payloads(n) == tree[n] \cap Announcing
Touching(n, steps) == {c \in Conns : handling[c].name = n /\ handling[c].at \in steps}

rebuilding == <<waiting, scan, inventory, met>>
grants == <<granted, excused>>

Takes(c, step) == handling' = [handling EXCEPT ![c] = step]
Finishes(c) == Takes(c, Unoccupied)
Ordered(c) == handling[c].at = "idle" /\ commands < MaxCommands /\ commands' = commands + 1
Stands(c, step) == handling[c].at = step /\ UNCHANGED commands

WritingParts(n, parts) == [Unoccupied EXCEPT !.at = "write", !.name = n, !.rest = parts]

(* library.install: Install finds no folder ...                             *)
StatInstall(c, n) ==
    /\ Ordered(c) /\ ~Made(n) /\ Takes(c, [Unoccupied EXCEPT !.at = "claim", !.name = n])
    /\ UNCHANGED <<tree, wanted, rebuilding, grants, missed, shared, torn, staying>>

(* ... and makes it, which succeeds if somebody else has made it since.     *)
Claim(c) ==
    /\ Stands(c, "claim")
    /\ LET n == handling[c].name
       IN  /\ tree' = [tree EXCEPT ![n] = IF Made(n) THEN @ ELSE {}]
           /\ wanted' = [wanted EXCEPT ![n] = Range(Package[n])]
           /\ Takes(c, WritingParts(n, Package[n]))
           /\ shared' = IF Made(n) THEN shared \cup {n} ELSE shared
           /\ staying' = IF Made(n) THEN staying \ {n} ELSE staying
    /\ UNCHANGED <<rebuilding, grants, missed, torn>>

(* mcp.add: making the folder is the claim on the name.                     *)
AddServer(c, n) ==
    /\ Ordered(c) /\ ~Made(n)
    /\ tree' = [tree EXCEPT ![n] = {}] /\ wanted' = [wanted EXCEPT ![n] = {"mcp"}]
    /\ Takes(c, WritingParts(n, <<"mcp">>))
    /\ UNCHANGED <<rebuilding, grants, missed, shared, torn, staying>>

(* Part by part; the last one is followed by the reload.                    *)
WritePart(c) ==
    /\ Stands(c, "write")
    /\ LET n == handling[c].name
           left == Tail(handling[c].rest)
       IN  /\ Made(n) /\ tree' = [tree EXCEPT ![n] = @ \cup {Head(handling[c].rest)}]
           /\ IF left # <<>>
              THEN Takes(c, WritingParts(n, left)) /\ UNCHANGED <<waiting, staying>>
              ELSE /\ Finishes(c) /\ waiting' = waiting + 1
                   /\ staying' = IF n \in shared \cup torn THEN staying ELSE staying \cup {n}
    /\ UNCHANGED <<wanted, scan, inventory, met, grants, missed, shared, torn>>

(* A part that is not written takes the whole folder with it.               *)
WriteFails(c) ==
    /\ Stands(c, "write") /\ Takes(c, [handling[c] EXCEPT !.at = "delete"])
    /\ torn' = torn \cup {handling[c].name}
    /\ UNCHANGED <<tree, wanted, rebuilding, grants, missed, shared, staying>>

-----------------------------------------------------------------------------
(* mcp.remove, plugin.remove, skill.remove: the host is read from the       *)
(* declaration, then the folder goes.  A skill beside code is not removed   *)
(* by itself.                                                               *)
RemoveExt(c, n, p) ==
    /\ Ordered(c) /\ Made(n) /\ (p = "skill" => Payloads(n) = {"skill"})
    /\ Takes(c, [at |-> "delete", name |-> n, rest |-> <<>>, asked |-> p,
                 hosts |-> {<<n, p>>} \cap ({n} \X tree[n])])
    /\ torn' = torn \cup {n} /\ staying' = staying \ {n}
    /\ UNCHANGED <<tree, wanted, rebuilding, grants, missed, shared>>
(* RemoveAll, file by file in any order ...                                 *)
DeleteFile(c) ==
    /\ Stands(c, "delete") /\ Made(handling[c].name)
    /\ LET n == handling[c].name
       IN  \E f \in tree[n] :
              /\ tree' = [tree EXCEPT ![n] = @ \ {f}]
              /\ excused' = IF f = handling[c].asked THEN excused
                            ELSE excused \cup ({<<n, f>>} \cap granted)
    /\ UNCHANGED <<wanted, handling, rebuilding, granted, missed, shared, torn, staying>>

(* ... and the folder last.  A failed install tells nobody; ...             *)
DeleteFolder(c) ==
    /\ Stands(c, "delete")
    /\ LET n == handling[c].name
           alone == Touching(n, {"write", "delete"}) = {c}
       IN  /\ tree[n] \in {Unmade, {}} /\ tree' = [tree EXCEPT ![n] = Unmade]
           /\ shared' = (IF alone THEN shared \ {n} ELSE shared)
           /\ torn' = (IF alone THEN torn \ {n} ELSE torn)
    /\ IF handling[c].asked # "none" THEN Takes(c, [handling[c] EXCEPT !.at = "forget"]) /\ UNCHANGED missed
                         ELSE Finishes(c) /\ missed' = TRUE
    /\ UNCHANGED <<wanted, rebuilding, grants, staying>>

DeleteFails(c) ==
    /\ Stands(c, "delete") /\ Made(handling[c].name) /\ Finishes(c) /\ missed' = TRUE
    /\ excused' = excused \cup (granted \cap handling[c].hosts)
    /\ UNCHANGED <<tree, wanted, rebuilding, granted, shared, torn, staying>>

(* ... a removal takes the standing yes along and reloads.                  *)
ForgetHosts(c) ==
    /\ Stands(c, "forget") /\ Finishes(c) /\ waiting' = waiting + 1
    /\ granted' = granted \ handling[c].hosts /\ excused' = excused \ handling[c].hosts
    /\ UNCHANGED <<tree, wanted, scan, inventory, met, missed, shared, torn, staying>>

(* Somebody is asked about a host by a turn, maybe one with an old snapshot. *)
SayYes(h) ==
    /\ h \in met /\ granted' = granted \cup {h}
    /\ excused' = IF h[2] \in tree[h[1]] /\ Touching(h[1], {"delete", "forget"}) = {}
                  THEN excused \ {h} ELSE excused \cup {h}
    /\ UNCHANGED <<tree, wanted, handling, commands, rebuilding, missed, shared, torn, staying>>

-----------------------------------------------------------------------------
(* Reload: one at a time; it reads the servers, then the other payloads.    *)
TakeReload ==
    /\ waiting > 0 /\ scan.at = "none"
    /\ waiting' = waiting - 1 /\ scan' = [NoReload EXCEPT !.at = "servers"] /\ missed' = FALSE
    /\ UNCHANGED <<tree, wanted, handling, commands, inventory, met, grants, shared, torn, staying>>

\* Fault: a reload that finds another one under way leaves it to that one.
BeginReloadOnce ==
    \/ TakeReload
    \/ /\ waiting > 0 /\ scan.at # "none" /\ waiting' = waiting - 1
       /\ UNCHANGED <<tree, wanted, handling, commands, scan, inventory, met, grants, missed,
                      shared, torn, staying>>
BeginReload == TakeReload

ReadServers ==
    /\ scan.at = "servers"
    /\ scan' = [scan EXCEPT !.at = "payloads", !.servers = {n \in Installable : "mcp" \in tree[n]}]
    /\ UNCHANGED <<tree, wanted, handling, commands, waiting, inventory, met, grants, missed,
                   shared, torn, staying>>
ReadPayloads ==
    /\ scan.at = "payloads"
    /\ scan' = [scan EXCEPT !.at = "publish",
                            !.seen = [n \in Installable |-> {p \in Announcing :
                                IF p = "mcp" THEN n \in scan.servers ELSE p \in tree[n]}]]
    /\ UNCHANGED <<tree, wanted, handling, commands, waiting, inventory, met, grants, missed,
                   shared, torn, staying>>

Publishes(snapshot) ==
    /\ inventory' = snapshot /\ scan' = NoReload
    /\ met' = met \cup {h \in Hosts : h[2] \in snapshot[h[1]]}
PublishSnapshot ==
    /\ scan.at = "publish"
    /\ \/ Publishes(scan.seen) /\ UNCHANGED missed
       \/ scan' = NoReload /\ missed' = TRUE /\ UNCHANGED <<inventory, met>>
    /\ UNCHANGED <<tree, wanted, handling, commands, waiting, grants, shared, torn, staying>>

(* The daemon stops and opens the workspace again.                          *)
OpenAgain ==
    /\ handling' = [c \in Conns |-> Unoccupied] /\ waiting' = 0 /\ missed' = FALSE
    /\ Publishes([n \in Installable |-> Payloads(n)])
    /\ excused' = excused \cup (granted \cap UNION {handling[c].hosts : c \in Conns})
    /\ UNCHANGED <<tree, wanted, commands, granted, shared, torn, staying>>

ExtensionNext ==
    \/ \E c \in Conns, n \in Installable :
          StatInstall(c, n) \/ AddServer(c, n) \/ \E p \in Announcing : RemoveExt(c, n, p)
    \/ \E c \in Conns : Claim(c) \/ WritePart(c) \/ WriteFails(c) \/ DeleteFile(c)
                        \/ DeleteFolder(c) \/ DeleteFails(c) \/ ForgetHosts(c)
    \/ \E h \in Hosts : SayYes(h)
    \/ BeginReload \/ ReadServers \/ ReadPayloads \/ PublishSnapshot \/ OpenAgain

ExtensionSpec == ExtensionInit /\ [][ExtensionNext]_extensionVars
-----------------------------------------------------------------------------
Settled == \A c \in Conns : handling[c].at = "idle"

(* "two devices installing something at once queue rather than interleave"  *)
(* (Reload): when everything has come to rest the workspace works with what *)
(* is on disk, unless a change failed or a discovery did.                   *)
SnapshotIsDisk ==
    Settled /\ waiting = 0 /\ scan.at = "none" /\ ~missed =>
        \A n \in Installable : inventory[n] = Payloads(n)

(* "each is written after everything it needs" (Install): a folder that     *)
(* announces a payload has every artifact, wherever the daemon stopped.     *)
AnnouncedIsWhole ==
    \A n \in Installable \ (shared \cup torn) :
        Payloads(n) # {} => wanted[n] \ Announcing \subseteq tree[n]

(* What was installed stays as it is until somebody removes it: a command   *)
(* that fails takes nothing of anybody else's.                              *)
InstalledStays == \A n \in staying \ torn : tree[n] = wanted[n]

(* A grant does not outlive what it was given for, unless it was given as   *)
(* that was going.                                                          *)
GrantsGoAlong == Settled => \A h \in granted \ excused : h[2] \in tree[h[1]]

ExtensionsHold == ExtensionTypeOK /\ SnapshotIsDisk /\ AnnouncedIsWhole /\ InstalledStays /\ GrantsGoAlong
=============================================================================
