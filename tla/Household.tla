----------------------------- MODULE Household -----------------------------
(***************************************************************************)
(* The devices of a household: the registry of those that are enrolled and *)
(* the codes that enrol one (internal/auth), the sockets they hold and     *)
(* their removal (internal/serve), and the credential of the local command *)
(* line, which the daemon keeps in a file and mints again when its row is  *)
(* gone (cmd/nocturn/enroll.go).                                           *)
(*                                                                         *)
(* A device is its row, numbered in the order they are made; its bearer is *)
(* that number too.  Of the classes two are kept: one that may bring       *)
(* devices in and manage them, and that of the command line.               *)
(***************************************************************************)
EXTENDS Naturals, Sequences

CONSTANTS
    MaxRows,        \* bound: rows ever made
    Sockets,        \* connections
    MaxPending,     \* maxPendingJoins
    MaxCallers,     \* bound: requests to join under way at once
    MaxTries,       \* BootstrapMaxTries and joinMaxTries
    MaxDowns        \* bound: restarts of the daemon

ASSUME HouseholdAssumption ==
    {MaxRows, MaxPending, MaxTries} \subseteq Nat \ {0} /\ {MaxCallers, MaxDowns} \subseteq Nat

VARIABLES
    rows,           \* Store.devices
    disk,           \* devices.json
    used,           \* rows made so far, those whose save failed included
    tools,          \* those of the command line
    forgotten,      \* history: rows somebody was told are gone
    code,           \* tries the bootstrap code has left, 0 when there is none
    joins,          \* per pending request, the oldest first: tries left
    callers,        \* requests that have made room (CapJoins) and not yet joined
    socketOf,       \* per socket: the row that Lookup resolved it to, while it is in use
    socketAt,       \* per socket: none, known (looked up), open (in the hub), late (so, with
                    \* its row gone before), closed
    doing,          \* per socket: where its device.forget is
    target,         \* per socket: the row it forgot, then the one it minted
    cliFile,        \* the row whose bearer is in the command line's file
    spoiled,        \* history: the file could not be renewed, or was written with a forgotten row
    downs

homeVars == <<rows, disk, used, tools, forgotten, code, joins, callers, socketOf, socketAt, doing, target,
              cliFile, spoiled, downs>>
registry == <<rows, disk, used, tools, forgotten>>
pairing == <<code, joins, callers>>
sockets == <<socketOf, socketAt, doing, target>>
commandLine == <<cliFile, spoiled>>

Rows == 1..MaxRows
Connected == {s \in Sockets : socketAt[s] \in {"open", "late"}}

(* The first start has enrolled the command line, and armed a code. *)
HomeInit ==
    /\ rows = {1} /\ disk = {1} /\ used = 1 /\ tools = {1} /\ cliFile = 1 /\ forgotten = {}
    /\ code = MaxTries /\ joins = <<>> /\ callers = 0
    /\ socketOf = [s \in Sockets |-> 0] /\ socketAt = [s \in Sockets |-> "none"]
    /\ doing = [s \in Sockets |-> "idle"] /\ target = [s \in Sockets |-> 0]
    /\ spoiled = FALSE /\ downs = 0

HomeTypeOK ==
    /\ rows \subseteq Rows /\ disk \subseteq Rows /\ used \in Rows
    /\ tools \subseteq Rows /\ forgotten \subseteq Rows
    /\ code \in 0..MaxTries /\ callers \in 0..MaxCallers /\ downs \in 0..MaxDowns
    /\ joins \in Seq(1..MaxTries)
    /\ socketOf \in [Sockets -> 0..MaxRows] /\ target \in [Sockets -> 0..MaxRows]
    /\ socketAt \in [Sockets -> {"none", "known", "open", "late", "closed"}]
    /\ doing \in [Sockets -> {"idle", "closing", "checking", "minting", "writing"}]
    /\ cliFile \in Rows /\ spoiled \in BOOLEAN

-----------------------------------------------------------------------------
(* addDevice, under the lock: a save that fails takes the row back. *)
Add(saved) ==
    /\ used < MaxRows /\ used' = used + 1
    /\ rows' = IF saved THEN rows \cup {used'} ELSE rows
    /\ disk' = IF saved THEN rows' ELSE disk
Enrolled == (\E saved \in BOOLEAN : Add(saved)) /\ UNCHANGED <<tools, forgotten>>

(* POST /pair: the right code is spent whether or not the row is saved; a   *)
(* wrong one, or an expired one, costs a try.                               *)
Pair ==
    /\ code > 0 /\ code' = 0
    /\ Enrolled
    /\ UNCHANGED <<joins, callers, sockets, commandLine, downs>>
PairRefused ==
    /\ code > 0 /\ code' = code - 1
    /\ UNCHANGED <<registry, joins, callers, sockets, commandLine, downs>>
(* POST /pair/code, asked by the command line. *)
ArmCode ==
    /\ cliFile \in rows /\ code' = MaxTries
    /\ UNCHANGED <<registry, joins, callers, sockets, commandLine, downs>>

(* POST /join: room is made under one lock, the request entered under       *)
(* another.  CapJoins also drops what has expired.                          *)
Last(q, n) == SubSeq(q, IF Len(q) > n THEN Len(q) - n + 1 ELSE 1, Len(q))
DropAt(q, i) == SubSeq(q, 1, i - 1) \o SubSeq(q, i + 1, Len(q))
CapJoins ==
    /\ callers < MaxCallers /\ callers' = callers + 1
    /\ \E live \in 0..Len(joins) : joins' = Last(Last(joins, live), MaxPending - 1)
    /\ UNCHANGED <<registry, code, sockets, commandLine, downs>>
Join ==
    /\ callers > 0 /\ callers' = callers - 1
    /\ joins' = Append(joins, MaxTries)
    /\ UNCHANGED <<registry, code, sockets, commandLine, downs>>

(* POST /join/confirm *)
Confirm ==
    /\ \E i \in DOMAIN joins : joins' = DropAt(joins, i)
    /\ Enrolled
    /\ UNCHANGED <<code, callers, sockets, commandLine, downs>>
ConfirmRefused ==
    /\ \E i \in DOMAIN joins : joins' = IF joins[i] = 1 THEN DropAt(joins, i)
                                        ELSE [joins EXCEPT ![i] = @ - 1]
    /\ UNCHANGED <<registry, code, callers, sockets, commandLine, downs>>

(* /ws: the bearer is looked up once, and the socket enters the hub later. *)
Connect(s) ==
    /\ socketAt[s] = "none"
    /\ \E r \in rows \ tools : socketOf' = [socketOf EXCEPT ![s] = r]
    /\ socketAt' = [socketAt EXCEPT ![s] = "known"]
    /\ UNCHANGED <<registry, pairing, doing, target, commandLine, downs>>
HubAdd(s) ==
    /\ socketAt[s] = "known"
    /\ socketAt' = [socketAt EXCEPT ![s] = IF socketOf[s] \in rows THEN "open" ELSE "late"]
    /\ UNCHANGED <<registry, pairing, socketOf, doing, target, commandLine, downs>>
(* A socket that closes lets the command under way finish. *)
Shut(K) ==
    /\ socketAt' = [s \in Sockets |-> IF s \in K THEN "closed" ELSE socketAt[s]]
    /\ socketOf' = [s \in Sockets |-> IF s \in K THEN 0 ELSE socketOf[s]]
Disconnect(s) ==
    /\ s \in Connected /\ Shut({s})
    /\ UNCHANGED <<registry, pairing, doing, target, commandLine, downs>>

(* device.forget, on the read loop of the socket that asks: the row, unless *)
(* it cannot be saved, when it is put back ...                              *)
Forget(s, r) ==
    /\ s \in Connected /\ doing[s] = "idle" /\ r \in rows
    /\ rows' = rows \ {r} /\ disk' = rows' /\ forgotten' = forgotten \cup {r}
    /\ doing' = [doing EXCEPT ![s] = "closing"] /\ target' = [target EXCEPT ![s] = r]
    /\ UNCHANGED <<used, tools, pairing, socketOf, socketAt, commandLine, downs>>
\* Fault: the first socket that is found is the only one that is closed.
CloseDeviceOnce(s) ==
    /\ doing[s] = "closing" /\ doing' = [doing EXCEPT ![s] = "checking"]
    /\ \/ \E k \in Connected : socketOf[k] = target[s] /\ Shut({k})
       \/ (\A k \in Connected : socketOf[k] # target[s]) /\ Shut({})
    /\ UNCHANGED <<registry, pairing, target, commandLine, downs>>

(* ... the sockets it admitted, those in the hub ... *)
CloseDevice(s) ==
    /\ doing[s] = "closing" /\ doing' = [doing EXCEPT ![s] = "checking"]
    /\ Shut({k \in Connected : socketOf[k] = target[s]})
    /\ UNCHANGED <<registry, pairing, target, commandLine, downs>>

(* ... and the hook: ensureCLICredential, in steps that nothing serialises. *)
Ends(s) == doing' = [doing EXCEPT ![s] = "idle"] /\ target' = [target EXCEPT ![s] = 0]
CheckCLI(s) ==
    /\ doing[s] = "checking"
    /\ IF cliFile \in rows THEN Ends(s)
                           ELSE doing' = [doing EXCEPT ![s] = "minting"] /\ UNCHANGED target
    /\ UNCHANGED <<registry, pairing, socketOf, socketAt, commandLine, downs>>
MintCLI(s) ==
    /\ doing[s] = "minting"
    /\ \E saved \in BOOLEAN :
        /\ Add(saved) /\ tools' = tools \cup {used'}
        /\ IF saved THEN /\ doing' = [doing EXCEPT ![s] = "writing"]
                         /\ target' = [target EXCEPT ![s] = used']
                    ELSE Ends(s)
        /\ spoiled' = (spoiled \/ ~saved)
    /\ UNCHANGED <<forgotten, pairing, socketOf, socketAt, cliFile, downs>>
WriteCLI(s) ==
    /\ doing[s] = "writing" /\ Ends(s)
    /\ \E written \in BOOLEAN :
        /\ cliFile' = IF written THEN target[s] ELSE cliFile
        /\ spoiled' = (spoiled \/ ~written \/ target[s] \notin rows)
    /\ UNCHANGED <<registry, pairing, socketOf, socketAt, downs>>

(* The daemon ends and starts again: the registry is read, the command      *)
(* line's credential ensured before anything is served, and a code armed    *)
(* when nothing enrolled could bring a device in.                           *)
ServeAgain ==
    /\ downs < MaxDowns /\ downs' = downs + 1
    /\ Shut({s \in Sockets : socketAt[s] # "none"})
    /\ doing' = [s \in Sockets |-> "idle"] /\ target' = [s \in Sockets |-> 0]
    /\ IF cliFile \in disk
         THEN rows' = disk /\ spoiled' = FALSE /\ UNCHANGED <<disk, used, tools, cliFile>>
         ELSE \E saved, written \in BOOLEAN :
                /\ used < MaxRows /\ used' = used + 1 /\ tools' = tools \cup {used'}
                /\ rows' = IF saved THEN disk \cup {used'} ELSE disk
                /\ disk' = rows'
                /\ cliFile' = IF saved /\ written THEN used' ELSE cliFile
                /\ spoiled' = ~(saved /\ written)
    /\ code' = IF rows' \subseteq tools' THEN MaxTries ELSE 0
    /\ joins' = <<>> /\ callers' = 0
    /\ UNCHANGED forgotten

HomeNext ==
    \/ Pair \/ PairRefused \/ ArmCode \/ CapJoins \/ Join \/ Confirm \/ ConfirmRefused
    \/ \E s \in Sockets : \/ Connect(s) \/ HubAdd(s) \/ Disconnect(s) \/ CloseDevice(s)
                          \/ CheckCLI(s) \/ MintCLI(s) \/ WriteCLI(s)
    \/ \E s \in Sockets, r \in Rows : Forget(s, r)
    \/ ServeAgain

HomeSpec == HomeInit /\ [][HomeNext]_homeVars
-----------------------------------------------------------------------------
(* What is revoked stays revoked: a device somebody was told is gone is in  *)
(* neither registry again, over failed saves and restarts.                  *)
ForgottenStaysGone == rows = disk /\ forgotten \cap rows = {}

(* "A revocation that leaves the ... connection alive has revoked nothing   *)
(* that matters": every socket of a device that is forgotten is closed once *)
(* its forgetting is done, but for one that was looked up before the row    *)
(* went and entered the hub after its sockets were closed.                  *)
BeingClosed(r) == \E s \in Sockets : doing[s] = "closing" /\ target[s] = r
ForgottenIsCutOff ==
    \A s \in Sockets : socketAt[s] = "open" /\ socketOf[s] \in forgotten => BeingClosed(socketOf[s])

(* As many requests are pending as may be, and one more for each that made  *)
(* room while another was yet to enter.                                     *)
JoinsAreBounded == Len(joins) + callers <= MaxPending - 1 + MaxCallers

(* Revoking the command line rotates its credential: when no forgetting is  *)
(* under way, the file holds a bearer of the registry, and there is a way   *)
(* to bring the first device in.  Two things spoil it, until the next       *)
(* restart: a renewal that failed, and a row forgotten between the moment   *)
(* it is minted and the moment its bearer is written.                       *)
CommandLineIsKept ==
    ~spoiled /\ (\A s \in Sockets : doing[s] = "idle") => cliFile \in rows

HouseholdHolds ==
    /\ HomeTypeOK
    /\ ForgottenStaysGone /\ ForgottenIsCutOff /\ JoinsAreBounded /\ CommandLineIsKept
=============================================================================
