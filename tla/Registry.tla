------------------------------ MODULE Registry ------------------------------
(***************************************************************************)
(* The daemon's set of open workspaces (internal/workspace/registry.go).   *)
(* Devices create and delete workspaces at the same time; opening one and  *)
(* closing one take seconds and happen outside the lock.  A workspace is   *)
(* known by its number in the order of opening; what one does while it is  *)
(* open is modules Lifetime and SchedulerLoop.                             *)
(*                                                                         *)
(* The daemon may stop, in the middle of anything, and start again.        *)
(***************************************************************************)
EXTENDS Naturals, FiniteSets

CONSTANTS
    Phones,         \* the devices that create and delete
    Default,        \* DefaultWorkspace
    Others,         \* the other names
    MaxOpens,       \* bound: workspaces opened
    MaxStarts       \* bound: starts of the daemon after the first

Names == {Default} \cup Others

ASSUME RegistryAssumption ==
    Default \notin Others /\ MaxOpens \in Nat /\ MaxOpens > 0 /\ MaxStarts \in Nat

VARIABLES
    regSpaces,      \* Registry.spaces, 0 where there is none
    regCreating,    \* Registry.creating
    regDoing,       \* per device: the call it is in and the workspace it handles
    regOpen,        \* the workspaces that have their directory open, by name
    regAttached,    \* the workspaces the daemon's hook has run for
    regDirs,        \* the names with a directory under the root
    regOpened,      \* workspaces opened so far
    regStarts,      \* starts of the daemon so far
    regDeleted      \* history: the names deleted for good, as a device was told

regVars == <<regSpaces, regCreating, regDoing, regOpen, regAttached, regDirs, regOpened, regStarts,
             regDeleted>>

Nothing == [at |-> "nothing", name |-> Default, ws |-> 0]
Doing(at, n, i) == [at |-> at, name |-> n, ws |-> i]

\* The first start: only the default workspace is there.
RegInit ==
    /\ regSpaces = [n \in Names |-> IF n = Default THEN 1 ELSE 0]
    /\ regCreating = {}
    /\ regDoing = [d \in Phones |-> Nothing]
    /\ regOpen = {<<Default, 1>>} /\ regAttached = {1}
    /\ regDirs = {Default} /\ regOpened = 1 /\ regStarts = 0
    /\ regDeleted = {}

RegTypeOK ==
    /\ regSpaces \in [Names -> 0..MaxOpens]
    /\ regCreating \subseteq Names
    /\ regDoing \in [Phones -> [at : {"nothing", "reserved", "opening", "hooking", "closing", "moving"},
                                 name : Names, ws : 0..MaxOpens]]
    /\ regOpen \subseteq Names \X (1..MaxOpens) /\ regAttached \subseteq 1..MaxOpens
    /\ regDirs \subseteq Names /\ regOpened \in 1..MaxOpens /\ regStarts \in 0..MaxStarts
    /\ regDeleted \subseteq Names

-----------------------------------------------------------------------------
At(d, at) == regDoing[d].at = at
Goes(d, call) == regDoing' = [regDoing EXCEPT ![d] = call]

\* Fault: only the names that can be found are taken.
ReserveUnmarked(d, n) ==
    /\ At(d, "nothing") /\ regSpaces[n] = 0
    /\ regCreating' = regCreating \cup {n}
    /\ regDeleted' = regDeleted \ {n}
    /\ Goes(d, Doing("reserved", n, 0))
    /\ UNCHANGED <<regSpaces, regOpen, regAttached, regDirs, regOpened, regStarts>>

(* Create: the name is reserved under the lock, in a set of its own. *)
Reserve(d, n) ==
    /\ At(d, "nothing") /\ regSpaces[n] = 0 /\ n \notin regCreating
    /\ regCreating' = regCreating \cup {n}
    /\ regDeleted' = regDeleted \ {n}
    /\ Goes(d, Doing("reserved", n, 0))
    /\ UNCHANGED <<regSpaces, regOpen, regAttached, regDirs, regOpened, regStarts>>

(* Open begins outside the lock: it makes the directory, or finds one. *)
BeginOpen(d) ==
    /\ At(d, "reserved") /\ regOpened < MaxOpens
    /\ regOpened' = regOpened + 1
    /\ regDirs' = regDirs \cup {regDoing[d].name}
    /\ regOpen' = regOpen \cup {<<regDoing[d].name, regOpened'>>}
    /\ Goes(d, Doing("opening", regDoing[d].name, regOpened'))
    /\ UNCHANGED <<regSpaces, regCreating, regAttached, regStarts, regDeleted>>

(* It fails: the name is free again, what was made of the directory stays. *)
OpenFails(d) ==
    /\ At(d, "opening")
    /\ regOpen' = regOpen \ {<<regDoing[d].name, regDoing[d].ws>>}
    /\ regCreating' = regCreating \ {regDoing[d].name}
    /\ Goes(d, Nothing)
    /\ UNCHANGED <<regSpaces, regAttached, regDirs, regOpened, regStarts, regDeleted>>

(* It is open and has its title: commands find it. *)
Insert(d) ==
    /\ At(d, "opening")
    /\ regSpaces' = [regSpaces EXCEPT ![regDoing[d].name] = regDoing[d].ws]
    /\ Goes(d, Doing("hooking", regDoing[d].name, regDoing[d].ws))
    /\ UNCHANGED <<regCreating, regOpen, regAttached, regDirs, regOpened, regStarts, regDeleted>>

(* The daemon's hook, which starts the agents; then the name's reservation ends. *)
Hook(d) ==
    /\ At(d, "hooking")
    /\ regAttached' = regAttached \cup {regDoing[d].ws}
    /\ regCreating' = regCreating \ {regDoing[d].name}
    /\ Goes(d, Nothing)
    /\ UNCHANGED <<regSpaces, regOpen, regDirs, regOpened, regStarts, regDeleted>>

(* Delete: out of the registry first ... *)
Remove(d, n) ==
    /\ At(d, "nothing") /\ n # Default /\ regSpaces[n] # 0
    /\ regSpaces' = [regSpaces EXCEPT ![n] = 0]
    /\ Goes(d, Doing("closing", n, regSpaces[n]))
    /\ UNCHANGED <<regCreating, regOpen, regAttached, regDirs, regOpened, regStarts, regDeleted>>

(* ... then closed ... *)
FinishClose(d) ==
    /\ At(d, "closing")
    /\ regOpen' = regOpen \ {<<regDoing[d].name, regDoing[d].ws>>}
    /\ Goes(d, Doing("moving", regDoing[d].name, regDoing[d].ws))
    /\ UNCHANGED <<regSpaces, regCreating, regAttached, regDirs, regOpened, regStarts, regDeleted>>

(* ... and then the directory is moved to the trash, or an error is reported. *)
MoveAway(d) ==
    /\ At(d, "moving") /\ regDoing[d].name \in regDirs
    /\ regDirs' = regDirs \ {regDoing[d].name}
    /\ regDeleted' = IF regDoing[d].name \in regCreating \/ regSpaces[regDoing[d].name] # 0
                       THEN regDeleted ELSE regDeleted \cup {regDoing[d].name}
    /\ Goes(d, Nothing)
    /\ UNCHANGED <<regSpaces, regCreating, regOpen, regAttached, regOpened, regStarts>>

MoveFails(d) ==
    /\ At(d, "moving")
    /\ Goes(d, Nothing)
    /\ UNCHANGED <<regSpaces, regCreating, regOpen, regAttached, regDirs, regOpened, regStarts,
                   regDeleted>>

(* The daemon stops, wherever its calls are, and starts again: NewRegistry  *)
(* opens what has a directory, the trash apart, and the default in any case. *)
StartAgain ==
    LET found == regDirs \cup {Default}
    IN  /\ regStarts < MaxStarts /\ regOpened + Cardinality(found) <= MaxOpens
        /\ regStarts' = regStarts + 1
        /\ regOpened' = regOpened + Cardinality(found)
        /\ regSpaces' \in {f \in [Names -> 0..MaxOpens] :
                /\ \A n \in Names : f[n] # 0 <=> n \in found
                /\ {f[n] : n \in found} = (regOpened + 1)..regOpened'}
        /\ regCreating' = {} /\ regDoing' = [d \in Phones |-> Nothing]
        /\ regOpen' = {<<n, regSpaces'[n]>> : n \in found}
        /\ regAttached' = (regOpened + 1)..regOpened'
        /\ regDirs' = found
        /\ UNCHANGED regDeleted

RegCall(d) ==
    \/ BeginOpen(d) \/ OpenFails(d) \/ Insert(d) \/ Hook(d)
    \/ FinishClose(d) \/ MoveAway(d) \/ MoveFails(d)

RegNext ==
    \/ \E d \in Phones, n \in Names : Reserve(d, n) \/ Remove(d, n)
    \/ \E d \in Phones : RegCall(d)
    \/ StartAgain

RegSpec == RegInit /\ [][RegNext]_regVars
-----------------------------------------------------------------------------
(* "two devices creating the same name cannot both reach Open" (Create):   *)
(* of all the workspaces of a name that are being opened or can be found,  *)
(* there is one, and what can be found has been opened and not closed.     *)
InHand(n) == {i \in 1..MaxOpens : regSpaces[n] = i} \cup
             {regDoing[d].ws : d \in {e \in Phones : regDoing[e].name = n /\ At(e, "opening")}}
CreatesApart ==
    \A n \in Names : /\ Cardinality(InHand(n)) <= 1
                     /\ \A i \in InHand(n) : <<n, i>> \in regOpen

(* A device that was told that its workspace is deleted does not meet it    *)
(* again, not after a restart either, unless somebody creates the name anew. *)
DeletedStaysDeleted ==
    \A n \in regDeleted : regSpaces[n] = 0 /\ n \notin regDirs

RegistryHolds == RegTypeOK /\ CreatesApart /\ DeletedStaysDeleted
=============================================================================
