------------------------------- MODULE Timers -------------------------------
(***************************************************************************)
(* The one-shot timers of a workspace that survive a restart: reminders     *)
(* (internal/tools/reminders.go) and wakes (internal/tools/wake.go), two    *)
(* stores with a lock and a file each.  A timer that goes off starts a      *)
(* callback; the callback consumes the entry, in memory and on disk, under  *)
(* the store's lock, and delivers it outside.  A cancel, the shutdown and a *)
(* crash may come at any moment of that.                                    *)
(***************************************************************************)
EXTENDS Naturals, FiniteSets

CONSTANTS Ids,         \* the reminders and wakes that are ever made
          Wakes,       \* those that are wakes
          MaxPending,  \* cap on pending wakes
          DiskFails,   \* whether a write may fail
          MaxRestarts  \* bound on the restarts of the daemon

ASSUME TimersAssumption ==
  /\ Wakes \subseteq Ids
  /\ DiskFails \in BOOLEAN
  /\ MaxPending \in Nat /\ MaxRestarts \in Nat

Reminders == Ids \ Wakes

VARIABLES
  items,     \* Reminders.items and Waker.items
  file,      \* what the two files hold
  armed,     \* the runtime timers that are running
  due,       \* callbacks that were started and have not taken the lock
  firing,    \* entries that are consumed, and still to be delivered
  made,      \* history: the entries made so far
  told,      \* history: how often each was delivered
  called,    \* history: those that a cancel by id was told to have cancelled
  failed,    \* history: whether a write has failed
  restarts   \* the restarts so far

timerVars == <<items, file, armed, due, firing, made, told, called, failed, restarts>>

TypeOK ==
  /\ items \subseteq Ids /\ Cardinality(items \cap Wakes) <= MaxPending
  /\ file \subseteq Ids /\ armed \subseteq items
  /\ due \subseteq Ids /\ firing \subseteq Ids
  /\ made \subseteq Ids /\ called \subseteq Reminders
  /\ told \in [Ids -> Nat]
  /\ failed \in BOOLEAN
  /\ restarts \in 0..MaxRestarts

Init ==
  /\ items = {} /\ file = {} /\ armed = {} /\ due = {} /\ firing = {}
  /\ made = {} /\ called = {}
  /\ told = [x \in Ids |-> 0]
  /\ failed = FALSE
  /\ restarts = 0

-----------------------------------------------------------------------------
\* The store an entry belongs to.
Own(x) == IF x \in Wakes THEN Wakes ELSE Reminders

\* save, as part of a step that has set items': the store's file is replaced, or
\* the write fails, is logged, and the old file stays.
Save(x) ==
  \/ file' = (file \ Own(x)) \cup (items' \cap Own(x)) /\ UNCHANGED failed
  \/ DiskFails /\ failed' = TRUE /\ UNCHANGED file

\* create, schedule: a wake beyond the cap is refused.
Schedule(x) ==
  /\ x \notin made
  /\ x \in Wakes => Cardinality(items \cap Wakes) < MaxPending
  /\ made' = made \cup {x}
  /\ items' = items \cup {x}
  /\ Save(x)
  /\ armed' = armed \cup {x}
  /\ UNCHANGED <<due, firing, told, called, restarts>>

\* The runtime's timer goes off and starts the callback in a goroutine.
GoesOff(x) ==
  /\ x \in armed
  /\ armed' = armed \ {x}
  /\ due' = due \cup {x}
  /\ UNCHANGED <<items, file, firing, made, told, called, failed, restarts>>

\* Fault: the callback does not look whether its entry is still pending.
FireUnchecked(x) ==
  /\ x \in due
  /\ due' = due \ {x}
  /\ items' = items \ {x}
  /\ Save(x)
  /\ firing' = firing \cup {x}
  /\ UNCHANGED <<armed, made, told, called, restarts>>

\* fire, fired: consume the entry, unless a cancel has been there before.
Fire(x) ==
  /\ x \in due
  /\ due' = due \ {x}
  /\ IF x \in items
       THEN items' = items \ {x} /\ Save(x) /\ firing' = firing \cup {x}
       ELSE UNCHANGED <<items, file, failed, firing>>
  /\ UNCHANGED <<armed, made, told, called, restarts>>

\* The notification is sent, or the wake's chat is opened and told.
Deliver(x) ==
  /\ x \in firing
  /\ firing' = firing \ {x}
  /\ told' = [told EXCEPT ![x] = @ + 1]
  /\ UNCHANGED <<items, file, armed, due, made, called, failed, restarts>>

\* The text does not pass the scan, the notifier fails, or the chat cannot be
\* opened: the entry is lost.
Drop(x) ==
  /\ x \in firing
  /\ firing' = firing \ {x}
  /\ UNCHANGED <<items, file, armed, due, made, told, called, failed, restarts>>

\* CancelByID, when the reminder is still pending.
CancelByID(x) ==
  /\ x \in Reminders \cap items
  /\ items' = items \ {x}
  /\ armed' = armed \ {x}
  /\ Save(x)
  /\ called' = called \cup {x}
  /\ UNCHANGED <<due, firing, made, told, restarts>>

\* Fault: the timers are forgotten and not stopped.
CancelUnstopped(store) == UNCHANGED timerVars

\* Cancel: every timer of a store is stopped, its entries stay.
Cancel(store) ==
  /\ armed' = armed \ store
  /\ UNCHANGED <<items, file, due, firing, made, told, called, failed, restarts>>

\* Fault: what was loaded is not armed.
RestartUnarmed ==
  /\ restarts < MaxRestarts
  /\ restarts' = restarts + 1
  /\ items' = file
  /\ armed' = {} /\ due' = {} /\ firing' = {}
  /\ UNCHANGED <<file, made, told, called, failed>>

\* The daemon stops, at any moment, and starts again: load and Restore.
Restart ==
  /\ restarts < MaxRestarts
  /\ restarts' = restarts + 1
  /\ items' = file
  /\ armed' = file
  /\ due' = {} /\ firing' = {}
  /\ UNCHANGED <<file, made, told, called, failed>>

-----------------------------------------------------------------------------
\* "removes it" (fire): while every write succeeds nothing is delivered twice,
\* through any restart between consuming an entry and delivering it.
FiresOnce == failed \/ \A x \in Ids : told[x] <= 1

\* CancelByID reports "whether it existed": a reminder that it says it cancelled
\* is never delivered, although its timer may have gone off already and although
\* the daemon restarts.
CancelHolds ==
  failed \/ \A x \in called : told[x] = 0 /\ x \notin items \cup file \cup firing

\* Together: a timer is delivered at most once, and not at all once it is cancelled.
TimersHold == FiresOnce /\ CancelHolds
=============================================================================
