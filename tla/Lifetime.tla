------------------------------ MODULE Lifetime ------------------------------
(***************************************************************************)
(* The end of a workspace (Close, internal/workspace/lifecycle.go) against  *)
(* what goes on in it: turns, which make timers and use the plugins of the  *)
(* snapshot they began with; timers, which start turns; reloads             *)
(* (snapshot.go), which replace the snapshot and retire its plugins.  Turns *)
(* go on until Close has come to their manager.  What CloseAll of a manager *)
(* does is module ChatManager; here it refuses new turns and waits for      *)
(* those that run.  The first step of Close, stopBackground, is module      *)
(* SchedulerLoop.                                                           *)
(***************************************************************************)
EXTENDS Timers

\* The place of each step in Close.
Place == [reminders |-> 1, wakes |-> 2, chats |-> 3, agentChats |-> 4, plugins |-> 5, voice |-> 6]
Managers == {"chats", "agentChats", "voice"}

CONSTANTS Talkers,    \* the managers that turns are started in
          MaxReloads  \* bound on the reloads

ASSUME LifetimeAssumption == Talkers \subseteq Managers /\ MaxReloads \in Nat

VARIABLES
  closed,    \* how many steps of Close are done
  latched,   \* whether the manager that Close is at refuses new turns
  busy,      \* the managers with a turn running
  using,     \* the snapshot whose tools the turn in chats works with
  late,      \* history: the timers made after Close had cancelled their store's
  published, \* Workspace.cur, counting from the snapshot of Open
  reloading, \* whether a Reload has swapped and not yet retired
  retired,   \* Workspace.retired, as the snapshots whose plugins these are
  released   \* the snapshots whose plugins are closed

closeVars  == <<closed, latched, late>>
turnVars   == <<busy, using>>
reloadVars == <<published, reloading, retired, released>>
vars == <<timerVars, closeVars, turnVars, reloadVars>>

LifetimeTypeOK ==
  /\ TypeOK
  /\ closed \in 0..6 /\ latched \in BOOLEAN
  /\ busy \subseteq Managers /\ using \in 0..published
  /\ late \subseteq made
  /\ published \in 0..MaxReloads /\ reloading \in BOOLEAN
  /\ retired \subseteq 0..published /\ released \subseteq 0..published

LifetimeInit ==
  /\ Init
  /\ closed = 0 /\ latched = FALSE /\ late = {}
  /\ busy = {} /\ using = 0
  /\ published = 0 /\ reloading = FALSE
  /\ retired = {} /\ released = {}

\* Close is at this step; the step is done.
Closing(step) == closed + 1 = Place[step]
Done == closed' = closed + 1 /\ latched' = FALSE /\ UNCHANGED late

-----------------------------------------------------------------------------
(* Close. *)

CancelTimers(step, store) ==
  /\ Closing(step)
  /\ Cancel(store)
  /\ Done
  /\ UNCHANGED <<turnVars, reloadVars>>

\* CloseAll of a manager: from the latch on it starts no turn and cancels those
\* that run; it returns when they are over.
Latch(m) ==
  /\ Closing(m) /\ ~latched
  /\ latched' = TRUE
  /\ UNCHANGED <<timerVars, closed, late, turnVars, reloadVars>>

CloseAllReturns(m) ==
  /\ Closing(m) /\ latched
  /\ m \notin busy
  /\ Done
  /\ UNCHANGED <<timerVars, turnVars, reloadVars>>

\* closePlugins: those that were retired, and the current snapshot's.
ClosePlugins ==
  /\ Closing("plugins")
  /\ released' = released \cup retired \cup {published}
  /\ retired' = {}
  /\ Done
  /\ UNCHANGED <<timerVars, turnVars, published, reloading>>

CloseStep ==
  \/ CancelTimers("reminders", Reminders) \/ CancelTimers("wakes", Wakes)
  \/ \E m \in Managers : Latch(m) \/ CloseAllReturns(m)
  \/ ClosePlugins

-----------------------------------------------------------------------------
(* Turns and timers. *)

Refusing(m) == closed >= Place[m] \/ (Closing(m) /\ latched)

\* A message comes to a manager.  If it starts a turn, the root runtime takes the
\* tools of the turn from the current snapshot.
Begins(m) ==
  /\ ~Refusing(m)
  /\ busy' = busy \cup {m}
  /\ using' = IF m = "chats" /\ m \notin busy THEN published ELSE using

StartTurn(m) ==
  /\ m \notin busy
  /\ Begins(m)
  /\ UNCHANGED <<timerVars, closeVars, reloadVars>>

EndTurn(m) ==
  /\ m \in busy
  /\ busy' = busy \ {m}
  /\ using' = IF m = "chats" THEN 0 ELSE using
  /\ UNCHANGED <<timerVars, closeVars, reloadVars>>

StoreOf(x) == IF x \in Wakes THEN "wakes" ELSE "reminders"

\* A tool of the turn makes a timer.  Spoken sessions have remind and not wake.
TurnSchedules(m, x) ==
  /\ m \in busy
  /\ x \in Wakes => m # "voice"
  /\ Schedule(x)
  /\ late' = IF closed >= Place[StoreOf(x)] THEN late \cup {x} ELSE late
  /\ UNCHANGED <<closed, latched, turnVars, reloadVars>>

\* A reminder goes to the notifier whatever Close has come to.
Remind(x) ==
  /\ x \in Reminders
  /\ Deliver(x)
  /\ UNCHANGED <<closeVars, turnVars, reloadVars>>

\* A wake is a message to its chat; if the manager refuses, it is lost (Drop).
WakeUp(x) ==
  /\ x \in Wakes
  /\ Deliver(x)
  /\ \E m \in Talkers \ {"voice"} : Begins(m)
  /\ UNCHANGED <<closeVars, reloadVars>>

TimerStep(x) ==
  /\ GoesOff(x) \/ Fire(x) \/ Drop(x) \/ CancelByID(x)
  /\ UNCHANGED <<closeVars, turnVars, reloadVars>>

-----------------------------------------------------------------------------
(* Reload, under reloadMu, and the end of the process. *)

Swap ==
  /\ ~reloading /\ published < MaxReloads
  /\ published' = published + 1
  /\ reloading' = TRUE
  /\ UNCHANGED <<timerVars, closeVars, turnVars, retired, released>>

\* Fault: the plugins of the old snapshot are closed at once.
RetireReleases ==
  /\ reloading
  /\ reloading' = FALSE
  /\ released' = released \cup {published - 1}
  /\ UNCHANGED <<timerVars, closeVars, turnVars, published, retired>>

Retire ==
  /\ reloading
  /\ reloading' = FALSE
  /\ retired' = retired \cup {published - 1}
  /\ UNCHANGED <<timerVars, closeVars, turnVars, published, released>>

\* The process ends, in whatever state, and the next one opens the workspace.
Reopen ==
  /\ Restart
  /\ closed' = 0 /\ latched' = FALSE /\ late' = {}
  /\ busy' = {} /\ using' = 0
  /\ published' = 0 /\ reloading' = FALSE
  /\ retired' = {} /\ released' = {}

LifetimeNext ==
  \/ CloseStep
  \/ \E m \in Talkers : StartTurn(m) \/ EndTurn(m) \/ \E x \in Ids : TurnSchedules(m, x)
  \/ \E x \in Ids : Remind(x) \/ WakeUp(x) \/ TimerStep(x)
  \/ Swap \/ Retire \/ Reopen

LifetimeSpec == LifetimeInit /\ [][LifetimeNext]_vars

\* Timers go off, and their callbacks run.
Fairness == \A x \in Ids :
  /\ WF_vars(GoesOff(x) /\ TimerStep(x))
  /\ WF_vars(Fire(x) /\ TimerStep(x))

LifetimeFairSpec == LifetimeSpec /\ Fairness

Closed == closed = Place.voice

-----------------------------------------------------------------------------
\* "closing those at reload time would mean guessing" (Workspace.retired): no turn
\* of a chat works with tools whose plugins are closed.
PluginsOutliveTurns == "chats" \in busy => using \notin released

\* What Close does stop: only a timer made after its store's Cancel is still
\* running when Close has returned.
OnlyLateTimersRemain == Closed => armed \subseteq late

\* "Re-arm persisted reminders and wakes" (Open): a timer that is pending in an open
\* workspace goes off, the ones loaded after a restart included.
EveryTimerGoesOff ==
  \A x \in Ids : (x \in items /\ closed = 0) ~> (x \notin items \/ closed > 0)

\* "It must stop ALL of them" (Close): no timer is running when Close has returned.
NothingArmedAfterClose == Closed => armed = {}
=============================================================================
