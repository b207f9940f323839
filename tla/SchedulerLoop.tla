--------------------------- MODULE SchedulerLoop ---------------------------
(***************************************************************************)
(* What StartAgents runs in the background of a workspace                   *)
(* (internal/workspace/lifecycle.go).  It is called in a goroutine of the   *)
(* daemon and may come after Close.  Its loop keeps one scheduler running   *)
(* over the agents of the current snapshot and builds the next when a       *)
(* reload signals; Reload (snapshot.go) swaps the snapshot and signals       *)
(* afterwards, with nothing that keeps the loop from coming in between.     *)
(* The document reconcile runs beside it.                                    *)
(***************************************************************************)
EXTENDS Naturals, FiniteSets

CONSTANT MaxSwaps  \* bound on the reloads

ASSUME SchedulerAssumption == MaxSwaps \in Nat

VARIABLES
  bgClosed,  \* Workspace.bgClosed
  stopBg,    \* Workspace.stopBg: whether a StartAgents has registered
  stopped,   \* whether its context is done
  starter,   \* StartAgents: "away" until the daemon's hook calls it, "new", "take", "read",
             \* "wait", "drain", "leave", "over"
  watching,  \* whether the document reconcile runs
  held,      \* the signal the loop waits for
  reading,   \* the snapshot the loop took the agents from
  gens,      \* the schedulers that run, named by the signal of their pass
  current, \* Workspace.cur, counting from the snapshot of Open
  signal     \* Workspace.reloaded, counting the channels closed so far

loopVars == <<starter, watching, held, reading, gens>>
stopVars == <<bgClosed, stopBg, stopped>>
schedVars == <<loopVars, stopVars, current, signal>>

SchedTypeOK ==
  /\ bgClosed \in BOOLEAN /\ stopBg \in BOOLEAN /\ stopped \in BOOLEAN
  /\ starter \in {"away", "new", "take", "read", "wait", "drain", "leave", "over"}
  /\ watching \in BOOLEAN
  /\ current \in 0..MaxSwaps
  /\ signal \in 0..current /\ current <= signal + 1
  /\ held \in 0..signal /\ reading \in 0..current
  /\ gens \subseteq 0..held

SchedInit ==
  /\ bgClosed = FALSE /\ stopBg = FALSE /\ stopped = FALSE
  /\ starter = "away" /\ watching = FALSE
  /\ held = 0 /\ reading = 0 /\ gens = {}
  /\ current = 0 /\ signal = 0

-----------------------------------------------------------------------------
\* The daemon takes the workspace up, which may be closed by then.
Attach ==
  /\ starter = "away" /\ starter' = "new"
  /\ UNCHANGED <<watching, held, reading, gens, stopVars, current, signal>>

\* Fault: no latch.
StartUnlatched ==
  /\ starter = "new"
  /\ starter' = "take" /\ watching' = TRUE /\ stopBg' = TRUE
  /\ UNCHANGED <<held, reading, gens, bgClosed, stopped, current, signal>>

\* StartAgents: register with Close, unless Close has been there.
StartAgents ==
  /\ starter = "new"
  /\ IF bgClosed THEN starter' = "over" /\ UNCHANGED <<watching, stopBg>>
                 ELSE starter' = "take" /\ watching' = TRUE /\ stopBg' = TRUE
  /\ UNCHANGED <<held, reading, gens, bgClosed, stopped, current, signal>>

\* The first halves of a pass: take the signal; and the agents, and start a
\* scheduler on them.
Take == held' = signal /\ UNCHANGED reading
Read == reading' = current /\ UNCHANGED held
Begin == gens' = gens \cup {held'}

\* Fault: the agents are read before the signal is taken.
NextGenerationReadsFirst ==
  /\ \/ starter = "take" /\ starter' = "read" /\ Read /\ UNCHANGED gens
     \/ starter = "read" /\ starter' = "wait" /\ Take /\ Begin
  /\ UNCHANGED <<watching, stopVars, current, signal>>

\* One pass of runScheduler, up to its select.
NextGeneration ==
  /\ \/ starter = "take" /\ starter' = "read" /\ Take /\ UNCHANGED gens
     \/ starter = "read" /\ starter' = "wait" /\ Read /\ Begin
  /\ UNCHANGED <<watching, stopVars, current, signal>>

\* The select: with both ready it takes either.
Awaken ==
  /\ starter = "wait"
  /\ \/ stopped /\ starter' = "leave"
     \/ signal > held /\ starter' = "drain"
  /\ UNCHANGED <<watching, held, reading, gens, stopVars, current, signal>>

\* Fault: the next pass begins although the scheduler has not returned.
DrainedAtOnce ==
  /\ \/ starter = "leave" /\ starter' = "over"
     \/ starter = "drain" /\ starter' = "take"
  /\ UNCHANGED <<watching, held, reading, gens, stopVars, current, signal>>

\* <-stopped: the scheduler of this pass has returned.
Drained ==
  /\ held \notin gens
  /\ \/ starter = "leave" /\ starter' = "over"
     \/ starter = "drain" /\ starter' = "take"
  /\ UNCHANGED <<watching, held, reading, gens, stopVars, current, signal>>

\* A scheduler returns when its context is done, and by itself when no agent of
\* its snapshot is scheduled.
Cancelled(g) == stopped \/ g < held \/ starter \in {"drain", "leave"}

SchedulerReturns(g) ==
  /\ g \in gens
  /\ gens' = gens \ {g}
  /\ UNCHANGED <<starter, watching, held, reading, stopVars, current, signal>>

\* knowledge.Watch returns when its context is done, after the reconcile it is in.
WatchReturns ==
  /\ watching /\ stopped
  /\ watching' = FALSE
  /\ UNCHANGED <<starter, held, reading, gens, stopVars, current, signal>>

\* Reload: swap, and later restartScheduler.  reloadMu keeps two from overlapping.
SwapAgents ==
  /\ current = signal /\ current < MaxSwaps
  /\ current' = current + 1
  /\ UNCHANGED <<loopVars, stopVars, signal>>

RestartScheduler ==
  /\ signal < current
  /\ signal' = signal + 1
  /\ UNCHANGED <<loopVars, stopVars, current>>

\* Close, stopBackground: latch, and stop what StartAgents has registered.
StopBackground ==
  /\ bgClosed' = TRUE
  /\ stopBg' = FALSE
  /\ stopped' = (stopped \/ stopBg)
  /\ UNCHANGED <<loopVars, current, signal>>

\* The daemon is told to stop: the context it gave StartAgents is done.
Shutdown ==
  /\ stopped' = TRUE
  /\ UNCHANGED <<loopVars, bgClosed, stopBg, current, signal>>

LoopStep == StartAgents \/ NextGeneration \/ Awaken \/ Drained

SchedNext ==
  \/ Attach \/ LoopStep \/ WatchReturns \/ \E g \in gens : SchedulerReturns(g)
  \/ SwapAgents \/ RestartScheduler \/ StopBackground \/ Shutdown

SchedSpec == SchedInit /\ [][SchedNext]_schedVars

\* Goroutines run, a cancelled scheduler returns, and a Reload that has swapped signals.
SchedFairness ==
  /\ WF_schedVars(LoopStep) /\ WF_schedVars(WatchReturns)
  /\ WF_schedVars(\E g \in gens : Cancelled(g) /\ SchedulerReturns(g))
  /\ WF_schedVars(RestartScheduler)

SchedFairSpec == SchedSpec /\ SchedFairness

-----------------------------------------------------------------------------
\* "Exactly one generation runs at a time" (runScheduler): two schedulers never
\* overlap, so no agent that is due is fired by both.
OneGeneration == Cardinality(gens) <= 1

\* "one wasted iteration, then the new agent set" (runScheduler): a reload reaches
\* the loop wherever it lands between taking the signal and reading the agents.
SchedulerCatchesUp ==
  (starter = "wait" /\ reading # current) ~> (reading = current \/ stopped)

\* "closed before started is an ordinary interleaving, not a corner case"
\* (stopBackground): in either order, what StartAgents runs comes to rest.
BackgroundEnds ==
  bgClosed /\ starter # "away" ~> (starter = "over" /\ gens = {} /\ ~watching)
=============================================================================
