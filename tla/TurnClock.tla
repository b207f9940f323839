------------------------------ MODULE TurnClock ------------------------------
(***************************************************************************)
(* The pausable wall clock of a turn (agentkit/guards.go).  The tool calls  *)
(* of one round run in parallel under one set of deadlines: the turn's, and *)
(* one for each call that runs a sandbox guest.  A call that waits for a   *)
(* person pauses every deadline of the set and bills the wait to a clock   *)
(* all calls share, from which the duration each call reports is worked out.*)
(* Time is a counter; a deadline that is due fires before time goes on.    *)
(***************************************************************************)
EXTENDS Integers

CONSTANTS TurnCalls, \* the tool calls of the round
          Guests,    \* those that run a sandbox guest
          turn,      \* the turn's own deadline
          TurnCap, GuestCap,  \* the two wall-clock caps
          Horizon    \* bound on time

Deadlines == {turn} \cup Guests

ASSUME ClockAssumption ==
  /\ Guests \subseteq TurnCalls
  /\ turn \notin TurnCalls
  /\ TurnCap \in Nat /\ GuestCap \in Nat /\ Horizon \in Nat

VARIABLES
  now,     \* the time
  armed,   \* pausables.items: the deadlines in the set
  at,      \* deadline.at
  left,    \* deadline.remaining
  paused,  \* deadline.paused
  fired,   \* the deadlines whose ctx was cancelled with ErrTurnTimeout
  call,    \* where each call stands
  holds,   \* the deadlines each waiting call's resume restarts
  since,   \* Pause's start, of each waiting call
  start,   \* when each call started
  mark,    \* pausedStart of each call
  banked,  \* pausedClock.nanos
  report,  \* the duration each finished call reports
  charged, \* history: time each deadline was in the set and nobody waited
  active,  \* history: time each call ran and did not wait itself
  apart    \* history: nothing has run yet beside a call that waited

clockVars == <<now, armed, at, left, paused, fired, call, holds, since, start, mark,
          banked, report, charged, active, apart>>

Cap(d) == IF d = turn THEN TurnCap ELSE GuestCap

ClockTypeOK ==
  /\ now \in Nat
  /\ armed \subseteq Deadlines
  /\ at \in [Deadlines -> Nat]
  /\ left \in [Deadlines -> Nat]
  /\ paused \subseteq Deadlines
  /\ fired \subseteq Deadlines
  /\ call \in [TurnCalls -> {"ready", "running", "waiting", "done"}]
  /\ holds \in [TurnCalls -> SUBSET Deadlines]
  /\ since \in [TurnCalls -> Nat]
  /\ start \in [TurnCalls -> Nat]
  /\ mark \in [TurnCalls -> Nat]
  /\ banked \in Nat
  /\ report \in [TurnCalls -> Nat]
  /\ charged \in [Deadlines -> Nat]
  /\ active \in [TurnCalls -> Nat]
  /\ apart \in BOOLEAN

\* decorate: the turn starts with its deadline armed and nothing banked.
ClockInit ==
  /\ now = 0
  /\ armed = {turn}
  /\ at = [d \in Deadlines |-> Cap(d)]
  /\ left = [d \in Deadlines |-> 0]
  /\ paused = {}
  /\ fired = {}
  /\ call = [c \in TurnCalls |-> "ready"]
  /\ holds = [c \in TurnCalls |-> {}]
  /\ since = [c \in TurnCalls |-> 0]
  /\ start = [c \in TurnCalls |-> 0]
  /\ mark = [c \in TurnCalls |-> 0]
  /\ banked = 0
  /\ report = [c \in TurnCalls |-> 0]
  /\ charged = [d \in Deadlines |-> 0]
  /\ active = [c \in TurnCalls |-> 0]
  /\ apart = TRUE

Waiting == {c \in TurnCalls : call[c] = "waiting"}
Out     == {c \in TurnCalls : call[c] \in {"running", "waiting"}}
Due     == {d \in armed \ (paused \cup fired) : at[d] <= now}

-----------------------------------------------------------------------------
\* runTools dispatches a call: its clock starts, and its guest's deadline is
\* added to the set (WithPausableBudget) if it runs one.
Start(c) ==
  /\ call[c] = "ready" /\ turn \notin fired
  /\ call' = [call EXCEPT ![c] = "running"]
  /\ start' = [start EXCEPT ![c] = now]
  /\ mark' = [mark EXCEPT ![c] = banked]
  /\ IF c \in Guests
       THEN /\ armed' = armed \cup {c}
            /\ at' = [at EXCEPT ![c] = now + GuestCap]
       ELSE UNCHANGED <<armed, at>>
  /\ apart' = (apart /\ Waiting = {})
  /\ UNCHANGED <<now, left, paused, fired, holds, since, banked, report, charged, active>>

\* What Pause stops: every deadline of the set that is not stopped already.
Pausable == armed \ paused

\* The time a deadline has left when it is stopped: none if it has fired.
Remaining(d) == IF d \in fired \/ at[d] < now THEN 0 ELSE at[d] - now

\* Pause.
Pause(c) ==
  /\ call[c] = "running"
  /\ call' = [call EXCEPT ![c] = "waiting"]
  /\ since' = [since EXCEPT ![c] = now]
  /\ holds' = [holds EXCEPT ![c] = Pausable]
  /\ paused' = paused \cup Pausable
  /\ left' = [d \in Deadlines |-> IF d \in Pausable THEN Remaining(d) ELSE left[d]]
  /\ apart' = (apart /\ Out = {c})
  /\ UNCHANGED <<now, armed, at, fired, start, mark, banked, report, charged, active>>

\* Fault: a deadline restarts with all its time.
RestartedAfresh(d) == now + Cap(d)

\* When a stopped deadline that starts again is due.
Restarted(d) == now + left[d]

\* The wait that ends now joins the shared clock.
Bank(c) == banked + (now - since[c])

\* The resume Pause returned: what this call stopped runs again, although other
\* calls may still wait.
Resume(c) ==
  /\ call[c] = "waiting"
  /\ call' = [call EXCEPT ![c] = "running"]
  /\ paused' = paused \ holds[c]
  /\ at' = [d \in Deadlines |-> IF d \in holds[c] \cap paused THEN Restarted(d) ELSE at[d]]
  /\ holds' = [holds EXCEPT ![c] = {}]
  /\ banked' = Bank(c)
  /\ UNCHANGED <<now, armed, left, fired, since, start, mark, report, charged, active,
                 apart>>

\* activeSince: the time since the call started, less what was banked meanwhile.
ActiveSince(c) ==
  LET d == (now - start[c]) - (banked - mark[c]) IN IF d < 0 THEN 0 ELSE d

\* The call returns: its guest's deadline leaves the set, its duration is told.
Return(c) ==
  /\ call[c] = "running"
  /\ call' = [call EXCEPT ![c] = "done"]
  /\ armed' = armed \ {c}
  /\ report' = [report EXCEPT ![c] = ActiveSince(c)]
  /\ UNCHANGED <<now, at, left, paused, fired, holds, since, start, mark, banked,
                 charged, active, apart>>

\* A timer fires.
Fire(d) ==
  /\ d \in Due
  /\ fired' = fired \cup {d}
  /\ UNCHANGED <<now, armed, at, left, paused, call, holds, since, start, mark, banked,
                 report, charged, active, apart>>

\* Time passes, until the turn is over.
ClockTick ==
  /\ now < Horizon /\ Due = {} /\ turn \notin fired
  /\ now' = now + 1
  /\ charged' = [d \in Deadlines |->
                   IF d \in armed \ fired /\ Waiting = {} THEN charged[d] + 1 ELSE charged[d]]
  /\ active' = [c \in TurnCalls |-> IF call[c] = "running" THEN active[c] + 1 ELSE active[c]]
  /\ UNCHANGED <<armed, at, left, paused, fired, call, holds, since, start, mark, banked,
                 report, apart>>

ClockNext ==
  \/ \E c \in TurnCalls : Start(c) \/ Pause(c) \/ Resume(c) \/ Return(c)
  \/ \E d \in Deadlines : Fire(d)
  \/ ClockTick

ClockSpec == ClockInit /\ [][ClockNext]_clockVars

-----------------------------------------------------------------------------
\* No deadline lets its run go on for longer than its cap, counting the time when
\* nobody is asked anything, however many calls wait, one after the other or
\* together.
Capped == \A d \in Deadlines : charged[d] <= Cap(d)

\* "time spent waiting on out-of-band approval does not count" (WithTimeout): a
\* deadline fires only once that time has been used up.
WaitingIsFree == \A d \in fired : charged[d] = Cap(d)

\* "the delta is exactly the approval wait that overlapped that call" (the paused
\* clock): a finished call reports the time it ran and did not wait.
DurationIsActive == \A c \in TurnCalls : call[c] = "done" => report[c] = active[c]

\* What both promise holds as long as nothing runs beside a call that waits: a
\* turn that asks for one thing at a time is charged, and reports, exactly.
WaitsApartAreExact == apart => WaitingIsFree /\ DurationIsActive

ClockHolds == ClockTypeOK /\ Capped /\ WaitsApartAreExact
=============================================================================
