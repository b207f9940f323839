------------------------------ MODULE RunTree ------------------------------
(***************************************************************************)
(* One turn of an agentkit session as the tree of runs it is: every run    *)
(* asks the model, executes the calls of its answer in parallel and feeds  *)
(* the results back; a call to an AgentTool is a run of its own (Once).    *)
(* The runs share the turn's token pool, the population of spawned agents  *)
(* and its context; each counts its own rounds.                            *)
(*                                                                         *)
(* Run 0 is the turn's own; an agent's run has the number its spawn drew   *)
(* from the shared counter.  Which tool a call names and what it answers   *)
(* is left out: a call is open until its function returns, an agent's call *)
(* until its run has ended.                                                *)
(***************************************************************************)
EXTENDS Naturals, FiniteSets

CONSTANTS
    Limit,          \* Session.tokenLimit, 0 for none
    MaxDepth,       \* spawnState.maxDepth
    MaxSpawns,      \* spawnState.maxSpawns
    MaxSteps,       \* Session.maxSteps
    MaxRound,       \* bound: tokens of one round with the model
    MaxCalls        \* bound: calls in one answer of the model

ASSUME TreeAssumption ==
    /\ Limit \in Nat /\ MaxDepth \in Nat \ {0} /\ MaxSpawns \in Nat \ {0}
    /\ MaxSteps \in Nat \ {0} /\ MaxRound \in Nat /\ MaxCalls \in Nat \ {0}

Runs == 0..MaxSpawns
Root == 0

VARIABLES
    runAt,          \* none, ready (for a round), model, tools, ended
    runParent,      \* the run whose call this one answers
    runDepth,       \* spawnDepthKey of its context
    runSteps,       \* rounds begun
    runCost,        \* tokens of the round whose calls execute
    runOpen,        \* calls of that round that execute, the agents' apart
    turnSpent,      \* tokenBudget.used
    turnSpawned,    \* spawnState.spawned, which only counts on past MaxSpawns
    turnCancelled,  \* the turn's context has ended: cancelled, timed out, closed
    overLimit       \* history: the runs that were told that the limit is reached

treeVars == <<runAt, runParent, runDepth, runSteps, runCost, runOpen, turnSpent, turnSpawned,
              turnCancelled, overLimit>>

TreeInit ==
    /\ runAt = [r \in Runs |-> "none"]
    /\ runParent = [r \in Runs |-> Root]
    /\ runDepth = [r \in Runs |-> 0]
    /\ runSteps = [r \in Runs |-> 0]
    /\ runCost = [r \in Runs |-> 0]
    /\ runOpen = [r \in Runs |-> 0]
    /\ turnSpent = 0 /\ turnSpawned = 0 /\ turnCancelled = FALSE
    /\ overLimit = {}

TreeTypeOK ==
    /\ runAt \in [Runs -> {"none", "ready", "model", "tools", "ended"}]
    /\ runParent \in [Runs -> Runs]
    /\ runDepth \in [Runs -> 0..MaxDepth]
    /\ runSteps \in [Runs -> 0..MaxSteps]
    /\ runCost \in [Runs -> 0..MaxRound]
    /\ runOpen \in [Runs -> 0..MaxCalls]
    /\ turnSpent \in Nat /\ turnSpawned \in 0..MaxSpawns + 1
    /\ turnCancelled \in BOOLEAN /\ overLimit \subseteq Runs

-----------------------------------------------------------------------------
Children(r) == {c \in Runs \ {Root} : runParent[c] = r /\ runAt[c] # "none"}

EndRun(r) == runAt' = [runAt EXCEPT ![r] = "ended"]

(* The session's loop takes a message: the turn begins with its own run. *)
BeginTurn ==
    /\ runAt[Root] = "none"
    /\ runAt' = [runAt EXCEPT ![Root] = "ready"]
    /\ UNCHANGED <<runParent, runDepth, runSteps, runCost, runOpen, turnSpent, turnSpawned,
                   turnCancelled, overLimit>>

(* The pool takes the round's tokens and says whether the limit is reached. *)
Spend(r, n) ==
    /\ turnSpent' = turnSpent + n
    /\ overLimit' = IF Limit > 0 /\ turnSpent' >= Limit THEN overLimit \cup {r} ELSE overLimit

(* The head of run's loop: the context has ended, or the rounds are used up, *)
(* or the model is asked once more.                                          *)
StopAtRound(r) ==
    /\ runAt[r] = "ready" /\ (turnCancelled \/ runSteps[r] = MaxSteps)
    /\ EndRun(r)
    /\ UNCHANGED <<runParent, runDepth, runSteps, runCost, runOpen, turnSpent, turnSpawned,
                   turnCancelled, overLimit>>

AskModel(r) ==
    /\ runAt[r] = "ready" /\ ~turnCancelled /\ runSteps[r] < MaxSteps
    /\ runAt' = [runAt EXCEPT ![r] = "model"]
    /\ runSteps' = [runSteps EXCEPT ![r] = @ + 1]
    /\ UNCHANGED <<runParent, runDepth, runCost, runOpen, turnSpent, turnSpawned, turnCancelled,
                   overLimit>>

(* The model call fails, as it does when the context ends under it. *)
ModelFails(r) ==
    /\ runAt[r] = "model"
    /\ EndRun(r)
    /\ UNCHANGED <<runParent, runDepth, runSteps, runCost, runOpen, turnSpent, turnSpawned,
                   turnCancelled, overLimit>>

(* A final answer is paid for, and ends the run with or without ErrTokenLimit. *)
Answer(r, n) ==
    /\ runAt[r] = "model"
    /\ Spend(r, n) /\ EndRun(r)
    /\ UNCHANGED <<runParent, runDepth, runSteps, runCost, runOpen, turnSpawned, turnCancelled>>

(* Calls are executed, all of them in parallel, before the round is paid for. *)
CallTools(r, n, k) ==
    /\ runAt[r] = "model"
    /\ runAt' = [runAt EXCEPT ![r] = "tools"]
    /\ runCost' = [runCost EXCEPT ![r] = n]
    /\ runOpen' = [runOpen EXCEPT ![r] = k]
    /\ UNCHANGED <<runParent, runDepth, runSteps, turnSpent, turnSpawned, turnCancelled, overLimit>>

(* An ordinary call returns, a tool nobody knows is refused, or an agent is *)
(* called too deep, which charges nothing: all of it is a result.           *)
ToolReturns(r) ==
    /\ runOpen[r] > 0
    /\ runOpen' = [runOpen EXCEPT ![r] = @ - 1]
    /\ UNCHANGED <<runAt, runParent, runDepth, runSteps, runCost, turnSpent, turnSpawned,
                   turnCancelled, overLimit>>

(* enterSpawn charges the population first; over the cap, or when the       *)
(* arguments do not parse, the charge stays and no run begins.              *)
ChargeInVain(r) ==
    /\ runOpen[r] > 0 /\ runDepth[r] < MaxDepth
    /\ turnSpawned' = IF turnSpawned > MaxSpawns THEN turnSpawned ELSE turnSpawned + 1
    /\ runOpen' = [runOpen EXCEPT ![r] = @ - 1]
    /\ UNCHANGED <<runAt, runParent, runDepth, runSteps, runCost, turnSpent, turnCancelled,
                   overLimit>>

Spawn(r) ==
    /\ runOpen[r] > 0 /\ runDepth[r] < MaxDepth /\ turnSpawned < MaxSpawns
    /\ turnSpawned' = turnSpawned + 1
    /\ runOpen' = [runOpen EXCEPT ![r] = @ - 1]
    /\ runAt' = [runAt EXCEPT ![turnSpawned'] = "ready"]
    /\ runParent' = [runParent EXCEPT ![turnSpawned'] = r]
    /\ runDepth' = [runDepth EXCEPT ![turnSpawned'] = runDepth[r] + 1]
    /\ UNCHANGED <<runSteps, runCost, turnSpent, turnCancelled, overLimit>>

\* Fault: a cancelled round is not waited for.
RoundIsAbandoned(r) == turnCancelled \/ (runOpen[r] = 0 /\ \A c \in Children(r) : runAt[c] = "ended")

(* runTools has waited for every call; only now is the round paid for. *)
RoundIsOver(r) == runOpen[r] = 0 /\ \A c \in Children(r) : runAt[c] = "ended"

Pay(r) ==
    /\ runAt[r] = "tools" /\ RoundIsOver(r)
    /\ Spend(r, runCost[r])
    /\ runAt' = [runAt EXCEPT ![r] = IF r \in overLimit' THEN "ended" ELSE "ready"]
    /\ runCost' = [runCost EXCEPT ![r] = 0]
    /\ UNCHANGED <<runParent, runDepth, runSteps, runOpen, turnSpawned, turnCancelled>>

CancelTurn ==
    /\ ~turnCancelled /\ runAt[Root] \notin {"none", "ended"}
    /\ turnCancelled' = TRUE
    /\ UNCHANGED <<runAt, runParent, runDepth, runSteps, runCost, runOpen, turnSpent, turnSpawned,
                   overLimit>>

RunStep(r) ==
    \/ StopAtRound(r) \/ AskModel(r) \/ ModelFails(r) \/ ToolReturns(r) \/ ChargeInVain(r)
    \/ Spawn(r) \/ Pay(r)
    \/ \E n \in 0..MaxRound : Answer(r, n) \/ \E k \in 1..MaxCalls : CallTools(r, n, k)

TreeNext == BeginTurn \/ CancelTurn \/ \E r \in Runs : RunStep(r)
TreeSpec == TreeInit /\ [][TreeNext]_treeVars
-----------------------------------------------------------------------------
(* How far a turn goes past its limit.  Rounds are paid for when they are  *)
(* over, and every run of the tree has to find out for itself: the runs    *)
(* under way finish the round they are in, agents spawned after the limit  *)
(* was reached included.  That is one round for each run that ever began,  *)
(* and never a second.                                                     *)
Begun == {r \in Runs : runAt[r] # "none"}
OvershootIsBounded ==
    Limit > 0 => turnSpent <= (Limit - 1) + MaxRound * Cardinality(Begun)

(* A run that has ended has left nothing behind: no call of it executes    *)
(* and no agent it spawned runs, however it ended and whenever the turn    *)
(* was cancelled.  So a turn's last event really is its last.              *)
NothingOutlivesItsRun ==
    \A r \in Runs : runAt[r] \in {"none", "ended"}
                       => runOpen[r] = 0 /\ \A c \in Children(r) : runAt[c] = "ended"

(* A turn stays within its limits while it runs, and leaves nothing behind. *)
TurnHolds == TreeTypeOK /\ OvershootIsBounded /\ NothingOutlivesItsRun
=============================================================================
