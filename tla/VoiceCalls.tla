----------------------------- MODULE VoiceCalls -----------------------------
(***************************************************************************)
(* One spoken conversation (Driver.Run, internal/voice/driver.go): the     *)
(* loop that takes the provider's events, the goroutines that run its tool *)
(* calls beside it and may wait for a person, the silence timer, and the   *)
(* end of it all.  A call's goroutine enters it in the table of running    *)
(* calls itself, some time after the loop has spawned it.                  *)
(*                                                                         *)
(* Sound and transcript are left out.  The rest of the provider's events   *)
(* are one action, since all the loop does with them here is to stop the   *)
(* timer.                                                                  *)
(***************************************************************************)
CONSTANT
    ToolCalls       \* the calls the provider makes, by id

VARIABLES
    runPhase,       \* Run: open, ending (its context is cancelled), over (the session is closed)
    callAt,         \* per call: none, spawned, running, asking, decided, answered, checked, done
    inflight,       \* conversation.inflight: the calls that can be cancelled by id
    callStopped,    \* the calls whose own context was cancelled by id
    silence,        \* the silence timer runs
    light,          \* the device shows that the conversation waits for a person
    overlooked      \* history: the calls in hand, but not in the table, when the timer was started

callVars == <<runPhase, callAt, inflight, callStopped, silence, light, overlooked>>

CallInit ==
    /\ runPhase = "open"
    /\ callAt = [k \in ToolCalls |-> "none"]
    /\ inflight = {} /\ callStopped = {}
    /\ silence = FALSE /\ light = FALSE
    /\ overlooked = {}

UnderWay == {"spawned", "running", "asking", "decided", "answered", "checked"}
CallTypeOK ==
    /\ runPhase \in {"open", "ending", "over"}
    /\ callAt \in [ToolCalls -> UnderWay \cup {"none", "done"}]
    /\ inflight \subseteq ToolCalls /\ callStopped \subseteq ToolCalls
    /\ silence \in BOOLEAN /\ light \in BOOLEAN
    /\ overlooked \subseteq ToolCalls

-----------------------------------------------------------------------------
CallsInHand == {k \in ToolCalls : callAt[k] \in UnderWay}
CallGoes(k, at) == callAt' = [callAt EXCEPT ![k] = at]
\* Fault: the end of the conversation does not reach its calls.
CallStopsByIdOnly(k) == k \in callStopped

CallStops(k) == k \in callStopped \/ runPhase # "open"

(* The loop: a call is given to a goroutine of its own; everything but the *)
(* end of a turn stops the silence timer.                                  *)
CallMade(k) ==
    /\ runPhase = "open" /\ callAt[k] = "none"
    /\ CallGoes(k, "spawned")
    /\ silence' = FALSE
    /\ UNCHANGED <<runPhase, inflight, callStopped, light, overlooked>>

(* The provider takes calls back: those in the table are cancelled. *)
CallsCancelled(ids) ==
    /\ runPhase = "open" /\ ids # {}
    /\ \A k \in ids : callAt[k] \in UnderWay
    /\ callStopped' = callStopped \cup (ids \cap inflight)
    /\ inflight' = inflight \ ids
    /\ silence' = FALSE
    /\ UNCHANGED <<runPhase, callAt, light, overlooked>>

\* Fault: the end of a turn starts it whatever the table holds.
TurnDoneAnyway ==
    /\ runPhase = "open"
    /\ silence' = TRUE
    /\ overlooked' = CallsInHand \ inflight
    /\ UNCHANGED <<runPhase, callAt, inflight, callStopped, light>>

\* The end of a turn starts it, unless a call is in the table.
TurnDone ==
    /\ runPhase = "open" /\ inflight = {}
    /\ silence' = TRUE
    /\ overlooked' = CallsInHand \ inflight
    /\ UNCHANGED <<runPhase, callAt, inflight, callStopped, light>>

\* Speech, text, an interruption, or the device's own detector.
SignOfLife ==
    /\ runPhase = "open" /\ silence
    /\ silence' = FALSE
    /\ UNCHANGED <<runPhase, callAt, inflight, callStopped, light, overlooked>>

(* Silence, the budget, a stop, hang_up, a failure of the device or of the  *)
(* provider: the loop returns, and cancels first.                           *)
LoopReturns ==
    /\ runPhase = "open" /\ runPhase' = "ending" /\ silence' = FALSE
    /\ UNCHANGED <<callAt, inflight, callStopped, light, overlooked>>

SilenceEnds ==
    /\ silence /\ LoopReturns

(* Then it waits for every goroutine, and closes the session. *)
RunOver ==
    /\ runPhase = "ending" /\ CallsInHand = {}
    /\ runPhase' = "over"
    /\ UNCHANGED <<callAt, inflight, callStopped, silence, light, overlooked>>

-----------------------------------------------------------------------------
(* A call's goroutine (invoke). *)

Register(k) ==
    /\ callAt[k] = "spawned" /\ CallGoes(k, "running")
    /\ inflight' = inflight \cup {k}
    /\ UNCHANGED <<runPhase, callStopped, silence, light, overlooked>>

(* Its gate asks a person, once at most here: announced, shown, and shown no *)
(* longer afterwards.                                                       *)
AskPerson(k) ==
    /\ callAt[k] = "running" /\ CallGoes(k, "asking")
    /\ light' = TRUE
    /\ UNCHANGED <<runPhase, inflight, callStopped, silence, overlooked>>

AskReturns(k) ==
    /\ callAt[k] = "asking" /\ CallGoes(k, "decided")
    /\ light' = FALSE
    /\ UNCHANGED <<runPhase, inflight, callStopped, silence, overlooked>>

ToolAnswers(k) ==
    /\ callAt[k] \in {"running", "decided"} /\ CallGoes(k, "answered")
    /\ UNCHANGED <<runPhase, inflight, callStopped, silence, light, overlooked>>

(* A withdrawn call wants no answer, nor does a session that ends. *)
DropAnswer(k) ==
    /\ callAt[k] = "answered" /\ CallStops(k)
    /\ CallGoes(k, "done") /\ inflight' = inflight \ {k}
    /\ UNCHANGED <<runPhase, callStopped, silence, light, overlooked>>

KeepAnswer(k) ==
    /\ callAt[k] = "answered" /\ ~CallStops(k)
    /\ CallGoes(k, "checked")
    /\ UNCHANGED <<runPhase, inflight, callStopped, silence, light, overlooked>>

(* The answer is sent, marked late if a turn has been completed meanwhile. *)
SendAnswer(k) ==
    /\ callAt[k] = "checked"
    /\ CallGoes(k, "done") /\ inflight' = inflight \ {k}
    /\ UNCHANGED <<runPhase, callStopped, silence, light, overlooked>>

CallStep(k) ==
    \/ Register(k) \/ AskPerson(k) \/ AskReturns(k) \/ ToolAnswers(k)
    \/ DropAnswer(k) \/ KeepAnswer(k) \/ SendAnswer(k)

CallNext ==
    \/ \E k \in ToolCalls : CallMade(k) \/ CallStep(k)
    \/ \E ids \in SUBSET ToolCalls : CallsCancelled(ids)
    \/ TurnDone \/ SignOfLife \/ SilenceEnds \/ LoopReturns \/ RunOver

CallSpec == CallInit /\ [][CallNext]_callVars

(* Tools return and goroutines go on; a wait for a person ends for sure     *)
(* only once its context is cancelled (HitlBroker).                         *)
CallFairness ==
    /\ \A k \in ToolCalls :
          /\ WF_callVars(Register(k) \/ ToolAnswers(k) \/ DropAnswer(k) \/ KeepAnswer(k) \/ SendAnswer(k))
          /\ WF_callVars(CallStops(k) /\ AskReturns(k))
    /\ WF_callVars(RunOver)
CallFairSpec == CallSpec /\ CallFairness
-----------------------------------------------------------------------------
(* "cancel FIRST, so a tool still blocked on a human approval is released   *)
(* immediately" (Run): a conversation that ends is soon over, with no call  *)
(* left and the light off, however long people take to answer.              *)
ConversationEnds == runPhase = "ending" ~> runPhase = "over" /\ CallsInHand = {} /\ ~light

(* The silence timer hangs up on no work: while it runs, only calls are in  *)
(* hand that were not in the table when it started, being withdrawn or not  *)
(* begun yet; a call made since would have stopped it.                      *)
SilenceIsSilent == silence => CallsInHand \subseteq overlooked

(* The calls of a conversation, as a whole.                                *)
CallsHold == CallTypeOK /\ SilenceIsSilent
=============================================================================
