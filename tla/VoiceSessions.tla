--------------------------- MODULE VoiceSessions ---------------------------
(***************************************************************************)
(* The spoken conversations of one device with one workspace: the manager  *)
(* that keeps at most one (internal/voice/manager.go) and the connections  *)
(* that start and stop them (internal/serve/voice.go).  A device has two   *)
(* connections for as long as a dead one takes to time out, and each runs  *)
(* its commands one after the other.  The conversation itself is module    *)
(* VoiceCalls: here it runs, returns by itself or when it is cancelled,    *)
(* and is then told of.                                                    *)
(***************************************************************************)
EXTENDS Naturals, FiniteSets

CONSTANTS
    Lines,          \* the connections the device may have, one after the other
    MaxTalks        \* bound: conversations started

ASSUME VoiceAssumption == MaxTalks \in Nat

VARIABLES
    talkAt,         \* per conversation: where its goroutine is
    talkCancelled,  \* the conversations whose context is cancelled
    talkActive,     \* Manager.active of the device, 0 if it has no entry
    talkClosed,     \* Manager.closed
    talkShutdown,   \* CloseAll: not called, waiting, returned
    lineAt,         \* per connection: what its read loop is in
    lineWaits,      \* the conversation a stop waits for
    talkApart       \* history: no conversation was put in the place of another that still had it

talkVars == <<talkAt, talkCancelled, talkActive, talkClosed, talkShutdown, lineAt, lineWaits, talkApart>>

Talks == 1..MaxTalks

TalkInit ==
    /\ talkAt = [t \in Talks |-> "none"]
    /\ talkCancelled = {} /\ talkActive = 0 /\ talkClosed = FALSE /\ talkShutdown = "no"
    /\ lineAt = [c \in Lines |-> "away"] /\ lineWaits = [c \in Lines |-> 0]
    /\ talkApart = TRUE

TalkTypeOK ==
    /\ talkAt \in [Talks -> {"none", "running", "returned", "untracked", "over"}]
    /\ talkCancelled \subseteq Talks /\ talkActive \in 0..MaxTalks
    /\ talkClosed \in BOOLEAN /\ talkApart \in BOOLEAN
    /\ talkShutdown \in {"no", "waiting", "returned"}
    /\ lineAt \in [Lines -> {"away", "reading", "restarting", "starting", "stopping", "leaving", "gone"}]
    /\ lineWaits \in [Lines -> 0..MaxTalks]

-----------------------------------------------------------------------------
Started == {t \in Talks : talkAt[t] # "none"}
GoesTo(c, at) == lineAt' = [lineAt EXCEPT ![c] = at]

\* Fault: what has been latched in the meantime is not looked at.
InstallAnyway(c) ==
    /\ Cardinality(Started) < MaxTalks
    /\ talkActive' = Cardinality(Started) + 1
    /\ talkAt' = [talkAt EXCEPT ![talkActive'] = "running"]
    /\ talkApart' = (talkApart /\ talkActive = 0)
    /\ GoesTo(c, "reading")

(* The rest of Start, in one critical section: the conversation is entered, *)
(* whatever the entry holds, and its goroutine runs.                        *)
Install(c) ==
    IF talkClosed
      THEN GoesTo(c, "reading") /\ UNCHANGED <<talkAt, talkActive, talkApart>>
      ELSE /\ Cardinality(Started) < MaxTalks
           /\ talkActive' = Cardinality(Started) + 1
           /\ talkAt' = [talkAt EXCEPT ![talkActive'] = "running"]
           /\ talkApart' = (talkApart /\ talkActive = 0)
           /\ GoesTo(c, "reading")

Connects(c) ==
    /\ lineAt[c] = "away" /\ GoesTo(c, "reading")
    /\ UNCHANGED <<talkAt, talkCancelled, talkActive, talkClosed, talkShutdown, lineWaits, talkApart>>

(* voice.wake with no conversation to replace ... *)
WakeFresh(c) ==
    /\ lineAt[c] = "reading" /\ (talkClosed \/ talkActive = 0)
    /\ Install(c)
    /\ UNCHANGED <<talkCancelled, talkClosed, talkShutdown, lineWaits>>

(* ... and with one, which is stopped first, outside the lock. *)
WakeAgain(c) ==
    /\ lineAt[c] = "reading" /\ ~talkClosed /\ talkActive # 0
    /\ GoesTo(c, "restarting")
    /\ UNCHANGED <<talkAt, talkCancelled, talkActive, talkClosed, talkShutdown, lineWaits, talkApart>>

(* voice.end, and the teardown of the device's last connection. *)
EndsTalk(c) ==
    /\ lineAt[c] = "reading" /\ GoesTo(c, "stopping")
    /\ UNCHANGED <<talkAt, talkCancelled, talkActive, talkClosed, talkShutdown, lineWaits, talkApart>>
LastLeft(c) == \A d \in Lines \ {c} : lineAt[d] \in {"away", "leaving", "gone"}
Leaves(c) ==
    /\ lineAt[c] = "reading"
    /\ GoesTo(c, IF LastLeft(c) THEN "leaving" ELSE "gone")
    /\ UNCHANGED <<talkAt, talkCancelled, talkActive, talkClosed, talkShutdown, lineWaits, talkApart>>

(* stop: the entry goes under the lock, its conversation is cancelled ... *)
TakeEntry(c) ==
    /\ lineAt[c] \in {"restarting", "stopping", "leaving"} /\ lineWaits[c] = 0 /\ talkActive # 0
    /\ lineWaits' = [lineWaits EXCEPT ![c] = talkActive]
    /\ talkCancelled' = talkCancelled \cup {talkActive}
    /\ talkActive' = 0
    /\ UNCHANGED <<talkAt, talkClosed, talkShutdown, lineAt, talkApart>>

(* ... and waited for; without an entry there is nothing to stop. *)
After(at) == CASE at = "restarting" -> "starting" [] at = "stopping" -> "reading" [] OTHER -> "gone"
Stopped(c) ==
    /\ lineAt[c] \in {"restarting", "stopping", "leaving"}
    /\ IF lineWaits[c] = 0 THEN talkActive = 0 ELSE talkAt[lineWaits[c]] = "over"
    /\ lineWaits' = [lineWaits EXCEPT ![c] = 0]
    /\ GoesTo(c, After(lineAt[c]))
    /\ UNCHANGED <<talkAt, talkCancelled, talkActive, talkClosed, talkShutdown, talkApart>>

(* Start takes the lock again, and looks again only whether it is closed. *)
StartInstalls(c) ==
    /\ lineAt[c] = "starting" /\ Install(c)
    /\ UNCHANGED <<talkCancelled, talkClosed, talkShutdown, lineWaits>>

(* The driver returns: cancelled, or on its own. *)
RunReturns(t) ==
    /\ talkAt[t] = "running"
    /\ talkAt' = [talkAt EXCEPT ![t] = "returned"]
    /\ talkCancelled' = talkCancelled \cup {t}
    /\ UNCHANGED <<talkActive, talkClosed, talkShutdown, lineAt, lineWaits, talkApart>>

\* Fault: a conversation that returns takes the device's entry, whosever it is.
ClearEntryBlindly(t) ==
    /\ talkAt[t] = "returned"
    /\ talkAt' = [talkAt EXCEPT ![t] = "untracked"]
    /\ talkActive' = 0
    /\ UNCHANGED <<talkCancelled, talkClosed, talkShutdown, lineAt, lineWaits, talkApart>>

ClearEntry(t) ==
    /\ talkAt[t] = "returned"
    /\ talkAt' = [talkAt EXCEPT ![t] = "untracked"]
    /\ talkActive' = IF talkActive = t THEN 0 ELSE talkActive
    /\ UNCHANGED <<talkCancelled, talkClosed, talkShutdown, lineAt, lineWaits, talkApart>>

(* The consumer has been told, with the sink closed; done is closed. *)
Over(t) ==
    /\ talkAt[t] = "untracked"
    /\ talkAt' = [talkAt EXCEPT ![t] = "over"]
    /\ UNCHANGED <<talkCancelled, talkActive, talkClosed, talkShutdown, lineAt, lineWaits, talkApart>>

CloseTalks ==
    /\ ~talkClosed /\ talkClosed' = TRUE /\ talkShutdown' = "waiting"
    /\ talkCancelled' = talkCancelled \cup ({talkActive} \ {0}) /\ talkActive' = 0
    /\ UNCHANGED <<talkAt, lineAt, lineWaits, talkApart>>

TalksClosed ==
    /\ talkShutdown = "waiting" /\ \A t \in Started : talkAt[t] = "over"
    /\ talkShutdown' = "returned"
    /\ UNCHANGED <<talkAt, talkCancelled, talkActive, talkClosed, lineAt, lineWaits, talkApart>>

LineStep(c) == TakeEntry(c) \/ Stopped(c) \/ StartInstalls(c)
TalkStep(t) == ClearEntry(t) \/ Over(t)
TalkNext ==
    \/ \E c \in Lines : \/ Connects(c) \/ WakeFresh(c) \/ WakeAgain(c) \/ EndsTalk(c) \/ Leaves(c)
                        \/ LineStep(c)
    \/ \E t \in Talks : RunReturns(t) \/ TalkStep(t)
    \/ CloseTalks \/ TalksClosed

TalkSpec == TalkInit /\ [][TalkNext]_talkVars

\* A conversation that is cancelled returns (VoiceCalls), and the manager's own steps are taken.
TalkFairness ==
    /\ \A c \in Lines : WF_talkVars(LineStep(c))
    /\ \A t \in Talks : /\ WF_talkVars(TalkStep(t))
                        /\ WF_talkVars(t \in talkCancelled /\ RunReturns(t))
    /\ WF_talkVars(TalksClosed)
TalkFairSpec == TalkSpec /\ TalkFairness
-----------------------------------------------------------------------------
(* A conversation that runs can be stopped: it is the device's entry, or    *)
(* has been cancelled already, whatever returned, restarted, hung up and    *)
(* timed out around it.  One thing alone breaks this, a restart that comes  *)
(* back from its wait to find that another connection has started one: then *)
(* the entry is written over, and that conversation runs to its budget.     *)
RunningIsReachable ==
    talkApart => \A t \in Talks : talkAt[t] = "running" => t = talkActive \/ t \in talkCancelled

(* Shutdown waits for conversations it has cancelled, not for one that is   *)
(* free to go on (under the same condition), and then ends.                 *)
TalksEndOnClose ==
    [](talkApart) => (talkShutdown = "waiting" ~> talkShutdown = "returned")

(* The sessions of the devices, as a whole.                                *)
TalkHolds == TalkTypeOK /\ RunningIsReachable
=============================================================================
