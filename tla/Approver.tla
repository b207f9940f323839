------------------------------ MODULE Approver ------------------------------
(***************************************************************************)
(* What gate.Approver promises its caller (agentkit/gate/approver.go): a   *)
(* question is asked once, the first answer a person gives is the one that *)
(* counts, and the verdict is either that answer or one of the two refusals *)
(* that need no person (the wait ran out, the asking turn was cancelled).  *)
(* An answer approves only when it is one of the options that were offered; *)
(* every other answer, DenyOption included, refuses.                       *)
(*                                                                         *)
(* HitlBroker is shown to implement this specification.                    *)
(***************************************************************************)
CONSTANTS Asks,     \* the calls of Ask
          Options,  \* the option ids offered with an approval
          Deny      \* every id that was not offered, DenyOption among them

Answers == Options \cup {Deny}

VARIABLES asked,    \* the calls that have opened their question
          answer,   \* the first answer to each open question
          verdict   \* what each call decided, "none" until it did

approverVars == <<asked, answer, verdict>>

\* The decision an answer stands for: itself when it was offered, else a no.
Pick(o) == IF o \in Options THEN o ELSE "refused"

Init ==
  /\ asked = {}
  /\ answer = [a \in Asks |-> "none"]
  /\ verdict = [a \in Asks |-> "none"]

Open(a) ==
  /\ a \notin asked
  /\ asked' = asked \cup {a}
  /\ UNCHANGED <<answer, verdict>>

Answer(a, o) ==
  /\ a \in asked
  /\ verdict[a] = "none"
  /\ answer[a] = "none"
  /\ answer' = [answer EXCEPT ![a] = o]
  /\ UNCHANGED <<asked, verdict>>

\* The verdict is the answer that was given, or a refusal nobody had to give.
\* An answer that raced the clock may lose to it, but is never replaced.
Settle(a) ==
  /\ a \in asked
  /\ verdict[a] = "none"
  /\ \/ /\ answer[a] # "none"
        /\ verdict' = [verdict EXCEPT ![a] = Pick(answer[a])]
     \/ verdict' = [verdict EXCEPT ![a] = "timeout"]
     \/ verdict' = [verdict EXCEPT ![a] = "cancelled"]
  /\ answer' = [answer EXCEPT ![a] = "none"]
  /\ UNCHANGED asked

Next == \E a \in Asks : Open(a) \/ Settle(a) \/ \E o \in Answers : Answer(a, o)

Spec == Init /\ [][Next]_approverVars
=============================================================================
