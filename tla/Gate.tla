-------------------------------- MODULE Gate --------------------------------
(***************************************************************************)
(* gate.Check (agentkit/gate/gate.go) over the workspace's grant store:    *)
(* the decision every tool call with an effect makes before it acts.       *)
(* Several runs share one store under policies and approvers of their own: *)
(* a chat somebody watches, a voice session whose policy asks every time,  *)
(* an agent fired by a schedule that may have nobody to ask.  A check looks *)
(* at the standing grants once, may then wait for a person for as long as  *)
(* the person likes, and remembers the answer; other checks, revocations   *)
(* and restarts happen meanwhile.                                          *)
(***************************************************************************)
EXTENDS GrantStore

CONSTANTS Actions,       \* (Kind, Target) a tool is about to act on
          Covers,        \* the <<grant, action>> pairs the tool's Matcher accepts
          Exact,         \* [Actions -> Grants]: the grant of exactly this action
          Suggest,       \* [Actions -> SUBSET Grants]: the tool's widenings
          Policy,        \* [Workers -> [Actions -> Rulings]]: each run's policy
          Unattended,    \* the runs with a nil approver
          Careless       \* the runs whose approver does not know of Offerable

Rulings == [decision : {"allow", "deny"}] \cup [decision : {"ask"}, recall : Recalls]

ASSUME GateAssumption ==
  /\ Covers \subseteq Grants \X Actions
  /\ Exact \in [Actions -> Grants]
  /\ Suggest \in [Actions -> SUBSET Grants]
  /\ Policy \in [Workers -> [Actions -> Rulings]]
  /\ Unattended \subseteq Workers
  /\ Careless \subseteq Workers

VARIABLES
  check,    \* where each run's Check stands
  given,    \* history: the longest yes to each grant, no longer than its ceiling
  last      \* history: the latest Check of an asked action to pass

gateVars == <<mem, durable, file, job, kept, revoked, failed, check, given, last>>

Quiet    == [at |-> "idle"]
Passes   == [ceiling : Recalls, asked : BOOLEAN, standing : BOOLEAN]
NoPass   == [ceiling |-> RecallAlways, asked |-> TRUE, standing |-> TRUE]

GateTypeOK ==
  /\ TypeOK
  /\ check \in [Workers -> {Quiet} \cup [at : {"asking", "storing"}, action : Actions,
                                         ceiling : Recalls]]
  /\ given \in [Grants -> Recalls]
  /\ last \in Passes

GateInit ==
  /\ Init
  /\ check = [w \in Workers |-> Quiet]
  /\ given = [g \in Grants |-> RecallNever]
  /\ last = NoPass

-----------------------------------------------------------------------------
MinRecall(a, b) == IF a <= b THEN a ELSE b
MaxRecall(a, b) == IF a <= b THEN b ELSE a

\* Fault: every answer is offered as it is, whatever the ceiling.
OfferableAnyway(want, ceiling, widens) == {want}

\* Offerable: the recall an answer may carry, nothing if it is not offered.  An
\* answer on the exact target is offered unchanged or not at all; a widening is
\* clamped, and dropped where nothing is remembered.
Offerable(want, ceiling, widens) ==
  IF widens THEN {r \in {MinRecall(want, ceiling)} : ceiling # RecallNever}
            ELSE {r \in {want} : want <= ceiling}

\* options: what the answer sheet of an action shows.
Offers(a, ceiling) ==
  [grant : {Exact[a]}, recall : UNION {Offerable(want, ceiling, FALSE) : want \in Recalls}]
  \cup [grant : Suggest[a], recall : Offerable(RecallAlways, ceiling, TRUE)]

\* What an approver may return.  One that ignores the ceiling picks any recall.
Choices(w, a, ceiling) ==
  IF w \in Careless THEN [grant : {Exact[a]} \cup Suggest[a], recall : Recalls]
                    ELSE Offers(a, ceiling)

Covered(a, set) == \E g \in set : <<g, a>> \in Covers

\* A yes that stands in somebody's mind: given, above "once", and not revoked.
Standing(a) == Covered(a, {g \in Grants \ revoked : RecallSession <= given[g]})

Pass(ceiling, asked, standing) ==
  last' = [ceiling |-> ceiling, asked |-> asked, standing |-> standing]

Asking(w, a, ceiling) ==
  check' = [check EXCEPT ![w] = [at |-> "asking", action |-> a, ceiling |-> ceiling]]

\* Fault: a standing grant also answers for an action that is asked every time.
AskPolicyCached(w, a, ceiling) ==
  /\ IF Covered(a, mem)
       THEN Pass(ceiling, FALSE, Standing(a)) /\ UNCHANGED check
       ELSE /\ UNCHANGED last
            /\ IF w \in Unattended THEN UNCHANGED check ELSE Asking(w, a, ceiling)
  /\ UNCHANGED <<storeVars, given>>

\* The policy asks: a standing grant passes, unless the action is asked every
\* time; with nobody to ask it is denied; else the approver is asked.
AskPolicy(w, a, ceiling) ==
  /\ IF ceiling # RecallNever /\ Covered(a, mem)
       THEN Pass(ceiling, FALSE, Standing(a)) /\ UNCHANGED check
       ELSE /\ UNCHANGED last
            /\ IF w \in Unattended THEN UNCHANGED check ELSE Asking(w, a, ceiling)
  /\ UNCHANGED <<storeVars, given>>

\* Check, up to the question.  An action its policy allows or denies changes
\* nothing here.
Check(w, a) ==
  /\ check[w] = Quiet /\ job[w] = Idle
  /\ Policy[w][a].decision = "ask"
  /\ AskPolicy(w, a, Policy[w][a].recall)

\* Fault: the person's choice alone decides.
EffectiveUncapped(ceiling, chosen) == chosen

\* How long an answer holds: the more restrictive of the policy's ceiling and
\* the person's choice.
Effective(ceiling, chosen) == MinRecall(ceiling, chosen)

\* Check, after a yes: the answer is remembered and the action passes; a durable
\* answer is written first.
Approve(w, choice) ==
  /\ check[w].at = "asking"
  /\ given' = [given EXCEPT ![choice.grant] =
                 MaxRecall(@, MinRecall(choice.recall, check[w].ceiling))]
  /\ LET effective == Effective(check[w].ceiling, choice.recall)
     IN  /\ IF effective = RecallNever
              THEN UNCHANGED storeVars
              ELSE StartRemember(w, choice.grant, effective)
         /\ IF effective = RecallAlways
              THEN check' = [check EXCEPT ![w].at = "storing"] /\ UNCHANGED last
              ELSE /\ check' = [check EXCEPT ![w] = Quiet]
                   /\ Pass(check[w].ceiling, TRUE, FALSE)

\* Check, once Remember has returned.
Stored(w) ==
  /\ check[w].at = "storing"
  /\ FinishRemember(w)
  /\ check' = [check EXCEPT ![w] = Quiet]
  /\ Pass(check[w].ceiling, TRUE, FALSE)
  /\ UNCHANGED given

\* The zero gate.Grant, of no kind and no target.
ZeroGrant == ""

\* Check, after a no, an approver that failed, or an approval that timed out.
Refuse(w) ==
  /\ check[w].at = "asking"
  /\ check' = [check EXCEPT ![w] = Quiet]
  /\ UNCHANGED <<storeVars, given, last>>

\* Workspace.ForgetGrant and ForgetNetAccess.
Revoke(w) ==
  /\ check[w] = Quiet
  /\ \/ \E g \in Grants : StartForget(w, g)
     \/ FinishForget(w)
  /\ UNCHANGED <<check, given, last>>

\* The daemon stops with checks under way and starts again.
GateRestart ==
  /\ Restart
  /\ check' = [w \in Workers |-> Quiet]
  /\ UNCHANGED <<given, last>>

GateNext ==
  \/ \E w \in Workers :
       \/ \E a \in Actions : Check(w, a)
       \/ \E choice \in [grant : Grants, recall : Recalls] :
            /\ check[w].at = "asking"
            /\ choice \in Choices(w, check[w].action, check[w].ceiling)
            /\ Approve(w, choice)
       \/ Stored(w)
       \/ Refuse(w)
       \/ Revoke(w)
  \/ GateRestart

GateSpec == GateInit /\ [][GateNext]_gateVars

-----------------------------------------------------------------------------
\* Every action that is asked passes on a person's yes: its own, or, unless it
\* is asked every time, an earlier one that was given for longer than once,
\* covers it and has not been revoked, as long as every write has succeeded.  So
\* an unattended run, which inherits the store, never widens it.
PassesRestOnAYes ==
  failed \/ last.asked \/ (last.standing /\ last.ceiling # RecallNever)

\* "the more restrictive wins" (Recall): nothing stands without a yes for at
\* least the session under a ceiling that allows it, and nothing is in the file
\* without a yes for good under a ceiling of RecallAlways, whatever an approver
\* returns.
CeilingHolds ==
  /\ \A g \in mem : RecallSession <= given[g]
  /\ \A g \in file : given[g] = RecallAlways

\* "MUST NOT offer an answer above it" (Approver): whatever somebody picks from
\* the sheet in front of them holds exactly as long as it said.
AnswersAreHonest ==
  \A w \in Workers \ Careless : check[w].at = "asking" =>
    \A choice \in Choices(w, check[w].action, check[w].ceiling) :
      Effective(check[w].ceiling, choice.recall) = choice.recall

\* What a person says is what comes to pass: no answer is narrowed after it was
\* given, none lasts longer than the policy of its check allows.
AnswersHold == GateTypeOK /\ AnswersAreHonest /\ CeilingHolds
=============================================================================
