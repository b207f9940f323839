-------------------------- MODULE Approvals_proofs --------------------------
(*****************************************************************************)
(* Proofs about what stands between a tool and the world: the grant store    *)
(* and the gate in front of it, for any workers, runs, policies, approvers,  *)
(* actions and grants; and the broker that asks a person, for any number of  *)
(* asks, connections, devices and options and any queue capacity.            *)
(*****************************************************************************)
EXTENDS Gate, GrantStore, HitlBroker, TLAPS

-----------------------------------------------------------------------------
(*****************************************************************************)
(* The grant store.                                                          *)
(*****************************************************************************)

\* One write of the set d: the file holds d, or what it held before.
LEMMA WriteEffect ==
  ASSUME NEW d, Write(d)
  PROVE  file' = d \/ (WritesFail /\ file' = file)
BY DEF Write

LEMMA DisturbEffect ==
  ASSUME TypeOK, NEW g \in Grants
  PROVE  /\ Disturb(job, g) \in [Workers -> Jobs]
         /\ \A w \in Workers :
              /\ Disturb(job, g)[w].op = job[w].op
              /\ job[w].op # "idle" => Disturb(job, g)[w].grant = job[w].grant
              /\ job[w].op # "forget" => Disturb(job, g)[w] = job[w]
              /\ (Disturb(job, g)[w].op = "forget" /\ Disturb(job, g)[w].alone) =>
                   /\ job[w].alone
                   /\ job[w].grant # g
<1> DEFINE d == Disturb(job, g)
<1>1. ASSUME NEW w \in Workers
      PROVE  /\ d[w] \in Jobs
             /\ d[w].op = job[w].op
             /\ job[w].op # "idle" => d[w].grant = job[w].grant
             /\ job[w].op # "forget" => d[w] = job[w]
             /\ (d[w].op = "forget" /\ d[w].alone) => job[w].alone /\ job[w].grant # g
  <2>0. job[w] \in Jobs
    BY DEF TypeOK
  <2>1. CASE job[w].op = "forget" /\ job[w].grant = g
    <3>1. d[w] = [job[w] EXCEPT !.alone = FALSE]
      BY <2>1 DEF Disturb
    <3>2. job[w] \in [op : {"forget"}, grant : Grants, alone : BOOLEAN]
      BY <2>0, <2>1 DEF Jobs, Idle
    <3> QED
      BY <3>1, <3>2 DEF Jobs
  <2>2. CASE ~(job[w].op = "forget" /\ job[w].grant = g)
    <3>1. d[w] = job[w]
      BY <2>2 DEF Disturb
    <3> QED
      BY <3>1, <2>0, <2>2
  <2> QED
    BY <2>1, <2>2
<1> QED
  BY <1>1 DEF Disturb

-----------------------------------------------------------------------------
\* The types of the store's state hold in every behaviour.
LEMMA TypeStep == ASSUME TypeOK, [Next]_storeVars PROVE TypeOK'
<1>1. ASSUME NEW w \in Workers, NEW g \in Grants,
             NEW recall \in {RecallSession, RecallAlways}, StartRemember(w, g, recall)
      PROVE  TypeOK'
  <2>1. Disturb(job, g) \in [Workers -> Jobs]
    BY DisturbEffect
  <2>2. [op |-> "remember", grant |-> g] \in Jobs
    BY DEF Jobs
  <2>3. job' \in [Workers -> Jobs]
    BY <1>1, <2>1, <2>2 DEF StartRemember
  <2> QED
    BY <1>1, <2>3 DEF StartRemember, TypeOK
<1>2. ASSUME NEW w \in Workers, NEW g \in Grants, StartForget(w, g)
      PROVE  TypeOK'
  <2>1. [op |-> "forget", grant |-> g, alone |-> ~Remembering(g)] \in Jobs
    BY DEF Jobs, Remembering
  <2> QED
    BY <1>2, <2>1 DEF StartForget, TypeOK
<1>3. ASSUME NEW w \in Workers, FinishRemember(w)
      PROVE  TypeOK'
  <2>1. job[w].grant \in Grants /\ Idle \in Jobs
    BY <1>3 DEF FinishRemember, TypeOK, Jobs, Idle
  <2> QED
    BY <1>3, <2>1 DEF FinishRemember, Write, TypeOK
<1>4. ASSUME NEW w \in Workers, FinishForget(w)
      PROVE  TypeOK'
  <2>1. job[w].grant \in Grants /\ Idle \in Jobs
    BY <1>4 DEF FinishForget, TypeOK, Jobs, Idle
  <2> QED
    BY <1>4, <2>1 DEF FinishForget, Write, TypeOK
<1>5. ASSUME Restart PROVE TypeOK'
  BY <1>5 DEF Restart, TypeOK, Jobs, Idle
<1>6. ASSUME UNCHANGED storeVars PROVE TypeOK'
  BY <1>6 DEF storeVars, TypeOK
<1> QED
  BY <1>1, <1>2, <1>3, <1>4, <1>5, <1>6 DEF Next

LEMMA InitType == Init => TypeOK
BY DEF Init, TypeOK, Jobs, Idle

\* The state of the store keeps its types.
THEOREM TypeCorrect == Spec => []TypeOK
<1>1. TypeOK /\ [Next]_storeVars => TypeOK'
  BY TypeStep
<1> QED
  BY <1>1, InitType, PTL DEF Spec

-----------------------------------------------------------------------------
\* What is on its way to the file was asked to be kept, like what is there.
KeptInv ==
  /\ durable \subseteq kept
  /\ file \subseteq kept
  /\ \A w \in Workers : job[w].op = "remember" => job[w].grant \in kept

LEMMA KeptStep == ASSUME TypeOK, KeptInv, [Next]_storeVars PROVE KeptInv'
<1>1. ASSUME NEW w \in Workers, NEW g \in Grants,
             NEW recall \in {RecallSession, RecallAlways}, StartRemember(w, g, recall)
      PROVE  KeptInv'
  <2>1. \A v \in Workers : /\ Disturb(job, g)[v].op = job[v].op
                           /\ job[v].op # "idle" => Disturb(job, g)[v].grant = job[v].grant
    BY DisturbEffect
  <2>2. Disturb(job, g) \in [Workers -> Jobs]
    BY DisturbEffect
  <2>3. kept \subseteq kept'
    BY <1>1 DEF StartRemember
  <2>4. ASSUME NEW v \in Workers, job'[v].op = "remember" PROVE job'[v].grant \in kept'
    <3>1. CASE recall = RecallAlways /\ v = w
      BY <3>1, <1>1, <2>2 DEF StartRemember
    <3>2. CASE ~(recall = RecallAlways /\ v = w)
      <4>1. job'[v] = Disturb(job, g)[v]
        BY <3>2, <1>1, <2>2 DEF StartRemember
      <4> QED
        BY <4>1, <2>1, <2>3, <2>4 DEF KeptInv
    <3> QED
      BY <3>1, <3>2
  <2> QED
    BY <1>1, <2>3, <2>4 DEF StartRemember, KeptInv
<1>2. ASSUME NEW w \in Workers, NEW g \in Grants, StartForget(w, g)
      PROVE  KeptInv'
  BY <1>2 DEF StartForget, KeptInv, TypeOK
<1>3. ASSUME NEW w \in Workers, FinishRemember(w)
      PROVE  KeptInv'
  BY <1>3 DEF FinishRemember, Write, KeptInv, TypeOK, Idle
<1>4. ASSUME NEW w \in Workers, FinishForget(w)
      PROVE  KeptInv'
  BY <1>4 DEF FinishForget, Write, KeptInv, TypeOK, Idle
<1>5. ASSUME Restart PROVE KeptInv'
  BY <1>5 DEF Restart, KeptInv, Idle
<1>6. ASSUME UNCHANGED storeVars PROVE KeptInv'
  BY <1>6 DEF storeVars, KeptInv
<1> QED
  BY <1>1, <1>2, <1>3, <1>4, <1>5, <1>6 DEF Next

\* An approval for the session is never in the file, whatever calls interleave,
\* whichever writes fail and whenever the daemon stops.
THEOREM SessionGrantsEndWithTheSession == Spec => []SessionGrantsEnd
<1>1. Init => TypeOK /\ KeptInv
  BY InitType DEF Init, KeptInv, Idle
<1>2. TypeOK /\ KeptInv /\ [Next]_storeVars => TypeOK' /\ KeptInv'
  BY TypeStep, KeptStep
<1>3. KeptInv => SessionGrantsEnd
  BY DEF KeptInv, SessionGrantsEnd
<1> QED
  BY <1>1, <1>2, <1>3, PTL DEF Spec

-----------------------------------------------------------------------------
\* While writes succeed the file is the durable set; a grant that was forgotten
\* is in neither nor on its way there, and one that is being forgotten with
\* nobody else at it is no longer in memory.
RevokedInv ==
  /\ file = durable
  /\ \A g \in revoked : g \notin mem /\ g \notin durable /\ ~Remembering(g)
  /\ \A w \in Workers : (job[w].op = "forget" /\ job[w].alone) =>
       job[w].grant \notin mem /\ ~Remembering(job[w].grant)

LEMMA FailedStays == ASSUME [Next]_storeVars, failed PROVE failed'
BY DEF Next, StartRemember, FinishRemember, StartForget, FinishForget, Restart, Write, storeVars

LEMMA RevokedStep ==
  ASSUME TypeOK, RevokedInv, [Next]_storeVars, ~failed'
  PROVE  RevokedInv'
<1>1. ASSUME NEW w \in Workers, NEW g \in Grants,
             NEW recall \in {RecallSession, RecallAlways}, StartRemember(w, g, recall)
      PROVE  RevokedInv'
  <2>1. /\ Disturb(job, g) \in [Workers -> Jobs]
        /\ \A v \in Workers :
              /\ Disturb(job, g)[v].op = job[v].op
              /\ job[v].op # "forget" => Disturb(job, g)[v] = job[v]
              /\ job[v].op # "idle" => Disturb(job, g)[v].grant = job[v].grant
              /\ (Disturb(job, g)[v].op = "forget" /\ Disturb(job, g)[v].alone) =>
                   job[v].alone /\ job[v].grant # g
    BY DisturbEffect
  <2>2. ASSUME NEW h, h # g, ~Remembering(h) PROVE ~Remembering(h)'
    <3> SUFFICES ASSUME NEW v \in Workers, job'[v] = [op |-> "remember", grant |-> h]
                 PROVE  FALSE
      BY DEF Remembering
    <3>1. CASE v = w /\ recall = RecallAlways
      BY <3>1, <1>1, <2>1, <2>2 DEF StartRemember
    <3>2. CASE ~(v = w /\ recall = RecallAlways)
      <4>1. job'[v] = Disturb(job, g)[v]
        BY <3>2, <1>1, <2>1 DEF StartRemember
      <4>2. job[v] = [op |-> "remember", grant |-> h]
        BY <4>1, <2>1
      <4> QED
        BY <4>2, <2>2 DEF Remembering
    <3> QED
      BY <3>1, <3>2
  <2>3. ASSUME NEW h \in revoked' PROVE h \notin mem' /\ h \notin durable' /\ ~Remembering(h)'
    BY <1>1, <2>2 DEF StartRemember, RevokedInv
  <2>4. ASSUME NEW v \in Workers, job'[v].op = "forget", job'[v].alone
        PROVE  job'[v].grant \notin mem' /\ ~Remembering(job[v].grant)'
    <3>1. job'[v] = Disturb(job, g)[v]
      BY <1>1, <2>1, <2>4 DEF StartRemember
    <3>2. job[v].op = "forget" /\ job[v].alone /\ job[v].grant # g /\ job'[v].grant = job[v].grant
      BY <3>1, <2>1, <2>4
    <3>3. job[v].grant \notin mem /\ ~Remembering(job[v].grant)
      BY <3>2 DEF RevokedInv
    <3> QED
      BY <1>1, <2>2, <3>2, <3>3 DEF StartRemember
  <2>5. file' = durable'
    BY <1>1 DEF StartRemember, RevokedInv
  <2> QED
    BY <2>3, <2>4, <2>5 DEF RevokedInv
<1>2. ASSUME NEW w \in Workers, NEW g \in Grants, StartForget(w, g)
      PROVE  RevokedInv'
  <2>1. \A v \in Workers : v # w => job'[v] = job[v]
    BY <1>2 DEF StartForget, TypeOK
  <2>2. job'[w] = [op |-> "forget", grant |-> g, alone |-> ~Remembering(g)]
    BY <1>2 DEF StartForget, TypeOK
  <2>3. ASSUME NEW h, ~Remembering(h) PROVE ~Remembering(h)'
    BY <2>1, <2>2, <2>3 DEF Remembering
  <2>4. ASSUME NEW v \in Workers, job'[v].op = "forget", job'[v].alone
        PROVE  job'[v].grant \notin mem' /\ ~Remembering(job[v].grant)'
    <3>1. CASE v = w
      <4>1. job'[v].grant = g /\ job'[v].alone = ~Remembering(g)
        BY <3>1, <2>2
      <4>2. ~Remembering(g)
        BY <4>1, <2>4
      <4>3. ~Remembering(g)'
        BY <4>2, <2>3
      <4>4. ~Remembering(job[v].grant)'
        BY <4>1, <4>3 DEF Remembering
      <4> QED
        BY <1>2, <4>1, <4>4 DEF StartForget
    <3>2. CASE v # w
      BY <3>2, <1>2, <2>1, <2>3, <2>4 DEF StartForget, RevokedInv
    <3> QED
      BY <3>1, <3>2
  <2>5. \A h \in revoked' : h \notin mem' /\ h \notin durable' /\ ~Remembering(h)'
    BY <1>2, <2>3 DEF StartForget, RevokedInv
  <2> QED
    BY <1>2, <2>4, <2>5 DEF StartForget, RevokedInv
<1>3. ASSUME NEW w \in Workers, job[w].op \in {"remember", "forget"},
             job' = [job EXCEPT ![w] = Idle]
      PROVE  /\ \A v \in Workers : job'[v].op # "idle" => job'[v] = job[v]
             /\ \A h : ~Remembering(h) => ~Remembering(h)'
  BY <1>3 DEF TypeOK, Idle, Remembering
<1>4. ASSUME NEW w \in Workers, FinishRemember(w)
      PROVE  RevokedInv'
  <2>1. job[w] = [op |-> "remember", grant |-> job[w].grant]
    BY <1>4 DEF FinishRemember, TypeOK, Jobs, Idle
  <2>2. Remembering(job[w].grant)
    BY <2>1 DEF Remembering
  <2>3. /\ \A v \in Workers : job'[v].op # "idle" => job'[v] = job[v]
        /\ \A h : ~Remembering(h) => ~Remembering(h)'
    BY <1>3, <1>4 DEF FinishRemember
  <2>4. file' = durable' /\ durable' \subseteq durable \cup {job[w].grant}
    BY <1>4 DEF FinishRemember, Write, RevokedInv
  <2> QED
    BY <1>4, <2>2, <2>3, <2>4 DEF FinishRemember, RevokedInv
<1>5. ASSUME NEW w \in Workers, FinishForget(w)
      PROVE  RevokedInv'
  <2>1. /\ \A v \in Workers : job'[v].op # "idle" => job'[v] = job[v]
        /\ \A h : ~Remembering(h) => ~Remembering(h)'
    BY <1>3, <1>5 DEF FinishForget
  <2>2. file' = durable' /\ durable' = durable \ {job[w].grant}
    BY <1>5 DEF FinishForget, Write, RevokedInv
  <2>3. ASSUME NEW h \in revoked' PROVE h \notin mem' /\ h \notin durable' /\ ~Remembering(h)'
    BY <1>5, <2>1, <2>2 DEF FinishForget, RevokedInv
  <2>4. ASSUME NEW v \in Workers, job'[v].op = "forget", job'[v].alone
        PROVE  job'[v].grant \notin mem' /\ ~Remembering(job[v].grant)'
    BY <1>5, <2>1, <2>4 DEF FinishForget, RevokedInv
  <2> QED
    BY <2>2, <2>3, <2>4 DEF RevokedInv
<1>6. ASSUME Restart PROVE RevokedInv'
  BY <1>6 DEF Restart, RevokedInv, Remembering, Idle
<1>7. ASSUME UNCHANGED storeVars PROVE RevokedInv'
  BY <1>7 DEF storeVars, RevokedInv, Remembering
<1> QED
  BY <1>1, <1>2, <1>4, <1>5, <1>6, <1>7 DEF Next

\* As long as every write has succeeded, a revocation that raced no approval of
\* the same grant holds in memory and in the file until the grant is given again,
\* through any number of restarts.
THEOREM RevocationsHold == Spec => []RevocationHolds
<1> DEFINE Unfailed == failed \/ RevokedInv
<1>1. Init => TypeOK /\ Unfailed
  BY InitType DEF Init, RevokedInv, Idle, Remembering
<1>2. TypeOK /\ Unfailed /\ [Next]_storeVars => TypeOK' /\ Unfailed'
  BY TypeStep, RevokedStep, FailedStays
<1>3. Unfailed => RevocationHolds
  BY DEF RevokedInv, RevocationHolds
<1> HIDE DEF Unfailed
<1> QED
  BY <1>1, <1>2, <1>3, PTL DEF Spec

-----------------------------------------------------------------------------
(*****************************************************************************)
(* The gate.                                                                 *)
(*****************************************************************************)

LEMMA RecallFacts ==
  /\ Recalls \subseteq Nat
  /\ RecallNever \in Recalls /\ RecallSession \in Recalls /\ RecallAlways \in Recalls
  /\ \A a, b \in Recalls : MinRecall(a, b) \in Recalls /\ MaxRecall(a, b) \in Recalls
BY DEF Recalls, RecallNever, RecallSession, RecallAlways, MinRecall, MaxRecall

LEMMA MinRecallFacts ==
  ASSUME NEW a \in Recalls, NEW b \in Recalls
  PROVE  /\ a <= b => MinRecall(b, a) = a
         /\ MinRecall(b, MinRecall(a, b)) = MinRecall(a, b)
         /\ RecallNever <= a
BY DEF Recalls, RecallNever, RecallSession, RecallAlways, MinRecall

\* What an answer sheet shows is a grant of the action, its own or a suggested
\* one, with a recall; the store is only ever asked to remember such an answer.
LEMMA ChoicesType ==
  ASSUME NEW w, NEW a \in Actions, NEW ceiling \in Recalls,
         NEW choice \in Choices(w, a, ceiling)
  PROVE  choice.grant \in Grants /\ choice.recall \in Recalls
<1>1. Exact[a] \in Grants /\ Suggest[a] \subseteq Grants
  BY GateAssumption
<1>2. CASE w \notin Careless
  <2>1. choice \in Offers(a, ceiling)
    BY <1>2 DEF Choices
  <2>2. ASSUME NEW want \in Recalls
        PROVE  /\ Offerable(want, ceiling, FALSE) \subseteq Recalls
               /\ Offerable(want, ceiling, TRUE) \subseteq Recalls
    BY RecallFacts DEF Offerable
  <2> QED
    BY <1>1, <2>1, <2>2, RecallFacts DEF Offers
<1>3. CASE w \in Careless
  BY <1>1, <1>3 DEF Choices
<1> QED
  BY <1>2, <1>3

\* An answer sheet built by Offerable offers only what the gate will honour
\* unchanged, and always leaves at least the answer "once".
THEOREM OffersAreHonest ==
  ASSUME NEW a \in Actions, NEW ceiling \in Recalls
  PROVE  /\ \A o \in Offers(a, ceiling) : Effective(ceiling, o.recall) = o.recall
         /\ [grant |-> Exact[a], recall |-> RecallNever] \in Offers(a, ceiling)
<1>1. ASSUME NEW want \in Recalls, NEW r \in Offerable(want, ceiling, FALSE)
      PROVE  Effective(ceiling, r) = r
  BY MinRecallFacts DEF Offerable, Effective
<1>2. ASSUME NEW r \in Offerable(RecallAlways, ceiling, TRUE)
      PROVE  Effective(ceiling, r) = r
  BY RecallFacts, MinRecallFacts DEF Offerable, Effective
<1>3. RecallNever \in Offerable(RecallNever, ceiling, FALSE)
  BY MinRecallFacts DEF Offerable
<1>4. ASSUME NEW o \in Offers(a, ceiling)
      PROVE  Effective(ceiling, o.recall) = o.recall
  <2>1. CASE o.recall \in UNION {Offerable(want, ceiling, FALSE) : want \in Recalls}
    BY <1>1, <2>1
  <2>2. CASE o.recall \in Offerable(RecallAlways, ceiling, TRUE)
    BY <1>2, <2>2
  <2> QED
    BY <2>1, <2>2 DEF Offers
<1>5. RecallNever \in UNION {Offerable(want, ceiling, FALSE) : want \in Recalls}
  BY <1>3, RecallFacts
<1>6. [grant |-> Exact[a], recall |-> RecallNever] \in Offers(a, ceiling)
  BY <1>5 DEF Offers
<1> QED
  BY <1>4, <1>6

-----------------------------------------------------------------------------
\* What a run that waits for an answer knows about its question.
LEMMA AskingType ==
  ASSUME GateTypeOK, NEW w \in Workers, check[w].at \in {"asking", "storing"}
  PROVE  check[w].action \in Actions /\ check[w].ceiling \in Recalls
BY DEF GateTypeOK, Quiet

LEMMA PolicyType ==
  ASSUME NEW w \in Workers, NEW a \in Actions, Policy[w][a].decision = "ask"
  PROVE  Policy[w][a].recall \in Recalls
BY GateAssumption DEF Rulings

\* A yes, as the store and the histories see it.
LEMMA ApproveEffect ==
  ASSUME GateTypeOK, NEW w \in Workers, NEW choice, check[w].at = "asking",
         choice \in Choices(w, check[w].action, check[w].ceiling), Approve(w, choice)
  PROVE  /\ choice.grant \in Grants
         /\ Effective(check[w].ceiling, choice.recall) \in Recalls
         /\ \/ Effective(check[w].ceiling, choice.recall) = RecallNever /\ UNCHANGED storeVars
            \/ \E recall \in {RecallSession, RecallAlways} :
                 /\ recall = Effective(check[w].ceiling, choice.recall)
                 /\ StartRemember(w, choice.grant, recall)
<1>1. choice.grant \in Grants /\ choice.recall \in Recalls /\ check[w].ceiling \in Recalls
  BY AskingType, ChoicesType
<1>2. Effective(check[w].ceiling, choice.recall) \in Recalls
  BY <1>1, RecallFacts DEF Effective
<1> QED
  BY <1>1, <1>2 DEF Approve, Recalls

\* Every step of the gate is a step of the store, or leaves it alone.
LEMMA GateStepIsStoreStep ==
  ASSUME GateTypeOK, [GateNext]_gateVars
  PROVE  [Next]_storeVars
<1>1. ASSUME NEW w \in Workers, NEW a \in Actions, Check(w, a)
      PROVE  UNCHANGED storeVars
  BY <1>1 DEF Check, AskPolicy, storeVars
<1>2. ASSUME NEW w \in Workers, NEW choice \in [grant : Grants, recall : Recalls],
             check[w].at = "asking", choice \in Choices(w, check[w].action, check[w].ceiling),
             Approve(w, choice)
      PROVE  [Next]_storeVars
  BY <1>2, ApproveEffect DEF Next
<1>3. ASSUME NEW w \in Workers, Stored(w) PROVE Next
  BY <1>3 DEF Stored, Next
<1>4. ASSUME NEW w \in Workers, Refuse(w) PROVE UNCHANGED storeVars
  BY <1>4 DEF Refuse, storeVars
<1>5. ASSUME NEW w \in Workers, Revoke(w) PROVE Next
  BY <1>5 DEF Revoke, Next
<1>6. ASSUME GateRestart PROVE Next
  BY <1>6 DEF GateRestart, Next
<1>7. ASSUME UNCHANGED gateVars PROVE UNCHANGED storeVars
  BY <1>7 DEF gateVars, storeVars
<1> QED
  BY <1>1, <1>2, <1>3, <1>4, <1>5, <1>6, <1>7 DEF GateNext

-----------------------------------------------------------------------------
LEMMA GateTypeStep == ASSUME GateTypeOK, [GateNext]_gateVars PROVE GateTypeOK'
<1> DEFINE Checks == {Quiet} \cup [at : {"asking", "storing"}, action : Actions,
                                   ceiling : Recalls]
<1>0. TypeOK'
  BY GateStepIsStoreStep, TypeStep DEF GateTypeOK
<1>1. ASSUME NEW w \in Workers, NEW a \in Actions, Check(w, a)
      PROVE  GateTypeOK'
  <2>1. Policy[w][a].recall \in Recalls
    BY <1>1, PolicyType DEF Check
  <2>2. check' \in [Workers -> Checks]
    <3>1. [at |-> "asking", action |-> a, ceiling |-> Policy[w][a].recall] \in Checks
      BY <2>1
    <3>2. check \in [Workers -> Checks]
      BY DEF GateTypeOK
    <3>3. check' = check \/ Asking(w, a, Policy[w][a].recall)
      BY <1>1 DEF Check, AskPolicy
    <3> HIDE DEF Checks
    <3> QED
      BY <3>1, <3>2, <3>3 DEF Asking
  <2>3. last' \in Passes
    <3>1. Standing(a) \in BOOLEAN
      BY DEF Standing, Covered
    <3> QED
      <4>1. last' = last \/ Pass(Policy[w][a].recall, FALSE, Standing(a))
        BY <1>1 DEF Check, AskPolicy
      <4>2. ASSUME NEW st \in BOOLEAN
            PROVE  [ceiling |-> Policy[w][a].recall, asked |-> FALSE, standing |-> st] \in Passes
        BY <2>1 DEF Passes
      <4> QED
        BY <3>1, <4>1, <4>2 DEF Pass, GateTypeOK
  <2> QED
    BY <1>0, <1>1, <2>2, <2>3 DEF Check, AskPolicy, GateTypeOK
<1>2. ASSUME NEW w \in Workers, NEW choice \in [grant : Grants, recall : Recalls],
             check[w].at = "asking", Approve(w, choice)
      PROVE  GateTypeOK'
  <2>1. check[w] \in [at : {"asking", "storing"}, action : Actions, ceiling : Recalls]
    BY <1>2 DEF GateTypeOK, Quiet
  <2>2. check[w].ceiling \in Recalls
    BY <2>1
  <2>3. given' \in [Grants -> Recalls]
    <3>1. MaxRecall(given[choice.grant], MinRecall(choice.recall, check[w].ceiling)) \in Recalls
      BY <2>2, RecallFacts DEF GateTypeOK
    <3> QED
      BY <1>2, <3>1 DEF Approve, GateTypeOK
  <2>4. check' \in [Workers -> Checks]
    <3>1. [check[w] EXCEPT !.at = "storing"] \in Checks /\ Quiet \in Checks
      BY <2>1
    <3>2. \/ check' = [check EXCEPT ![w] = [check[w] EXCEPT !.at = "storing"]]
          \/ check' = [check EXCEPT ![w] = Quiet]
      BY <1>2 DEF Approve
    <3>3. check \in [Workers -> Checks]
      BY DEF GateTypeOK
    <3> HIDE DEF Checks
    <3> QED
      BY <3>1, <3>2, <3>3
  <2>5. last' \in Passes
    <3>1. last' = last \/ Pass(check[w].ceiling, TRUE, FALSE)
      BY <1>2 DEF Approve
    <3>2. [ceiling |-> check[w].ceiling, asked |-> TRUE, standing |-> FALSE] \in Passes
      BY <2>2 DEF Passes
    <3> QED
      BY <3>1, <3>2 DEF Pass, GateTypeOK
  <2> QED
    BY <1>0, <2>3, <2>4, <2>5 DEF GateTypeOK
<1>3. ASSUME NEW w \in Workers, Stored(w) PROVE GateTypeOK'
  <2>1. check[w].ceiling \in Recalls
    BY <1>3, AskingType DEF Stored
  <2> QED
    BY <1>0, <1>3, <2>1 DEF Stored, Pass, Passes, GateTypeOK
<1>4. ASSUME NEW w \in Workers, Refuse(w) PROVE GateTypeOK'
  BY <1>0, <1>4 DEF Refuse, GateTypeOK
<1>5. ASSUME NEW w \in Workers, Revoke(w) PROVE GateTypeOK'
  BY <1>0, <1>5 DEF Revoke, GateTypeOK
<1>6. ASSUME GateRestart PROVE GateTypeOK'
  BY <1>0, <1>6 DEF GateRestart, GateTypeOK
<1>7. ASSUME UNCHANGED gateVars PROVE GateTypeOK'
  BY <1>0, <1>7 DEF gateVars, GateTypeOK
<1> QED
  BY <1>1, <1>2, <1>3, <1>4, <1>5, <1>6, <1>7 DEF GateNext

LEMMA GateInitType == GateInit => GateTypeOK
BY InitType, RecallFacts DEF GateInit, GateTypeOK, Passes, NoPass

\* The state of the gate and its store keeps its types.
THEOREM GateTypeCorrect == GateSpec => []GateTypeOK
<1>1. GateTypeOK /\ [GateNext]_gateVars => GateTypeOK'
  BY GateTypeStep
<1> QED
  BY <1>1, GateInitType, PTL DEF GateSpec

\* A gate in front of the store uses it as its specification says, so all that is
\* proved of the store holds behind the gate.
THEOREM GateImplementsStore == GateSpec => Spec
<1>1. GateInit => Init
  BY DEF GateInit
<1>2. GateTypeOK /\ [GateNext]_gateVars => [Next]_storeVars
  BY GateStepIsStoreStep
<1> QED
  BY <1>1, <1>2, GateTypeCorrect, PTL DEF GateSpec, Spec

-----------------------------------------------------------------------------
\* What stands, and what is on its way to the file, was answered for that long.
CeilingInv ==
  /\ \A g \in mem : RecallSession <= given[g]
  /\ \A g \in file \cup durable : given[g] = RecallAlways
  /\ \A w \in Workers : job[w].op = "remember" => given[job[w].grant] = RecallAlways

\* No answer shortens what was given before, and one counts for what it holds.
LEMMA GivenGrows ==
  ASSUME GateTypeOK, NEW w \in Workers, NEW choice, choice.recall \in Recalls,
         check[w].at = "asking", choice.grant \in Grants, Approve(w, choice)
  PROVE  /\ \A g \in Grants : given[g] <= given'[g]
         /\ \A g \in Grants : given[g] = RecallAlways => given'[g] = RecallAlways
         /\ Effective(check[w].ceiling, choice.recall) <= given'[choice.grant]
         /\ given' \in [Grants -> Recalls]
<1>1. check[w].ceiling \in Recalls
  BY AskingType
<1>2. ASSUME NEW a \in Recalls, NEW b \in Recalls, NEW c \in Recalls
      PROVE  /\ c <= MaxRecall(c, MinRecall(a, b))
             /\ MinRecall(b, a) <= MaxRecall(c, MinRecall(a, b))
             /\ c = RecallAlways => MaxRecall(c, MinRecall(a, b)) = RecallAlways
             /\ MaxRecall(c, MinRecall(a, b)) \in Recalls
             /\ c <= c
  BY DEF Recalls, RecallNever, RecallSession, RecallAlways, MinRecall, MaxRecall
<1>3. given \in [Grants -> Recalls]
  BY DEF GateTypeOK
<1>4. given' = [given EXCEPT ![choice.grant] =
                  MaxRecall(@, MinRecall(choice.recall, check[w].ceiling))]
  BY DEF Approve
<1> QED
  BY <1>1, <1>2, <1>3, <1>4 DEF Effective

LEMMA CeilingStep ==
  ASSUME GateTypeOK, CeilingInv, [GateNext]_gateVars
  PROVE  CeilingInv'
<1>0. TypeOK
  BY DEF GateTypeOK
<1>1. ASSUME NEW w \in Workers, NEW a \in Actions, Check(w, a) PROVE CeilingInv'
  BY <1>1 DEF Check, AskPolicy, storeVars, CeilingInv
<1>2. ASSUME NEW w \in Workers, NEW choice \in [grant : Grants, recall : Recalls],
             check[w].at = "asking", choice \in Choices(w, check[w].action, check[w].ceiling),
             Approve(w, choice)
      PROVE  CeilingInv'
  <2> DEFINE effective == Effective(check[w].ceiling, choice.recall)
  <2>1. /\ choice.grant \in Grants /\ effective \in Recalls
        /\ \/ effective = RecallNever /\ UNCHANGED storeVars
           \/ \E recall \in {RecallSession, RecallAlways} :
                recall = effective /\ StartRemember(w, choice.grant, recall)
    BY <1>2, ApproveEffect
  <2>2. choice.recall \in Recalls
    BY <1>2
  <2>3. /\ \A g \in Grants : given[g] <= given'[g]
        /\ \A g \in Grants : given[g] = RecallAlways => given'[g] = RecallAlways
        /\ effective <= given'[choice.grant]
        /\ given' \in [Grants -> Recalls]
    BY <1>2, <2>1, <2>2, GivenGrows
  <2>4. ASSUME NEW g \in Grants, RecallSession <= given[g] PROVE RecallSession <= given'[g]
    <3>1. given[g] \in Nat /\ given'[g] \in Nat /\ RecallSession \in Nat
      BY <2>3, RecallFacts DEF GateTypeOK
    <3> QED
      BY <2>3, <2>4, <3>1
  <2>5. CASE effective = RecallNever /\ UNCHANGED storeVars
    <3>1. \A v \in Workers : job[v].op = "remember" => job[v].grant \in Grants
      BY <1>0 DEF TypeOK, Jobs, Idle
    <3> QED
      BY <2>3, <2>4, <2>5, <3>1, <1>0 DEF CeilingInv, storeVars, TypeOK
  <2>6. ASSUME NEW recall \in {RecallSession, RecallAlways},
               recall = effective, StartRemember(w, choice.grant, recall)
        PROVE  CeilingInv'
    <3>1. recall <= given'[choice.grant]
      BY <2>3, <2>6
    <3>2. ASSUME NEW g \in mem' PROVE RecallSession <= given'[g]
      <4>1. CASE g = choice.grant
        <5>1. given'[g] \in Nat
          BY <2>1, <2>3, <4>1, RecallFacts
        <5> QED
          BY <3>1, <4>1, <5>1 DEF RecallSession, RecallAlways
      <4>2. CASE g # choice.grant
        BY <1>0, <2>4, <2>6, <3>2, <4>2 DEF StartRemember, CeilingInv, TypeOK
      <4> QED
        BY <4>1, <4>2
    <3>3. \A g \in file' \cup durable' : given'[g] = RecallAlways
      BY <1>0, <2>3, <2>6 DEF StartRemember, CeilingInv, TypeOK
    <3>4. ASSUME NEW v \in Workers, job'[v].op = "remember"
          PROVE  given'[job'[v].grant] = RecallAlways
      <4>1. /\ Disturb(job, choice.grant) \in [Workers -> Jobs]
            /\ Disturb(job, choice.grant)[v].op = job[v].op
            /\ job[v].op # "forget" => Disturb(job, choice.grant)[v] = job[v]
        BY <1>0, <2>1, DisturbEffect
      <4>2. CASE recall = RecallAlways /\ v = w
        <5>1. job'[v].grant = choice.grant
          BY <2>6, <4>1, <4>2 DEF StartRemember
        <5>2. given'[choice.grant] \in Recalls /\ RecallAlways <= given'[choice.grant]
          BY <2>1, <2>3, <3>1, <4>2
        <5> QED
          BY <5>1, <5>2 DEF Recalls, RecallNever, RecallSession, RecallAlways
      <4>3. CASE ~(recall = RecallAlways /\ v = w)
        <5>1. job'[v] = Disturb(job, choice.grant)[v]
          BY <2>6, <4>1, <4>3 DEF StartRemember
        <5>2. job[v].op = "remember" /\ job'[v] = job[v]
          BY <3>4, <4>1, <5>1
        <5>3. job[v].grant \in Grants
          BY <1>0, <5>2 DEF TypeOK, Jobs, Idle
        <5> QED
          BY <2>3, <5>2, <5>3 DEF CeilingInv
      <4> QED
        BY <4>2, <4>3
    <3> QED
      BY <3>2, <3>3, <3>4 DEF CeilingInv
  <2> QED
    BY <2>1, <2>5, <2>6
<1>3. ASSUME NEW w \in Workers, Stored(w) PROVE CeilingInv'
  BY <1>0, <1>3 DEF Stored, FinishRemember, Write, CeilingInv, TypeOK, Idle
<1>4. ASSUME NEW w \in Workers, Refuse(w) PROVE CeilingInv'
  BY <1>4 DEF Refuse, storeVars, CeilingInv
<1>5. ASSUME NEW w \in Workers, NEW g \in Grants, StartForget(w, g), UNCHANGED given
      PROVE  CeilingInv'
  BY <1>0, <1>5 DEF StartForget, CeilingInv, TypeOK
<1>6. ASSUME NEW w \in Workers, FinishForget(w), UNCHANGED given
      PROVE  CeilingInv'
  BY <1>0, <1>6 DEF FinishForget, Write, CeilingInv, TypeOK, Idle
<1>7. ASSUME GateRestart PROVE CeilingInv'
  BY <1>7 DEF GateRestart, Restart, CeilingInv, Idle, RecallSession, RecallAlways
<1>8. ASSUME UNCHANGED gateVars PROVE CeilingInv'
  BY <1>8 DEF gateVars, CeilingInv
<1> QED
  BY <1>1, <1>2, <1>3, <1>4, <1>5, <1>6, <1>7, <1>8 DEF GateNext, Revoke

\* Nothing stands for longer than somebody said, nor than the policy of the check
\* it answered allows, whatever an approver returns and whichever writes fail.
THEOREM CeilingsHold == GateSpec => []CeilingHolds
<1>1. GateInit => CeilingInv
  BY DEF GateInit, Init, CeilingInv, Idle
<1>2. GateTypeOK /\ CeilingInv /\ [GateNext]_gateVars => CeilingInv'
  BY CeilingStep
<1>3. CeilingInv => CeilingHolds
  BY DEF CeilingInv, CeilingHolds
<1> QED
  BY <1>1, <1>2, <1>3, GateTypeCorrect, PTL DEF GateSpec

\* As long as every write has succeeded, no action that is asked passes without a
\* yes, and an earlier yes counts only where the policy lets it and until it is
\* revoked.
THEOREM EveryPassRestsOnAYes == GateSpec => []PassesRestOnAYes
<1>1. GateInit => PassesRestOnAYes
  BY DEF GateInit, NoPass, PassesRestOnAYes
<1>2. ASSUME GateTypeOK, CeilingHolds, RevocationHolds, PassesRestOnAYes,
             [GateNext]_gateVars, ~failed'
      PROVE  PassesRestOnAYes'
  <2>0. ~failed /\ TypeOK
    BY <1>2, GateStepIsStoreStep, FailedStays DEF GateTypeOK
  <2>1. ASSUME NEW w \in Workers, NEW a \in Actions, Check(w, a)
        PROVE  PassesRestOnAYes'
    <3>1. CASE Policy[w][a].recall # RecallNever /\ Covered(a, mem)
      <4>1. PICK g \in mem : <<g, a>> \in Covers
        BY <3>1 DEF Covered
      <4>2. g \in Grants \ revoked /\ RecallSession <= given[g]
        BY <1>2, <2>0, <4>1 DEF CeilingHolds, RevocationHolds, GateTypeOK, TypeOK
      <4>3. Standing(a)
        BY <4>1, <4>2 DEF Standing, Covered
      <4>4. last' = [ceiling |-> Policy[w][a].recall, asked |-> FALSE, standing |-> Standing(a)]
        BY <2>1, <3>1 DEF Check, AskPolicy, Pass
      <4>5. last'.standing = Standing(a) /\ last'.ceiling = Policy[w][a].recall
        BY <4>4, Zenon
      <4> QED
        BY <3>1, <4>3, <4>5, Zenon DEF PassesRestOnAYes
    <3>2. CASE ~(Policy[w][a].recall # RecallNever /\ Covered(a, mem))
      BY <1>2, <2>0, <2>1, <3>2 DEF Check, AskPolicy, PassesRestOnAYes
    <3> QED
      BY <3>1, <3>2
  <2>2. ASSUME NEW w \in Workers, NEW choice, Approve(w, choice) PROVE PassesRestOnAYes'
    BY <1>2, <2>0, <2>2 DEF Approve, Pass, PassesRestOnAYes
  <2>3. ASSUME NEW w \in Workers, Stored(w) PROVE PassesRestOnAYes'
    BY <2>3 DEF Stored, Pass, PassesRestOnAYes
  <2>4. ASSUME UNCHANGED last PROVE PassesRestOnAYes'
    BY <1>2, <2>0, <2>4 DEF PassesRestOnAYes
  <2> QED
    BY <1>2, <2>1, <2>2, <2>3, <2>4 DEF GateNext, Refuse, Revoke, GateRestart, gateVars
<1>2a. GateTypeOK /\ CeilingHolds /\ RevocationHolds /\ PassesRestOnAYes /\ [GateNext]_gateVars
         => PassesRestOnAYes'
  BY <1>2 DEF PassesRestOnAYes
<1>3. GateSpec => []RevocationHolds
  BY GateImplementsStore, RevocationsHold
<1> QED
  BY <1>1, <1>2a, <1>3, GateTypeCorrect, CeilingsHold, PTL DEF GateSpec

\* With approvers that build their sheets with Offerable, nobody is ever shown an
\* answer that would be narrowed afterwards.
THEOREM NoAnswerIsNarrowed == GateSpec => []AnswersAreHonest
<1>1. GateTypeOK => AnswersAreHonest
  <2> SUFFICES ASSUME GateTypeOK, NEW w \in Workers \ Careless, check[w].at = "asking",
                      NEW choice \in Choices(w, check[w].action, check[w].ceiling)
               PROVE  Effective(check[w].ceiling, choice.recall) = choice.recall
    BY DEF AnswersAreHonest
  <2>1. check[w].action \in Actions /\ check[w].ceiling \in Recalls
    BY AskingType
  <2> QED
    BY <2>1, OffersAreHonest DEF Choices
<1> QED
  BY <1>1, GateTypeCorrect, PTL

\* What is allowed for the session ends with it, and what is revoked stays revoked,
\* for every policy, whatever the runs behind the gate ask for.
THEOREM GrantsEndInTime == GateSpec => []GrantsEnd
BY GateImplementsStore, SessionGrantsEndWithTheSession, RevocationsHold, PTL DEF GrantsEnd

\* What a person says is what comes to pass, for every approver and every policy.
THEOREM AnswersAlwaysHold == GateSpec => []AnswersHold
BY GateTypeCorrect, NoAnswerIsNarrowed, CeilingsHold, PTL DEF AnswersHold

-----------------------------------------------------------------------------
(*****************************************************************************)
(* The broker: type correctness.                                             *)
(*****************************************************************************)

LEMMA MessageTypes ==
  ASSUME NEW a \in Asks
  PROVE  Request(a) \in Messages /\ Resolved(a) \in Messages /\ Event \in Messages
BY DEF Request, Resolved, Event, Messages

LEMMA SendNextType ==
  ASSUME BrokerTypeOK, NEW a \in Asks, NEW S \in SUBSET Conns,
         NEW during \in AskStates, NEW after \in AskStates,
         SendNext(a, S, during, after)
  PROVE  /\ pc' \in [Asks -> AskStates]
         /\ at' \in [Asks -> Conns \cup {NoConn}]
         /\ todo' \in [Asks -> SUBSET Conns]
<1>1. CASE S = {} /\ pc' = [pc EXCEPT ![a] = after] /\ at' = [at EXCEPT ![a] = NoConn]
           /\ todo' = [todo EXCEPT ![a] = {}]
  BY <1>1 DEF BrokerTypeOK
<1>2. ASSUME NEW c \in S, pc' = [pc EXCEPT ![a] = during], at' = [at EXCEPT ![a] = c],
             todo' = [todo EXCEPT ![a] = S \ {c}]
      PROVE  /\ pc' \in [Asks -> AskStates]
             /\ at' \in [Asks -> Conns \cup {NoConn}]
             /\ todo' \in [Asks -> SUBSET Conns]
  <2>1. c \in Conns /\ S \ {c} \in SUBSET Conns
    OBVIOUS
  <2>2. QED
    BY <1>2, <2>1 DEF BrokerTypeOK
<1>3. QED
  BY <1>1, <1>2 DEF SendNext

LEMMA EnqueueType ==
  ASSUME BrokerTypeOK, NEW c \in Conns, NEW m \in Messages, HasRoom(c), Enqueue(c, m)
  PROVE  /\ queue' \in [Conns -> Seq(Messages)]
         /\ \A e \in Conns : Len(queue'[e]) <= QueueCap
<1>1. queue[c] \in Seq(Messages) /\ Len(queue[c]) < QueueCap
  BY DEF BrokerTypeOK, HasRoom
<1>2. Append(queue[c], m) \in Seq(Messages)
  BY <1>1
<1>3. Len(Append(queue[c], m)) <= QueueCap
  BY <1>1, BrokerAssumption
<1>4. QED
  BY <1>2, <1>3 DEF BrokerTypeOK, Enqueue

LEMMA WriteType ==
  ASSUME BrokerTypeOK, NEW c \in Conns, WriteOut(c)
  PROVE  BrokerTypeOK'
<1>1. queue[c] \in Seq(Messages) /\ queue[c] # <<>>
  BY DEF BrokerTypeOK, WriteOut
<1>2. Tail(queue[c]) \in Seq(Messages) /\ Len(Tail(queue[c])) <= Len(queue[c])
      /\ Head(queue[c]) \in Messages
  BY <1>1
<1>3. queue' \in [Conns -> Seq(Messages)] /\ \A e \in Conns : Len(queue'[e]) <= QueueCap
  <2>1. queue' = [queue EXCEPT ![c] = Tail(queue[c])]
    BY DEF WriteOut
  <2>2. \A e \in Conns : queue'[e] = IF e = c THEN Tail(queue[c]) ELSE queue[e]
    BY <2>1 DEF BrokerTypeOK
  <2>3. Len(queue[c]) <= QueueCap /\ Len(queue[c]) \in Nat /\ Len(Tail(queue[c])) \in Nat
    BY <1>1, <1>2 DEF BrokerTypeOK
  <2>4. Len(Tail(queue[c])) <= QueueCap
    BY <1>2, <2>3, BrokerAssumption
  <2>5. QED
    BY <1>2, <2>1, <2>2, <2>4 DEF BrokerTypeOK
<1>4. shown' \in [Devices -> SUBSET Asks] /\ writing' \subseteq Conns
  <2>1. CASE link[c] = "up"
    <3> DEFINE m == Head(queue[c])
    <3>1. m.type \in {"request", "resolved"} => m.ask \in Asks
      BY <1>2 DEF Messages, Event
    <3>2. Reduce(DeviceOf[c], m) /\ writing' = writing
      BY <2>1 DEF WriteOut
    <3> HIDE DEF m
    <3>3. QED
      BY <3>1, <3>2 DEF Reduce, BrokerTypeOK
  <2>2. CASE link[c] # "up"
    BY <2>2 DEF WriteOut, BrokerTypeOK
  <2>3. QED
    BY <2>1, <2>2
<1>5. QED
  BY <1>3, <1>4 DEF WriteOut, BrokerTypeOK, askVars, brokerVars, connVars

\* Every step keeps the types.
LEMMA BrokerTypeStep ==
  ASSUME BrokerTypeOK, BrokerNext
  PROVE  BrokerTypeOK'
<1> USE DEF askVars, brokerVars, connVars, wireVars, deviceVars
<1>1. ASSUME NEW a \in Asks, Register(a) PROVE BrokerTypeOK'
  BY <1>1 DEF BrokerTypeOK, Register, AskStates
<1>2. ASSUME NEW a \in Asks, Route(a) PROVE BrokerTypeOK'
  <2>1. Active \in SUBSET Conns
    BY DEF Active
  <2>2. SendNext(a, Active, "present", "wait")
    BY <1>2 DEF Route
  <2>3. pc' \in [Asks -> AskStates] /\ at' \in [Asks -> Conns \cup {NoConn}]
        /\ todo' \in [Asks -> SUBSET Conns]
    BY <1>2, <2>1, <2>2, SendNextType DEF AskStates
  <2>4. QED
    BY <1>2, <2>3 DEF BrokerTypeOK, Route
<1>3. ASSUME NEW a \in Asks, Present(a) PROVE BrokerTypeOK'
  <2>1. SendNext(a, todo[a], "present", "wait") /\ todo[a] \in SUBSET Conns
    BY <1>3 DEF Present, BrokerTypeOK
  <2>2. pc' \in [Asks -> AskStates] /\ at' \in [Asks -> Conns \cup {NoConn}]
        /\ todo' \in [Asks -> SUBSET Conns]
    BY <1>3, <2>1, SendNextType DEF AskStates
  <2>3. queue' \in [Conns -> Seq(Messages)] /\ \A e \in Conns : Len(queue'[e]) <= QueueCap
    <3>1. CASE HasRoom(at[a]) /\ Enqueue(at[a], Request(a))
      <4>1. CASE at[a] \in Conns
        BY <3>1, <4>1, MessageTypes, EnqueueType
      <4>2. CASE at[a] \notin Conns
        BY <3>1, <4>2 DEF Enqueue, BrokerTypeOK
      <4>3. QED
        BY <4>1, <4>2
    <3>2. CASE UNCHANGED queue
      BY <3>2 DEF BrokerTypeOK
    <3>3. QED
      BY <1>3, <3>1, <3>2 DEF Present
  <2>4. QED
    BY <1>3, <2>2, <2>3 DEF BrokerTypeOK, Present
<1>4. ASSUME NEW a \in Asks, TakeAnswer(a) PROVE BrokerTypeOK'
  <2>1. Pick(ch[a]) \in Verdicts
    BY <1>4 DEF BrokerTypeOK, Pick, Verdicts
  <2>2. QED
    BY <1>4, <2>1 DEF BrokerTypeOK, TakeAnswer, AskStates
<1>5. ASSUME NEW a \in Asks, TimeOut(a) PROVE BrokerTypeOK'
  BY <1>5 DEF BrokerTypeOK, TimeOut, AskStates, Verdicts
<1>6. ASSUME NEW a \in Asks, Abandon(a) PROVE BrokerTypeOK'
  BY <1>6 DEF BrokerTypeOK, Abandon, AskStates, Verdicts
<1>7. ASSUME NEW a \in Asks, Conclude(a) PROVE BrokerTypeOK'
  <2>1. Attached \in SUBSET Conns
    BY DEF Attached
  <2>2. SendNext(a, Attached, "clear", "done")
    BY <1>7 DEF Conclude
  <2>3. pc' \in [Asks -> AskStates] /\ at' \in [Asks -> Conns \cup {NoConn}]
        /\ todo' \in [Asks -> SUBSET Conns]
    BY <1>7, <2>1, <2>2, SendNextType DEF AskStates
  <2>4. QED
    BY <1>7, <2>3 DEF BrokerTypeOK, Conclude
<1>8. ASSUME NEW a \in Asks, Clear(a) PROVE BrokerTypeOK'
  <2>1. SendNext(a, todo[a], "clear", "done") /\ todo[a] \in SUBSET Conns
    BY <1>8 DEF Clear, BrokerTypeOK
  <2>2. pc' \in [Asks -> AskStates] /\ at' \in [Asks -> Conns \cup {NoConn}]
        /\ todo' \in [Asks -> SUBSET Conns]
    BY <1>8, <2>1, SendNextType DEF AskStates
  <2>3. queue' \in [Conns -> Seq(Messages)] /\ \A e \in Conns : Len(queue'[e]) <= QueueCap
    <3>1. HasRoom(at[a]) /\ Enqueue(at[a], Resolved(a))
      BY <1>8 DEF Clear
    <3>2. CASE at[a] \in Conns
      BY <3>1, <3>2, MessageTypes, EnqueueType
    <3>3. CASE at[a] \notin Conns
      BY <3>1, <3>3 DEF Enqueue, BrokerTypeOK
    <3>4. QED
      BY <3>2, <3>3
  <2>4. QED
    BY <1>8, <2>2, <2>3 DEF BrokerTypeOK, Clear
<1>9. ASSUME NEW a \in Asks, Cancel(a) PROVE BrokerTypeOK'
  BY <1>9 DEF BrokerTypeOK, Cancel
<1>10. ASSUME NEW c \in Conns, Attach(c) PROVE BrokerTypeOK'
  BY <1>10 DEF BrokerTypeOK, Attach, ConnStates
<1>11. ASSUME NEW c \in Conns, CopyPending(c) PROVE BrokerTypeOK'
  BY <1>11 DEF BrokerTypeOK, CopyPending, ConnStates
<1>12. ASSUME NEW c \in Conns, Resume(c) PROVE BrokerTypeOK'
  BY <1>12 DEF BrokerTypeOK, Resume, ConnStates
<1>13. ASSUME NEW c \in Conns, Teardown(c) PROVE BrokerTypeOK'
  BY <1>13 DEF BrokerTypeOK, Teardown, ConnStates
<1>14. ASSUME NEW c \in Conns, WriteOut(c) PROVE BrokerTypeOK'
  BY <1>14, WriteType
<1>15. ASSUME NEW c \in Conns, Broadcast(c) PROVE BrokerTypeOK'
  <2>1. Event \in Messages
    BY DEF Messages
  <2>2. queue' \in [Conns -> Seq(Messages)] /\ \A e \in Conns : Len(queue'[e]) <= QueueCap
    BY <1>15, <2>1, EnqueueType DEF Broadcast
  <2>3. QED
    BY <1>15, <2>2 DEF BrokerTypeOK, Broadcast
<1>16. ASSUME NEW c \in Conns, Stall(c) PROVE BrokerTypeOK'
  BY <1>16 DEF BrokerTypeOK, Stall
<1>17. ASSUME NEW c \in Conns, Cut(c) PROVE BrokerTypeOK'
  BY <1>17 DEF BrokerTypeOK, Cut
<1>18. ASSUME NEW c \in Conns, Heartbeat(c) PROVE BrokerTypeOK'
  BY <1>18 DEF BrokerTypeOK, Heartbeat
<1>19. ASSUME NEW c \in Conns, NEW a \in Asks, Represent(c, a) PROVE BrokerTypeOK'
  <2>1. queue' \in [Conns -> Seq(Messages)] /\ \A e \in Conns : Len(queue'[e]) <= QueueCap
    BY <1>19, MessageTypes, EnqueueType DEF Represent
  <2>2. QED
    BY <1>19, <2>1 DEF BrokerTypeOK, Represent
<1>20. ASSUME NEW c \in Conns, NEW active \in BOOLEAN, SetActive(c, active) PROVE BrokerTypeOK'
  BY <1>20 DEF BrokerTypeOK, SetActive, ConnStates
<1>21. ASSUME NEW c \in Conns, NEW a \in Asks, NEW o \in Answers, Resolve(c, a, o)
       PROVE  BrokerTypeOK'
  BY <1>21 DEF BrokerTypeOK, Resolve
<1>22. ASSUME NEW d \in Devices, NEW a \in Asks, AnswerLost(d, a) PROVE BrokerTypeOK'
  BY <1>22 DEF BrokerTypeOK, AnswerLost
<1>23. QED
  BY <1>1, <1>2, <1>3, <1>4, <1>5, <1>6, <1>7, <1>8, <1>9, <1>10, <1>11, <1>12, <1>13,
     <1>14, <1>15, <1>16, <1>17, <1>18, <1>19, <1>20, <1>21, <1>22
     DEF BrokerNext, AskStep, ConnStep

\* The variables of the broker, its connections and their devices keep their
\* types, and no control queue outgrows its capacity.
THEOREM BrokerTypeCorrect == BrokerSpec => []BrokerTypeOK
<1>1. BrokerInit => BrokerTypeOK
  BY BrokerAssumption DEF BrokerInit, BrokerTypeOK, AskStates, ConnStates, Verdicts
<1>2. BrokerTypeOK /\ [BrokerNext]_hitlVars => BrokerTypeOK'
  <2>1. CASE UNCHANGED hitlVars
    BY <2>1 DEF BrokerTypeOK, hitlVars, askVars, brokerVars, connVars, wireVars, deviceVars
  <2>2. QED
    BY <2>1, BrokerTypeStep
<1>3. QED
  BY <1>1, <1>2, PTL DEF BrokerSpec

-----------------------------------------------------------------------------
(* The flow of an Ask *)

LEMMA SendNextEffect ==
  ASSUME BrokerTypeOK, NEW a \in Asks, NEW S \in SUBSET Conns,
         NEW during \in AskStates, NEW after \in AskStates,
         SendNext(a, S, during, after)
  PROVE  /\ \A b \in Asks \ {a} : pc'[b] = pc[b] /\ at'[b] = at[b] /\ todo'[b] = todo[b]
         /\ \/ /\ S = {} /\ pc'[a] = after
               /\ at'[a] = NoConn /\ todo'[a] = {}
            \/ /\ pc'[a] = during /\ at'[a] \in Conns
               /\ S = {at'[a]} \cup todo'[a]
<1>1. CASE S = {} /\ pc' = [pc EXCEPT ![a] = after] /\ at' = [at EXCEPT ![a] = NoConn]
           /\ todo' = [todo EXCEPT ![a] = {}]
  BY <1>1 DEF BrokerTypeOK
<1>2. ASSUME NEW c \in S, pc' = [pc EXCEPT ![a] = during], at' = [at EXCEPT ![a] = c],
             todo' = [todo EXCEPT ![a] = S \ {c}]
      PROVE  /\ \A b \in Asks \ {a} : pc'[b] = pc[b] /\ at'[b] = at[b] /\ todo'[b] = todo[b]
             /\ pc'[a] = during /\ at'[a] \in Conns /\ S = {at'[a]} \cup todo'[a]
  BY <1>2 DEF BrokerTypeOK
<1>3. QED
  BY <1>1, <1>2 DEF SendNext

\* A step of one Ask leaves the flow of the others as it is.
LEMMA FlowFrame ==
  ASSUME AskFlow, NEW a \in Asks, FlowOf(a)',
         \A b \in Asks \ {a} : /\ pc'[b] = pc[b] /\ at'[b] = at[b] /\ todo'[b] = todo[b]
                               /\ verdict'[b] = verdict[b]
                               /\ (b \in pending') <=> (b \in pending)
  PROVE  AskFlow'
<1>1. ASSUME NEW b \in Asks \ {a} PROVE FlowOf(b)'
  BY DEF AskFlow, FlowOf
<1>2. QED
  BY <1>1 DEF AskFlow

LEMMA FlowPresent ==
  ASSUME BrokerTypeOK, AskFlow, NEW a \in Asks, NEW S \in SUBSET Conns,
         SendNext(a, S, "present", "wait"), pc[a] \in {"route", "present"},
         UNCHANGED <<pending, verdict>>
  PROVE  AskFlow'
<1>1. /\ \A b \in Asks \ {a} : pc'[b] = pc[b] /\ at'[b] = at[b] /\ todo'[b] = todo[b]
      /\ \/ pc'[a] = "wait" /\ at'[a] = NoConn /\ todo'[a] = {}
         \/ pc'[a] = "present" /\ at'[a] \in Conns
  BY SendNextEffect DEF AskStates
<1>2. FlowOf(a)'
  BY <1>1 DEF AskFlow, FlowOf
<1>3. QED
  BY <1>1, <1>2, FlowFrame

LEMMA FlowClear ==
  ASSUME BrokerTypeOK, AskFlow, NEW a \in Asks, NEW S \in SUBSET Conns,
         SendNext(a, S, "clear", "done"), pc[a] \in {"conclude", "clear"},
         pending' = pending \ {a}, UNCHANGED verdict
  PROVE  AskFlow'
<1>1. /\ \A b \in Asks \ {a} : pc'[b] = pc[b] /\ at'[b] = at[b] /\ todo'[b] = todo[b]
      /\ \/ pc'[a] = "done" /\ at'[a] = NoConn /\ todo'[a] = {}
         \/ pc'[a] = "clear" /\ at'[a] \in Conns
  BY SendNextEffect DEF AskStates
<1>2. FlowOf(a)'
  BY <1>1 DEF AskFlow, FlowOf
<1>3. QED
  BY <1>1, <1>2, FlowFrame

LEMMA FlowStep ==
  ASSUME BrokerTypeOK, AskFlow, BrokerNext
  PROVE  AskFlow'
<1> USE DEF askVars, brokerVars, connVars, wireVars, deviceVars
<1>1. ASSUME NEW a \in Asks, Register(a) PROVE AskFlow'
  <2>1. FlowOf(a)'
    BY <1>1 DEF BrokerTypeOK, AskFlow, FlowOf, Register
  <2>2. QED
    BY <1>1, <2>1, FlowFrame DEF BrokerTypeOK, Register
<1>2. ASSUME NEW a \in Asks, Route(a) PROVE AskFlow'
  <2>1. Active \in SUBSET Conns /\ SendNext(a, Active, "present", "wait")
        /\ pc[a] = "route" /\ UNCHANGED <<pending, verdict>>
    BY <1>2 DEF Route, Active
  <2>2. QED
    BY <2>1, FlowPresent
<1>3. ASSUME NEW a \in Asks, Present(a) PROVE AskFlow'
  <2>1. todo[a] \in SUBSET Conns /\ SendNext(a, todo[a], "present", "wait")
        /\ pc[a] = "present" /\ UNCHANGED <<pending, verdict>>
    BY <1>3 DEF Present, BrokerTypeOK
  <2>2. QED
    BY <2>1, FlowPresent
<1>4. ASSUME NEW a \in Asks, TakeAnswer(a) \/ TimeOut(a) \/ Abandon(a) PROVE AskFlow'
  <2>1. Pick(ch[a]) # "none"
    BY BrokerAssumption DEF Pick
  <2>2. pc[a] = "wait" /\ pc'[a] = "conclude" /\ verdict'[a] # "none"
    BY <1>4, <2>1 DEF BrokerTypeOK, TakeAnswer, TimeOut, Abandon
  <2>3. UNCHANGED <<at, todo, pending>>
    BY <1>4 DEF TakeAnswer, TimeOut, Abandon
  <2>4. FlowOf(a)'
    BY <2>2, <2>3 DEF AskFlow, FlowOf
  <2>5. \A b \in Asks \ {a} : pc'[b] = pc[b] /\ verdict'[b] = verdict[b]
    BY <1>4 DEF BrokerTypeOK, TakeAnswer, TimeOut, Abandon
  <2>6. QED
    BY <2>3, <2>4, <2>5, FlowFrame
<1>5. ASSUME NEW a \in Asks, Conclude(a) PROVE AskFlow'
  <2>1. Attached \in SUBSET Conns /\ SendNext(a, Attached, "clear", "done")
        /\ pc[a] = "conclude" /\ pending' = pending \ {a} /\ UNCHANGED verdict
    BY <1>5 DEF Conclude, Attached
  <2>2. QED
    BY <2>1, FlowClear
<1>6. ASSUME NEW a \in Asks, Clear(a) PROVE AskFlow'
  <2>1. pc[a] = "clear" /\ SendNext(a, todo[a], "clear", "done") /\ UNCHANGED <<pending, verdict>>
    BY <1>6 DEF Clear
  <2>2. pending \ {a} = pending
    BY <2>1 DEF AskFlow, FlowOf
  <2>3. todo[a] \in SUBSET Conns
    BY DEF BrokerTypeOK
  <2>4. QED
    BY <2>1, <2>2, <2>3, FlowClear
<1>7. ASSUME UNCHANGED <<pc, at, todo, verdict, pending>> PROVE AskFlow'
  BY <1>7 DEF AskFlow, FlowOf
<1>8. ASSUME NEW a \in Asks, Cancel(a) PROVE AskFlow'
  BY <1>7, <1>8 DEF Cancel
<1>9. ASSUME NEW c \in Conns, ConnStep(c) PROVE AskFlow'
  BY <1>7, <1>9 DEF ConnStep, Attach, CopyPending, Resume, Teardown, WriteOut, Broadcast,
     Stall, Cut, Heartbeat, Represent, SetActive, Resolve
<1>10. ASSUME NEW d \in Devices, NEW a \in Asks, AnswerLost(d, a) PROVE AskFlow'
  BY <1>7, <1>10 DEF AnswerLost
<1>11. QED
  BY <1>1, <1>2, <1>3, <1>4, <1>5, <1>6, <1>8, <1>9, <1>10 DEF BrokerNext, AskStep

-----------------------------------------------------------------------------
(* What the queues hold *)

LEMMA EnqueueEffect ==
  ASSUME BrokerTypeOK, NEW c \in Conns, NEW m \in Messages, Enqueue(c, m)
  PROVE  /\ \A e \in Conns \ {c} : queue'[e] = queue[e]
         /\ Len(queue'[c]) = Len(queue[c]) + 1
         /\ Len(queue[c]) \in Nat
         /\ \A i \in 1..Len(queue[c]) : queue'[c][i] = queue[c][i]
         /\ queue'[c][Len(queue[c]) + 1] = m
<1>1. queue[c] \in Seq(Messages)
  BY DEF BrokerTypeOK
<1>2. queue'[c] = Append(queue[c], m) /\ \A e \in Conns \ {c} : queue'[e] = queue[e]
  BY DEF BrokerTypeOK, Enqueue
<1>3. QED
  BY <1>1, <1>2

LEMMA EnqueueQueued ==
  ASSUME BrokerTypeOK, NEW c \in Conns, NEW m \in Messages, Enqueue(c, m),
         NEW e \in Conns, NEW b \in Asks
  PROVE  /\ Queued(e, b) => Queued(e, b)'
         /\ m = Request(b) => Queued(c, b)'
BY EnqueueEffect DEF Queued, Request

LEMMA BrokerWriteEffect ==
  ASSUME BrokerTypeOK, NEW c \in Conns, WriteOut(c)
  PROVE  /\ \A e \in Conns \ {c} : queue'[e] = queue[e]
         /\ Len(queue[c]) \in Nat \ {0}
         /\ Len(queue'[c]) = Len(queue[c]) - 1
         /\ \A i \in 1..Len(queue'[c]) : queue'[c][i] = queue[c][i + 1]
         /\ Head(queue[c]) = queue[c][1]
<1>1. queue[c] \in Seq(Messages) /\ queue[c] # <<>>
  BY DEF BrokerTypeOK, WriteOut
<1>2. queue'[c] = Tail(queue[c]) /\ \A e \in Conns \ {c} : queue'[e] = queue[e]
  BY DEF BrokerTypeOK, WriteOut
<1>3. QED
  BY <1>1, <1>2

\* A message that clears a prompt belongs to an Ask that has decided.
LEMMA ClearedStep ==
  ASSUME BrokerTypeOK, AskFlow, ClearedLate, BrokerNext
  PROVE  ClearedLate'
<1> USE DEF askVars, brokerVars, connVars, wireVars, deviceVars
<1> DEFINE Stays == \A b \in Asks : pc[b] \in {"clear", "done"} => pc'[b] \in {"clear", "done"}
<1>1. Stays
  <2>1. ASSUME NEW a \in Asks, Route(a) PROVE Stays
    BY <2>1, SendNextEffect DEF AskStates, Route, Active
  <2>2. ASSUME NEW a \in Asks, Present(a) PROVE Stays
    <3>1. todo[a] \in SUBSET Conns /\ SendNext(a, todo[a], "present", "wait")
          /\ pc[a] = "present"
      BY <2>2 DEF BrokerTypeOK, Present
    <3>2. QED
      BY <3>1, SendNextEffect DEF AskStates
  <2>3. ASSUME NEW a \in Asks, Conclude(a) PROVE Stays
    BY <2>3, SendNextEffect DEF AskStates, Conclude, Attached
  <2>4. ASSUME NEW a \in Asks, Clear(a) PROVE Stays
    <3>1. todo[a] \in SUBSET Conns /\ SendNext(a, todo[a], "clear", "done")
      BY <2>4 DEF BrokerTypeOK, Clear
    <3>2. QED
      BY <3>1, SendNextEffect DEF AskStates
  <2>5. ASSUME NEW a \in Asks, Register(a) \/ TakeAnswer(a) \/ TimeOut(a) \/ Abandon(a)
        PROVE  Stays
    BY <2>5 DEF BrokerTypeOK, Register, TakeAnswer, TimeOut, Abandon
  <2>6. ASSUME UNCHANGED pc PROVE Stays
    BY <2>6
  <2>7. QED
    BY <2>1, <2>2, <2>3, <2>4, <2>5, <2>6 DEF BrokerNext, AskStep, Cancel, ConnStep, Attach,
       CopyPending, Resume, Teardown, WriteOut, Broadcast, Stall, Cut, Heartbeat, Represent,
       SetActive, Resolve, AnswerLost
<1>2. ASSUME NEW c \in Conns, NEW m \in Messages, Enqueue(c, m),
             m.type = "resolved" => pc'[m.ask] \in {"clear", "done"}
      PROVE  ClearedLate'
  <2>1. SUFFICES ASSUME NEW e \in Conns, NEW i \in 1..Len(queue'[e]),
                        queue'[e][i].type = "resolved"
                 PROVE  pc'[queue'[e][i].ask] \in {"clear", "done"}
    BY DEF ClearedLate
  <2>2. CASE e # c \/ i \in 1..Len(queue[c])
    <3>1. queue'[e][i] = queue[e][i] /\ i \in 1..Len(queue[e])
      BY <1>2, <2>2, EnqueueEffect
    <3>2. queue[e][i] \in Messages
      BY <3>1 DEF BrokerTypeOK
    <3>3. queue[e][i].ask \in Asks
      BY <2>1, <3>1, <3>2 DEF Messages, Event
    <3>4. QED
      BY <1>1, <2>1, <3>1, <3>3 DEF ClearedLate
  <2>3. CASE e = c /\ i \notin 1..Len(queue[c])
    <3>1. queue'[e][i] = m
      BY <1>2, <2>3, EnqueueEffect
    <3>2. QED
      BY <1>2, <2>1, <3>1
  <2>4. QED
    BY <2>2, <2>3
<1>3. ASSUME UNCHANGED queue PROVE ClearedLate'
  <2>1. SUFFICES ASSUME NEW e \in Conns, NEW i \in 1..Len(queue[e]),
                        queue[e][i].type = "resolved"
                 PROVE  pc'[queue[e][i].ask] \in {"clear", "done"}
    BY <1>3 DEF ClearedLate
  <2>2. queue[e][i] \in Messages
    BY DEF BrokerTypeOK
  <2>3. queue[e][i].ask \in Asks
    BY <2>1, <2>2 DEF Messages, Event
  <2>4. QED
    BY <1>1, <2>1, <2>3 DEF ClearedLate
<1>4. ASSUME NEW a \in Asks, Present(a) PROVE ClearedLate'
  <2>1. at[a] \in Conns
    BY <1>4 DEF Present, AskFlow, FlowOf
  <2>2. CASE Enqueue(at[a], Request(a))
    BY <2>1, <2>2, <1>2, MessageTypes DEF Request
  <2>3. QED
    BY <1>3, <1>4, <2>2 DEF Present
<1>5. ASSUME NEW a \in Asks, Clear(a) PROVE ClearedLate'
  <2>1. at[a] \in Conns /\ Enqueue(at[a], Resolved(a)) /\ pc[a] = "clear"
    BY <1>5 DEF Clear, AskFlow, FlowOf
  <2>2. Resolved(a).ask = a /\ pc'[a] \in {"clear", "done"}
    BY <1>1, <2>1 DEF Resolved
  <2>3. QED
    BY <2>1, <2>2, <1>2, MessageTypes
<1>6. ASSUME NEW c \in Conns, WriteOut(c) PROVE ClearedLate'
  <2>1. SUFFICES ASSUME NEW e \in Conns, NEW i \in 1..Len(queue'[e]),
                        queue'[e][i].type = "resolved"
                 PROVE  pc'[queue'[e][i].ask] \in {"clear", "done"}
    BY DEF ClearedLate
  <2>2. PICK j \in 1..Len(queue[e]) : queue'[e][i] = queue[e][j]
    <3>1. CASE e = c
      <4>1. i + 1 \in 1..Len(queue[e]) /\ queue'[e][i] = queue[e][i + 1]
        BY <1>6, <3>1, BrokerWriteEffect
      <4>2. QED
        BY <4>1
    <3>2. CASE e # c
      BY <1>6, <3>2, BrokerWriteEffect
    <3>3. QED
      BY <3>1, <3>2
  <2>3. queue[e][j] \in Messages
    BY DEF BrokerTypeOK
  <2>4. queue[e][j].ask \in Asks
    BY <2>1, <2>2, <2>3 DEF Messages, Event
  <2>5. QED
    BY <1>1, <2>1, <2>2, <2>4 DEF ClearedLate
<1>7. ASSUME NEW c \in Conns, Broadcast(c) PROVE ClearedLate'
  <2>1. Enqueue(c, Event) /\ Event \in Messages
    BY <1>7 DEF Broadcast, Messages
  <2>2. QED
    BY <1>2, <2>1 DEF Event
<1>8. ASSUME NEW c \in Conns, NEW a \in Asks, Represent(c, a) PROVE ClearedLate'
  BY <1>2, <1>8, MessageTypes DEF Represent, Request
<1>9. QED
  BY <1>3, <1>4, <1>5, <1>6, <1>7, <1>8 DEF BrokerNext, AskStep, Register, Route, TakeAnswer,
     TimeOut, Abandon, Conclude, Cancel, ConnStep, Attach, CopyPending, Resume, Teardown,
     Stall, Cut, Heartbeat, SetActive, Resolve, AnswerLost

-----------------------------------------------------------------------------
(* What re-presentation and answers leave behind *)

LEMMA CopiesStep ==
  ASSUME BrokerTypeOK, CopiesHeld, BrokerNext
  PROVE  CopiesHeld'
<1> USE DEF askVars, brokerVars, connVars, wireVars, deviceVars
<1>1. ASSUME NEW c \in Conns,
             Attach(c) \/ CopyPending(c) \/ Resume(c) \/ Teardown(c)
             \/ (\E a \in Asks : Represent(c, a))
             \/ (\E active \in BOOLEAN : SetActive(c, active))
      PROVE  CopiesHeld'
  <2>1. \A e \in Conns \ {c} : cpc'[e] = cpc[e] /\ reshow'[e] = reshow[e]
    BY <1>1 DEF BrokerTypeOK, Attach, CopyPending, Resume, Teardown, Represent, SetActive
  <2>2. cpc'[c] \notin {"attachShow", "activeShow"} => reshow'[c] = {}
    BY <1>1 DEF BrokerTypeOK, CopiesHeld, Attach, CopyPending, Resume, Teardown, Represent, SetActive
  <2>3. QED
    BY <2>1, <2>2 DEF CopiesHeld
<1>2. ASSUME UNCHANGED <<cpc, reshow>> PROVE CopiesHeld'
  BY <1>2 DEF CopiesHeld
<1>3. QED
  BY <1>1, <1>2 DEF BrokerNext, AskStep, ConnStep, Register, Route, Present, TakeAnswer, TimeOut,
     Abandon, Conclude, Clear, Cancel, WriteOut, Broadcast, Stall, Cut, Heartbeat, Resolve,
     AnswerLost

\* Prompts a device dropped stay dropped.
LEMMA DroppedGrows ==
  ASSUME BrokerTypeOK, BrokerNext
  PROVE  \A d \in Devices : dropped[d] \subseteq dropped'[d]
<1> USE DEF askVars, brokerVars, connVars, wireVars, deviceVars
<1>1. ASSUME NEW c \in Conns, NEW a \in Asks, NEW o \in Answers, Resolve(c, a, o)
      PROVE  \A d \in Devices : dropped[d] \subseteq dropped'[d]
  BY <1>1 DEF BrokerTypeOK, Resolve
<1>2. ASSUME NEW e \in Devices, NEW a \in Asks, AnswerLost(e, a)
      PROVE  \A d \in Devices : dropped[d] \subseteq dropped'[d]
  BY <1>2 DEF BrokerTypeOK, AnswerLost
<1>3. ASSUME UNCHANGED dropped
      PROVE  \A d \in Devices : dropped[d] \subseteq dropped'[d]
  BY <1>3
<1>4. QED
  BY <1>1, <1>2, <1>3 DEF BrokerNext, AskStep, ConnStep, Register, Route, Present, TakeAnswer,
     TimeOut, Abandon, Conclude, Clear, Cancel, Attach, CopyPending, Resume, Teardown, WriteOut,
     Broadcast, Stall, Cut, Heartbeat, Represent, SetActive

LEMMA AnswersStep ==
  ASSUME BrokerTypeOK, AnswersGiven, ApprovedByPerson, BrokerNext
  PROVE  AnswersGiven' /\ ApprovedByPerson'
<1> USE DEF askVars, brokerVars, connVars, wireVars, deviceVars
<1>1. ASSUME NEW a \in Asks, \E d \in Devices : a \in dropped[d]
      PROVE  \E d \in Devices : a \in dropped'[d]
  BY <1>1, DroppedGrows
<1>2. ASSUME NEW a \in Asks, TakeAnswer(a) PROVE AnswersGiven' /\ ApprovedByPerson'
  <2>1. ch[a] # "none" /\ \A b \in Asks \ {a} : ch'[b] = ch[b] /\ verdict'[b] = verdict[b]
    BY <1>2 DEF BrokerTypeOK, TakeAnswer
  <2>2. ch'[a] = "none"
    BY <1>2 DEF BrokerTypeOK, TakeAnswer
  <2>3. QED
    BY <1>1, <2>1, <2>2 DEF AnswersGiven, ApprovedByPerson
<1>3. ASSUME NEW a \in Asks, TimeOut(a) \/ Abandon(a) PROVE AnswersGiven' /\ ApprovedByPerson'
  <2>1. ch' = ch /\ \A b \in Asks \ {a} : verdict'[b] = verdict[b]
    BY <1>3 DEF BrokerTypeOK, TimeOut, Abandon
  <2>2. verdict'[a] \notin Options
    BY <1>3, BrokerAssumption DEF BrokerTypeOK, TimeOut, Abandon
  <2>3. QED
    BY <1>1, <2>1, <2>2 DEF AnswersGiven, ApprovedByPerson
<1>4. ASSUME NEW c \in Conns, NEW a \in Asks, NEW o \in Answers, Resolve(c, a, o)
      PROVE  AnswersGiven' /\ ApprovedByPerson'
  <2>1. verdict' = verdict /\ \A b \in Asks \ {a} : ch'[b] = ch[b]
    BY <1>4 DEF BrokerTypeOK, Resolve
  <2>2. DeviceOf[c] \in Devices /\ a \in dropped'[DeviceOf[c]]
    BY <1>4, BrokerAssumption DEF BrokerTypeOK, Resolve
  <2>3. QED
    BY <1>1, <2>1, <2>2 DEF AnswersGiven, ApprovedByPerson
<1>5. ASSUME UNCHANGED <<ch, verdict>> PROVE AnswersGiven' /\ ApprovedByPerson'
  BY <1>1, <1>5 DEF AnswersGiven, ApprovedByPerson
<1>6. QED
  BY <1>2, <1>3, <1>4, <1>5 DEF BrokerNext, AskStep, ConnStep, Register, Route, Present,
     Conclude, Clear, Cancel, Attach, CopyPending, Resume, Teardown, WriteOut,
     Broadcast, Stall, Cut, Heartbeat, Represent, SetActive, AnswerLost

-----------------------------------------------------------------------------
(* Every open approval is on its way to every active connection *)

LEMMA CoveredStep ==
  ASSUME BrokerTypeOK, AskFlow, ClearedLate, CopiesHeld, ActiveCovered, BrokerNext
  PROVE  ActiveCovered'
<1> USE DEF askVars, brokerVars, connVars, wireVars, deviceVars
<1> DEFINE Due(a, c) == /\ pc[a] \in {"present", "wait"} /\ a \notin cancelled
                        /\ sink[c] = "active" /\ link[c] = "up"
<1> SUFFICES ASSUME NEW a \in Asks, NEW c \in Conns, Due(a, c)'
             PROVE  OnItsWay(a, c)'
  BY DEF ActiveCovered
<1>0. DeviceOf[c] \in Devices
  BY BrokerAssumption
<1>a. Due(a, c) => OnItsWay(a, c)
  BY DEF ActiveCovered
\* The queues as the only thing that may change for the pair, and only to grow.
<1>b. ASSUME Due(a, c),
             UNCHANGED <<shown, dropped, cpc, reshow>>,
             at'[a] = at[a], todo'[a] = todo[a],
             UNCHANGED queue \/ \E e \in Conns, m \in Messages : Enqueue(e, m)
      PROVE  OnItsWay(a, c)'
  <2>1. Queued(c, a) => Queued(c, a)'
    BY <1>b, EnqueueQueued DEF Queued
  <2>2. QED
    BY <1>a, <1>b, <2>1 DEF OnItsWay
<1>1. ASSUME NEW b \in Asks, Register(b) PROVE OnItsWay(a, c)'
  <2>1. Due(a, c)
    BY <1>1 DEF BrokerTypeOK, Register
  <2>2. QED
    BY <1>1, <1>b, <2>1 DEF Register
<1>2. ASSUME NEW b \in Asks, Route(b) PROVE OnItsWay(a, c)'
  <2>1. Active \in SUBSET Conns /\ SendNext(b, Active, "present", "wait")
        /\ UNCHANGED <<cancelled, sink, link, shown, dropped, cpc, reshow, queue>>
    BY <1>2 DEF Route, Active
  <2>2. CASE a = b
    <3>1. c \in Active
      BY <2>1 DEF Active
    <3>2. c = at'[a] \/ c \in todo'[a]
      BY <2>1, <2>2, <3>1, SendNextEffect DEF AskStates
    <3>3. QED
      BY <3>2 DEF OnItsWay
  <2>3. CASE a # b
    <3>1. pc'[a] = pc[a] /\ at'[a] = at[a] /\ todo'[a] = todo[a]
      BY <2>1, <2>3, SendNextEffect DEF AskStates
    <3>2. QED
      BY <1>b, <2>1, <3>1
  <2>4. QED
    BY <2>2, <2>3
<1>3. ASSUME NEW b \in Asks, Present(b) PROVE OnItsWay(a, c)'
  <2>1. todo[b] \in SUBSET Conns /\ SendNext(b, todo[b], "present", "wait") /\ at[b] \in Conns
        /\ UNCHANGED <<cancelled, sink, link, shown, dropped, cpc, reshow>>
        /\ pc[b] = "present"
    BY <1>3 DEF BrokerTypeOK, Present, AskFlow, FlowOf
  <2>2. (Enqueue(at[b], Request(b)) \/ (b \in cancelled /\ UNCHANGED queue))
        /\ Request(b) \in Messages
    BY <1>3, MessageTypes DEF Present
  <2>3. Queued(c, a) => Queued(c, a)'
    BY <2>1, <2>2, EnqueueQueued DEF Queued
  <2>4. CASE a = b
    <3>1. Due(a, c) /\ Enqueue(at[a], Request(a))
      BY <2>1, <2>2, <2>4
    <3>2. c \in todo[a] => c = at'[a] \/ c \in todo'[a]
      BY <2>1, <2>4, SendNextEffect DEF AskStates
    <3>3. c = at[a] => Queued(c, a)'
      BY <2>2, <2>4, <3>1, EnqueueQueued
    <3>4. QED
      BY <1>a, <2>1, <2>3, <3>1, <3>2, <3>3 DEF OnItsWay
  <2>5. CASE a # b
    <3>1. pc'[a] = pc[a] /\ at'[a] = at[a] /\ todo'[a] = todo[a]
      BY <2>1, <2>5, SendNextEffect DEF AskStates
    <3>2. QED
      BY <1>b, <2>1, <2>2, <3>1
  <2>6. QED
    BY <2>4, <2>5
<1>4. ASSUME NEW b \in Asks, TakeAnswer(b) \/ TimeOut(b) \/ Abandon(b) PROVE OnItsWay(a, c)'
  <2>1. Due(a, c)
    BY <1>4 DEF BrokerTypeOK, TakeAnswer, TimeOut, Abandon
  <2>2. QED
    BY <1>4, <1>b, <2>1 DEF TakeAnswer, TimeOut, Abandon
<1>5. ASSUME NEW b \in Asks, Conclude(b) PROVE OnItsWay(a, c)'
  <2>1. Attached \in SUBSET Conns /\ SendNext(b, Attached, "clear", "done")
        /\ UNCHANGED <<cancelled, sink, link, shown, dropped, cpc, reshow, queue>>
    BY <1>5 DEF Conclude, Attached
  <2>2. a # b /\ pc'[a] = pc[a] /\ at'[a] = at[a] /\ todo'[a] = todo[a]
    BY <2>1, SendNextEffect DEF AskStates
  <2>3. QED
    BY <1>b, <2>1, <2>2
<1>6. ASSUME NEW b \in Asks, Clear(b) PROVE OnItsWay(a, c)'
  <2>1. todo[b] \in SUBSET Conns /\ SendNext(b, todo[b], "clear", "done") /\ at[b] \in Conns
        /\ UNCHANGED <<cancelled, sink, link, shown, dropped, cpc, reshow>>
    BY <1>6 DEF BrokerTypeOK, Clear, AskFlow, FlowOf
  <2>2. Enqueue(at[b], Resolved(b)) /\ Resolved(b) \in Messages
    BY <1>6, MessageTypes DEF Clear
  <2>3. a # b /\ pc'[a] = pc[a] /\ at'[a] = at[a] /\ todo'[a] = todo[a]
    BY <2>1, SendNextEffect DEF AskStates
  <2>4. QED
    BY <1>b, <2>1, <2>2, <2>3
<1>7. ASSUME NEW b \in Asks, Cancel(b) PROVE OnItsWay(a, c)'
  <2>1. Due(a, c)
    BY <1>7 DEF Cancel
  <2>2. QED
    BY <1>7, <1>b, <2>1 DEF Cancel
<1>8. ASSUME NEW e \in Conns, Attach(e) PROVE OnItsWay(a, c)'
  <2>1. CASE c = e
    BY <1>8, <2>1 DEF BrokerTypeOK, Attach, OnItsWay
  <2>2. CASE c # e
    <3>1. Due(a, c) /\ cpc'[c] = cpc[c]
      BY <1>8, <2>2 DEF BrokerTypeOK, Attach
    <3>2. QED
      BY <1>8, <1>a, <3>1 DEF Attach, OnItsWay, Queued
  <2>3. QED
    BY <2>1, <2>2
<1>9. ASSUME NEW e \in Conns, CopyPending(e) PROVE OnItsWay(a, c)'
  <2>1. Due(a, c) /\ a \in pending
    BY <1>9 DEF CopyPending, AskFlow, FlowOf
  <2>2. CASE c = e
    BY <1>9, <2>1, <2>2 DEF BrokerTypeOK, CopyPending, OnItsWay
  <2>3. CASE c # e
    <3>1. cpc'[c] = cpc[c] /\ reshow'[c] = reshow[c]
      BY <1>9, <2>3 DEF BrokerTypeOK, CopyPending
    <3>2. QED
      BY <1>9, <1>a, <2>1, <3>1 DEF CopyPending, OnItsWay, Queued
  <2>4. QED
    BY <2>2, <2>3
<1>10. ASSUME NEW e \in Conns, NEW b \in Asks, Represent(e, b) PROVE OnItsWay(a, c)'
  <2>1. Due(a, c) /\ Enqueue(e, Request(b)) /\ Request(b) \in Messages
    BY <1>10, MessageTypes DEF Represent
  <2>2. Queued(c, a) => Queued(c, a)'
    BY <2>1, EnqueueQueued
  <2>3. a \in reshow[c] => a \in reshow'[c] \/ (c = e /\ a = b)
    BY <1>10 DEF BrokerTypeOK, Represent
  <2>4. c = e /\ a = b => Queued(c, a)'
    BY <2>1, EnqueueQueued
  <2>5. QED
    BY <1>10, <1>a, <2>1, <2>2, <2>3, <2>4 DEF Represent, OnItsWay
<1>11. ASSUME NEW e \in Conns, Resume(e) PROVE OnItsWay(a, c)'
  <2>1. Due(a, c)
    BY <1>11 DEF Resume
  <2>2. cpc[c] \in {"attachCopy", "activeCopy"} => cpc'[c] = cpc[c]
    BY <1>11 DEF BrokerTypeOK, Resume
  <2>3. QED
    BY <1>11, <1>a, <2>1, <2>2 DEF Resume, OnItsWay, Queued
<1>12. ASSUME NEW e \in Conns, NEW active \in BOOLEAN, SetActive(e, active)
       PROVE  OnItsWay(a, c)'
  <2>1. CASE c = e
    <3>1. active
      BY <1>12, <2>1 DEF BrokerTypeOK, SetActive
    <3>2. QED
      BY <1>12, <2>1, <3>1 DEF BrokerTypeOK, SetActive, OnItsWay
  <2>2. CASE c # e
    <3>1. Due(a, c) /\ cpc'[c] = cpc[c]
      BY <1>12, <2>2 DEF BrokerTypeOK, SetActive
    <3>2. QED
      BY <1>12, <1>a, <3>1 DEF SetActive, OnItsWay, Queued
  <2>3. QED
    BY <2>1, <2>2
<1>13. ASSUME NEW e \in Conns, NEW b \in Asks, NEW o \in Answers, Resolve(e, b, o)
       PROVE  OnItsWay(a, c)'
  <2>1. Due(a, c)
    BY <1>13 DEF Resolve
  <2>2. a \in shown[DeviceOf[c]] \cup dropped[DeviceOf[c]]
        => a \in shown'[DeviceOf[c]] \cup dropped'[DeviceOf[c]]
    BY <1>0, <1>13 DEF BrokerTypeOK, Resolve
  <2>3. QED
    BY <1>13, <1>a, <2>1, <2>2 DEF Resolve, OnItsWay, Queued
<1>14. ASSUME NEW d \in Devices, NEW b \in Asks, AnswerLost(d, b) PROVE OnItsWay(a, c)'
  <2>1. Due(a, c)
    BY <1>14 DEF AnswerLost
  <2>2. a \in shown[DeviceOf[c]] \cup dropped[DeviceOf[c]]
        => a \in shown'[DeviceOf[c]] \cup dropped'[DeviceOf[c]]
    BY <1>0, <1>14 DEF BrokerTypeOK, AnswerLost
  <2>3. QED
    BY <1>14, <1>a, <2>1, <2>2 DEF AnswerLost, OnItsWay, Queued
<1>15. ASSUME NEW e \in Conns, Teardown(e) PROVE OnItsWay(a, c)'
  <2>1. c # e /\ Due(a, c) /\ cpc'[c] = cpc[c]
    BY <1>15 DEF BrokerTypeOK, Teardown
  <2>2. QED
    BY <1>15, <1>a, <2>1 DEF Teardown, OnItsWay, Queued
<1>16. ASSUME NEW e \in Conns, Broadcast(e) PROVE OnItsWay(a, c)'
  <2>1. Due(a, c) /\ Enqueue(e, Event) /\ Event \in Messages
    BY <1>16 DEF Broadcast, Messages
  <2>2. QED
    BY <1>16, <1>b, <2>1 DEF Broadcast
<1>17. ASSUME NEW e \in Conns, Stall(e) \/ Cut(e) \/ Heartbeat(e) PROVE OnItsWay(a, c)'
  <2>1. Due(a, c)
    BY <1>17 DEF BrokerTypeOK, Stall, Cut, Heartbeat
  <2>2. QED
    BY <1>17, <1>b, <2>1 DEF Stall, Cut, Heartbeat
<1>18. ASSUME NEW e \in Conns, WriteOut(e) PROVE OnItsWay(a, c)'
  <2>1. Due(a, c) /\ UNCHANGED <<dropped, cpc, reshow, at, todo>>
    BY <1>18 DEF WriteOut
  <2>2. queue[e] \in Seq(Messages) /\ queue[e] # <<>>
    BY <1>18 DEF BrokerTypeOK, WriteOut
  <2>3. Head(queue[e]) = queue[e][1] /\ 1 \in 1..Len(queue[e]) /\ Head(queue[e]) \in Messages
    BY <2>2
  <2>4. a \in shown[DeviceOf[c]] => a \in shown'[DeviceOf[c]]
    <3>1. CASE link[e] = "up"
      <4> DEFINE m == Head(queue[e])
      <4>1. Reduce(DeviceOf[e], m)
        BY <1>18, <3>1 DEF WriteOut
      <4>2. m.type = "resolved" => m.ask # a
        BY <2>1, <2>3 DEF ClearedLate
      <4> HIDE DEF m
      <4>3. QED
        BY <1>0, <4>1, <4>2 DEF Reduce, BrokerTypeOK
    <3>2. CASE link[e] # "up"
      BY <1>18, <3>2 DEF WriteOut
    <3>3. QED
      BY <3>1, <3>2
  <2>5. Queued(c, a) => Queued(c, a)' \/ a \in shown'[DeviceOf[c]]
    <3>1. CASE c # e
      BY <1>18, <3>1, BrokerWriteEffect DEF Queued
    <3>2. CASE c = e
      <4>1. SUFFICES ASSUME NEW i \in 1..Len(queue[c]), queue[c][i] = Request(a)
                     PROVE  Queued(c, a)' \/ a \in shown'[DeviceOf[c]]
        BY DEF Queued
      <4>2. CASE i = 1
        <5>1. Head(queue[e]) = Request(a) /\ link[e] = "up"
          BY <2>1, <2>3, <3>2, <4>1, <4>2
        <5>2. Reduce(DeviceOf[c], Request(a))
          BY <1>18, <3>2, <5>1 DEF WriteOut
        <5>3. QED
          BY <1>0, <5>2 DEF Reduce, Request, BrokerTypeOK
      <4>3. CASE i # 1
        <5>1. i - 1 \in 1..Len(queue'[c]) /\ queue'[c][i - 1] = queue[c][i]
          BY <1>18, <3>2, <4>3, BrokerWriteEffect
        <5>2. queue'[c][i - 1] = Request(a)
          BY <4>1, <5>1
        <5>3. QED
          BY <5>1, <5>2 DEF Queued, Request
      <4>4. QED
        BY <4>2, <4>3
    <3>3. QED
      BY <3>1, <3>2
  <2>6. QED
    BY <1>a, <2>1, <2>4, <2>5 DEF OnItsWay
<1>19. QED
  BY <1>1, <1>2, <1>3, <1>4, <1>5, <1>6, <1>7, <1>8, <1>9, <1>10, <1>11, <1>12, <1>13,
     <1>14, <1>15, <1>16, <1>17, <1>18 DEF BrokerNext, AskStep, ConnStep

-----------------------------------------------------------------------------
(* The invariant and what follows from it *)

THEOREM InductiveInvariant == BrokerSpec => []Inductive
<1>1. BrokerInit => Inductive
  <2>1. SUFFICES ASSUME BrokerInit PROVE Inductive
    OBVIOUS
  <2>2. AskFlow
    BY <2>1 DEF BrokerInit, AskFlow, FlowOf
  <2>3. ClearedLate
    BY <2>1 DEF BrokerInit, ClearedLate
  <2>4. CopiesHeld /\ ActiveCovered /\ AnswersGiven
    BY <2>1 DEF BrokerInit, CopiesHeld, ActiveCovered, AnswersGiven
  <2>5. ApprovedByPerson
    BY <2>1, BrokerAssumption DEF BrokerInit, ApprovedByPerson
  <2>6. QED
    BY <2>2, <2>3, <2>4, <2>5 DEF Inductive
<1>2. BrokerTypeOK /\ Inductive /\ [BrokerNext]_hitlVars => Inductive'
  <2>1. SUFFICES ASSUME BrokerTypeOK, Inductive, [BrokerNext]_hitlVars PROVE Inductive'
    OBVIOUS
  <2>2. CASE BrokerNext
    BY <2>1, <2>2, FlowStep, ClearedStep, CopiesStep, CoveredStep, AnswersStep DEF Inductive
  <2>3. CASE UNCHANGED hitlVars
    <3> USE <2>1, <2>3 DEF hitlVars, askVars, brokerVars, connVars, wireVars, deviceVars
    <3>1. AskFlow' /\ ClearedLate' /\ CopiesHeld'
      BY DEF Inductive, AskFlow, FlowOf, ClearedLate, CopiesHeld
    <3>2. ActiveCovered'
      BY DEF Inductive, ActiveCovered, OnItsWay, Queued
    <3>3. AnswersGiven' /\ ApprovedByPerson'
      BY DEF Inductive, AnswersGiven, ApprovedByPerson
    <3>4. QED
      BY <3>1, <3>2, <3>3 DEF Inductive
  <2>4. QED
    BY <2>1, <2>2, <2>3
<1>3. QED
  BY <1>1, <1>2, BrokerTypeCorrect, PTL DEF BrokerSpec

\* Whatever the order in which Ask registers and looks for active connections
\* and connections attach, change presence and copy the open approvals, no
\* active connection of a waiting Ask is left without the prompt.
THEOREM ActiveConnectionsSeeOpenApprovals == BrokerSpec => []ActiveSeesOpen
<1>1. Inductive => ActiveSeesOpen
  <2>1. SUFFICES ASSUME Inductive, NEW a \in Asks, NEW c \in Conns,
                        pc[a] = "wait", a \notin cancelled,
                        sink[c] = "active", cpc[c] = "read", link[c] = "up"
                 PROVE  a \in shown[DeviceOf[c]] \/ a \in dropped[DeviceOf[c]] \/ Queued(c, a)
    BY DEF ActiveSeesOpen
  <2>2. at[a] = NoConn /\ todo[a] = {} /\ reshow[c] = {}
    BY <2>1 DEF Inductive, AskFlow, FlowOf, CopiesHeld
  <2>3. c # at[a]
    BY <2>2, BrokerAssumption
  <2>4. QED
    BY <2>1, <2>2, <2>3 DEF Inductive, ActiveCovered, OnItsWay
<1>2. QED
  BY <1>1, InductiveInvariant, PTL

\* No verdict approves unless a person answered on a device that was shown the
\* approval: every other way for an Ask to end is a refusal.
THEOREM NothingApprovesByDefault == BrokerSpec => []ApprovedByPerson
<1>1. Inductive => ApprovedByPerson
  BY DEF Inductive
<1>2. QED
  BY <1>1, InductiveInvariant, PTL

-----------------------------------------------------------------------------
(* Refinement *)

\* The broker implements the contract of gate.Approver.
THEOREM BrokerImplementsApprover == BrokerSpec => ImplementsApprover
<1> DEFINE asked == {a \in Asks : pc[a] # "idle"}
<1> DEFINE answer == [a \in Asks |-> IF verdict[a] = "none" THEN ch[a] ELSE "none"]
<1>1. BrokerInit => Approvals!Init
  BY DEF BrokerInit, Approvals!Init
<1>2. ASSUME BrokerTypeOK, AskFlow, BrokerNext
      PROVE  Approvals!Next \/ (asked' = asked /\ answer' = answer /\ verdict' = verdict)
  <2> USE DEF askVars, brokerVars, connVars, wireVars, deviceVars
  <2>1. ASSUME NEW a \in Asks, Register(a) PROVE Approvals!Open(a)
    <3>1. asked' = asked \cup {a} /\ a \notin asked
      BY <1>2, <2>1 DEF BrokerTypeOK, Register
    <3>2. answer' = answer /\ verdict' = verdict
      BY <2>1 DEF Register
    <3>3. QED
      BY <3>1, <3>2 DEF Approvals!Open
  <2>2. ASSUME NEW a \in Asks, TakeAnswer(a) \/ TimeOut(a) \/ Abandon(a)
        PROVE  Approvals!Settle(a)
    <3>1. a \in asked /\ verdict[a] = "none" /\ asked' = asked
      BY <1>2, <2>2 DEF BrokerTypeOK, TakeAnswer, TimeOut, Abandon, AskFlow, FlowOf
    <3>2. answer' = [answer EXCEPT ![a] = "none"]
      <4>1. verdict'[a] # "none"
        BY <2>2, <1>2, BrokerAssumption DEF BrokerTypeOK, TakeAnswer, TimeOut, Abandon, Pick
      <4>2. \A b \in Asks \ {a} : verdict'[b] = verdict[b] /\ ch'[b] = ch[b]
        BY <2>2, <1>2 DEF BrokerTypeOK, TakeAnswer, TimeOut, Abandon
      <4>3. QED
        BY <4>1, <4>2
    <3>3. answer[a] = ch[a]
      BY <3>1
    <3>4. Approvals!Pick(ch[a]) = Pick(ch[a])
      BY DEF Approvals!Pick, Pick
    <3>5. QED
      BY <2>2, <3>1, <3>2, <3>3, <3>4 DEF Approvals!Settle, TakeAnswer, TimeOut, Abandon
  <2>3. ASSUME NEW c \in Conns, NEW a \in Asks, NEW o \in Answers, Resolve(c, a, o)
        PROVE  Approvals!Answer(a, o) \/ (asked' = asked /\ answer' = answer /\ verdict' = verdict)
    <3>1. asked' = asked /\ verdict' = verdict
      BY <2>3 DEF Resolve
    <3>2. CASE a \in pending /\ ch[a] = "none" /\ verdict[a] = "none"
      <4>1. a \in asked /\ answer[a] = "none"
        BY <1>2, <3>2 DEF AskFlow, FlowOf
      <4>2. answer' = [answer EXCEPT ![a] = o]
        BY <1>2, <2>3, <3>1, <3>2 DEF BrokerTypeOK, Resolve
      <4>3. QED
        BY <3>1, <3>2, <4>1, <4>2 DEF Approvals!Answer
    <3>3. CASE ~(a \in pending /\ ch[a] = "none" /\ verdict[a] = "none")
      <4>1. \A b \in Asks : verdict[b] = "none" => ch'[b] = ch[b]
        BY <1>2, <2>3, <3>3 DEF BrokerTypeOK, Resolve
      <4>2. answer' = answer
        BY <3>1, <4>1
      <4>3. QED
        BY <3>1, <4>2
    <3>4. QED
      BY <3>2, <3>3
  <2>4. ASSUME UNCHANGED <<ch, verdict>>, \A b \in Asks : (pc'[b] = "idle") <=> (pc[b] = "idle")
        PROVE  asked' = asked /\ answer' = answer /\ verdict' = verdict
    BY <2>4
  <2>5. ASSUME NEW a \in Asks,
               Route(a) \/ Present(a) \/ Conclude(a) \/ Clear(a)
        PROVE  asked' = asked /\ answer' = answer /\ verdict' = verdict
    <3>1. pc[a] # "idle" /\ UNCHANGED <<ch, verdict>>
      BY <2>5 DEF Route, Present, Conclude, Clear
    <3>2. /\ \A b \in Asks \ {a} : pc'[b] = pc[b]
          /\ pc'[a] # "idle"
      <4>1. CASE Route(a)
        BY <4>1, <1>2, SendNextEffect DEF Route, Active, AskStates
      <4>2. CASE Conclude(a)
        BY <4>2, <1>2, SendNextEffect DEF Conclude, Attached, AskStates
      <4>3. CASE Present(a)
        <5>1. todo[a] \in SUBSET Conns /\ SendNext(a, todo[a], "present", "wait")
          BY <4>3, <1>2 DEF Present, BrokerTypeOK
        <5>2. QED
          BY <5>1, <1>2, SendNextEffect DEF AskStates
      <4>4. CASE Clear(a)
        <5>1. todo[a] \in SUBSET Conns /\ SendNext(a, todo[a], "clear", "done")
          BY <4>4, <1>2 DEF Clear, BrokerTypeOK
        <5>2. QED
          BY <5>1, <1>2, SendNextEffect DEF AskStates
      <4>5. QED
        BY <2>5, <4>1, <4>2, <4>3, <4>4
    <3>3. QED
      BY <2>4, <3>1, <3>2
  <2>6. ASSUME UNCHANGED <<pc, ch, verdict>>
        PROVE  asked' = asked /\ answer' = answer /\ verdict' = verdict
    BY <2>6, <2>4
  <2>7. CASE \E a \in Asks : AskStep(a)
    BY <2>1, <2>2, <2>5, <2>6, <2>7 DEF AskStep, Cancel, Approvals!Next
  <2>8. CASE \E c \in Conns : ConnStep(c)
    <3>1. CASE \E c \in Conns, a \in Asks, o \in Answers : Resolve(c, a, o)
      BY <2>3, <3>1 DEF Approvals!Next, Answers, Approvals!Answers
    <3>2. QED
      BY <2>6, <2>8, <3>1 DEF ConnStep, Attach, CopyPending, Resume, Teardown, WriteOut,
         Broadcast, Stall, Cut, Heartbeat, Represent, SetActive
  <2>9. CASE \E d \in Devices, a \in Asks : AnswerLost(d, a)
    BY <2>6, <2>9 DEF AnswerLost
  <2>10. QED
    BY <1>2, <2>7, <2>8, <2>9 DEF BrokerNext
<1>3. BrokerTypeOK /\ AskFlow /\ [BrokerNext]_hitlVars => [Approvals!Next]_(Approvals!approverVars)
  <2>1. SUFFICES ASSUME BrokerTypeOK, AskFlow, [BrokerNext]_hitlVars
                 PROVE  Approvals!Next \/ UNCHANGED Approvals!approverVars
    OBVIOUS
  <2>2. CASE BrokerNext
    BY <1>2, <2>1, <2>2 DEF Approvals!approverVars
  <2>3. CASE UNCHANGED hitlVars
    BY <2>3 DEF hitlVars, askVars, brokerVars, Approvals!approverVars
  <2>4. QED
    BY <2>1, <2>2, <2>3
<1>4. Inductive => AskFlow
  BY DEF Inductive
<1>5. QED
  BY <1>1, <1>3, <1>4, BrokerTypeCorrect, InductiveInvariant, PTL
     DEF BrokerSpec, ImplementsApprover, Approvals!Spec
=============================================================================
