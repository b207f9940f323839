-------------------------- MODULE ChatManager_proofs --------------------------
(***************************************************************************)
(* Proofs about ChatManager, for any messages, sessions and capacities; the *)
(* last, of MCChat's specification, about a chat that nothing closes.       *)
(***************************************************************************)
EXTENDS MCChat, TLAPS

USE DEF disk, Fails

-----------------------------------------------------------------------------
(* Types.                                                                   *)

LEMMA OnFileType == ASSUME TypeOK PROVE OnFile \in Record
BY DEF TypeOK, OnFile, NewRecord, Record

LEMMA SaveType ==
  ASSUME TypeOK, NEW t \in Seq(Inputs), Save(t)
  PROVE  /\ file' \in Record \cup {None} /\ unsaved' \subseteq Inputs
         /\ \/ file' \in Record /\ file'.turns = t /\ file'.tools = OnFile.tools /\ unsaved' = unsaved \ Range(t)
            \/ UNCHANGED file /\ unsaved' = unsaved \cup (Range(t) \ Range(Turns))
<1>1. Range(t) \subseteq Inputs
  BY DEF Range
<1>2. unsaved' \subseteq Inputs
  BY <1>1 DEF Save, TypeOK
<1>3. CASE file' = [OnFile EXCEPT !.turns = t] /\ unsaved' = unsaved \ Range(t)
  BY <1>2, <1>3, OnFileType DEF Record
<1>4. CASE UNCHANGED file /\ unsaved' = unsaved \cup (Range(t) \ Range(Turns))
  BY <1>2, <1>4 DEF TypeOK
<1> QED
  BY <1>3, <1>4 DEF Save

LEMMA AppendToolsType ==
  ASSUME TypeOK, NEW g \in Inputs \cup {None}, AppendTools(g)
  PROVE  /\ file' \in Record \cup {None} /\ groupless' \subseteq Inputs
         /\ \/ /\ file # None /\ file' # None /\ UNCHANGED groupless
               /\ file'.turns = file.turns /\ file'.tools = Append(file.tools, g)
            \/ UNCHANGED file /\ groupless' = groupless \cup ({g} \ {None})
<1>1. CASE file # None /\ file' = [file EXCEPT !.tools = Append(@, g)] /\ UNCHANGED groupless
  <2>1. file \in Record
    BY <1>1 DEF TypeOK
  <2>2. Append(file.tools, g) \in Seq(Inputs \cup {None})
    BY <2>1 DEF Record
  <2>3. file' \in Record /\ file'.turns = file.turns /\ file'.tools = Append(file.tools, g)
    BY <1>1, <2>1, <2>2 DEF Record
  <2> QED
    BY <1>1, <2>3, ChatAssumption DEF TypeOK
<1>2. CASE UNCHANGED file /\ groupless' = groupless \cup ({g} \ {None})
  BY <1>2 DEF TypeOK
<1> QED
  BY <1>1, <1>2 DEF AppendTools

\* A running turn is named by a message.
LEMMA TurnType ==
  ASSUME TypeOK, NEW s \in Sessions, turn[s].at # "idle"
  PROVE  turn[s] \in [at : {"start", "run", "save", "end"}, of : Inputs]
BY DEF TypeOK, NoTurn

LEMMA EmitType ==
  ASSUME TypeOK, NEW s \in Sessions, NEW kind \in {"start", "end"},
         turn[s].at # "idle", Emit(s, kind)
  PROVE  /\ stream' \in [Sessions -> Seq(Events)]
         /\ \A r \in Sessions : Len(stream'[r]) <= OutCap
<1>1. <<kind, turn[s].of>> \in Events
  BY TurnType DEF Events
<1>2. CASE Len(stream[s]) < OutCap /\ stream' = [stream EXCEPT ![s] = Append(@, <<kind, turn[s].of>>)]
  <2>1. /\ stream[s] \in Seq(Events)
        /\ Len(stream[s]) \in Nat
    BY DEF TypeOK
  <2>2. /\ Append(stream[s], <<kind, turn[s].of>>) \in Seq(Events)
        /\ Len(Append(stream[s], <<kind, turn[s].of>>)) = Len(stream[s]) + 1
    BY <1>1, <2>1
  <2> QED
    BY <1>2, <2>1, <2>2, ChatAssumption DEF TypeOK
<1>3. CASE UNCHANGED stream
  BY <1>3 DEF TypeOK
<1> QED
  BY <1>2, <1>3 DEF Emit

LEMMA TypeStep == ASSUME TypeOK, [Next]_vars PROVE TypeOK'
<1>1. ASSUME NEW x \in Inputs, NEW s \in Sessions, Submit(x, s)
      PROVE  TypeOK'
  <2>1. Turns \in Seq(Inputs) /\ <<>> \in Seq(Inputs)
    BY DEF TypeOK, Turns, Record
  <2>a. UNCHANGED history \/ \E known \in {Turns, <<>>} : history' = [history EXCEPT ![s] = known]
    BY <1>1, Zenon DEF Submit, OpenLocked, OpenFresh
  <2>b. history' \in [Sessions -> Seq(Inputs)]
    <3>1. history \in [Sessions -> Seq(Inputs)]
      BY DEF TypeOK
    <3>2. ASSUME NEW known \in Seq(Inputs), history' = [history EXCEPT ![s] = known]
          PROVE  history' \in [Sessions -> Seq(Inputs)]
      BY <3>1, <3>2
    <3> QED
      BY <2>1, <2>a, <3>1, <3>2
  <2>2. /\ active' \in Sessions \cup {None}
        /\ life' \in [Sessions -> {"unborn", "live", "ended"}]
        /\ history' \in [Sessions -> Seq(Inputs)]
        /\ pump' \in [Sessions -> {"none", "drain", "flush", "exited"}]
    <3>1. \/ UNCHANGED <<active, life, pump>>
          \/ /\ active' = s
             /\ life' = [life EXCEPT ![s] = "live"]
             /\ pump' = [pump EXCEPT ![s] = "drain"]
      BY <1>1 DEF Submit, OpenLocked, OpenFresh
    <3> QED
      BY <2>b, <3>1 DEF TypeOK
  <2>3. /\ proc' \in [Inputs -> {"new", "touch", "send", "queued", "lost", "refused"}]
        /\ input' \in [Sessions -> Inputs \cup {None}]
        /\ to' \in [Inputs -> Sessions \cup {None}]
    BY <1>1 DEF TypeOK, Submit
  <2> QED
    BY <1>1, <2>2, <2>3 DEF TypeOK, Submit
<1>2. ASSUME NEW x \in Inputs, Refused(x) PROVE TypeOK'
  BY <1>2 DEF TypeOK, Refused, mgr, sess
<1>3. ASSUME NEW x \in Inputs, Touch(x) PROVE TypeOK'
  BY <1>3, OnFileType DEF TypeOK, Touch, mgr, sess
<1>4. ASSUME NEW x \in Inputs, Send(x) PROVE TypeOK'
  <2>1. /\ queue' \in [Sessions -> Seq(Inputs)]
        /\ \A r \in Sessions : Len(queue'[r]) <= InCap
    <3>1. CASE UNCHANGED queue
      BY <3>1 DEF TypeOK
    <3>2. CASE /\ Len(queue[to[x]]) < InCap
               /\ queue' = [queue EXCEPT ![to[x]] = Append(@, x)]
      <4>1. \A r \in Sessions : /\ queue[r] \in Seq(Inputs)
                                /\ Append(queue[r], x) \in Seq(Inputs)
                                /\ Len(Append(queue[r], x)) = Len(queue[r]) + 1
                                /\ Len(queue[r]) \in Nat
        BY DEF TypeOK
      <4>2. ASSUME NEW r \in Sessions
            PROVE  queue'[r] \in Seq(Inputs) /\ Len(queue'[r]) <= InCap
        <5>1. CASE r = to[x]
          BY <3>2, <4>1, <5>1, ChatAssumption DEF TypeOK
        <5>2. CASE r # to[x]
          BY <3>2, <4>1, <5>2 DEF TypeOK
        <5> QED
          BY <5>1, <5>2
      <4>3. queue' = [r \in Sessions |-> queue'[r]]
        BY <3>2 DEF TypeOK
      <4> QED
        BY <4>2, <4>3
    <3>3. \/ UNCHANGED queue
          \/ /\ Len(queue[to[x]]) < InCap
             /\ queue' = [queue EXCEPT ![to[x]] = Append(@, x)]
      BY <1>4 DEF Send
    <3> QED
      BY <3>1, <3>2, <3>3
  <2>2. proc' \in [Inputs -> {"new", "touch", "send", "queued", "lost", "refused"}]
    <3>1. \E end \in {"queued", "lost"} : proc' = [proc EXCEPT ![x] = end]
      BY <1>4 DEF Send
    <3> QED
      BY <3>1 DEF TypeOK
  <2> QED
    BY <1>4, <2>1, <2>2 DEF TypeOK, Send, mgr
<1>5. ASSUME NEW s \in Sessions, Take(s) PROVE TypeOK'
  <2>1. /\ Head(queue[s]) \in Inputs
        /\ Tail(queue[s]) \in Seq(Inputs)
        /\ Len(Tail(queue[s])) = Len(queue[s]) - 1
        /\ Len(queue[s]) \in Nat
    BY <1>5 DEF TypeOK, Take
  <2>2. /\ queue' \in [Sessions -> Seq(Inputs)]
        /\ \A r \in Sessions : Len(queue'[r]) <= InCap
    BY <1>5, <2>1, ChatAssumption DEF TypeOK, Take
  <2>3. turn' \in [Sessions -> {NoTurn} \cup [at : {"start", "run", "save", "end"}, of : Inputs]]
    BY <1>5, <2>1 DEF TypeOK, Take
  <2> QED
    BY <1>5, <2>2, <2>3 DEF TypeOK, Take, mgr, rest
<1>6. ASSUME NEW s \in Sessions, Leave(s) PROVE TypeOK'
  BY <1>6 DEF TypeOK, Leave, mgr, rest
<1>7. ASSUME NEW s \in Sessions, EmitStart(s) PROVE TypeOK'
  <2>1. [turn[s] EXCEPT !.at = "run"] \in [at : {"start", "run", "save", "end"}, of : Inputs]
    BY <1>7, TurnType DEF EmitStart
  <2>2. turn' \in [Sessions -> {NoTurn} \cup [at : {"start", "run", "save", "end"}, of : Inputs]]
    BY <1>7, <2>1 DEF TypeOK, EmitStart
  <2>3. /\ stream' \in [Sessions -> Seq(Events)]
        /\ \A r \in Sessions : Len(stream'[r]) <= OutCap
    BY <1>7, EmitType DEF EmitStart
  <2> QED
    BY <1>7, <2>2, <2>3 DEF TypeOK, EmitStart, mgr, rest
<1>8. ASSUME NEW s \in Sessions, Finish(s) PROVE TypeOK'
  <2>1. /\ [turn[s] EXCEPT !.at = "save"] \in [at : {"start", "run", "save", "end"}, of : Inputs]
        /\ turn[s].of \in Inputs
    BY <1>8, TurnType DEF Finish
  <2>2. Append(history[s], turn[s].of) \in Seq(Inputs)
    BY <2>1 DEF TypeOK
  <2> QED
    BY <1>8, <2>1, <2>2 DEF TypeOK, Finish, mgr, rest
<1>9. ASSUME NEW s \in Sessions, Persist(s) PROVE TypeOK'
  <2>1. [turn[s] EXCEPT !.at = "end"] \in [at : {"start", "run", "save", "end"}, of : Inputs]
    BY <1>9, TurnType DEF Persist
  <2>2. file' \in Record \cup {None} /\ unsaved' \subseteq Inputs
    BY <1>9, SaveType DEF TypeOK, Persist
  <2> QED
    BY <1>9, <2>1, <2>2 DEF TypeOK, Persist, mgr
<1>10. ASSUME NEW s \in Sessions, EmitEnd(s) PROVE TypeOK'
  <2>1. /\ stream' \in [Sessions -> Seq(Events)]
        /\ \A r \in Sessions : Len(stream'[r]) <= OutCap
    BY <1>10, EmitType DEF EmitEnd
  <2> QED
    BY <1>10, <2>1 DEF TypeOK, EmitEnd, mgr, rest
<1>11. ASSUME NEW s \in Sessions, Observe(s) PROVE TypeOK'
  <2>1. /\ Head(stream[s]) \in Events
        /\ Tail(stream[s]) \in Seq(Events)
        /\ Len(Tail(stream[s])) = Len(stream[s]) - 1
        /\ Len(stream[s]) \in Nat
    BY <1>11 DEF TypeOK, Observe
  <2>2. /\ stream' \in [Sessions -> Seq(Events)]
        /\ \A r \in Sessions : Len(stream'[r]) <= OutCap
    BY <1>11, <2>1, ChatAssumption DEF TypeOK, Observe
  <2>3. Head(stream[s])[2] \in Inputs
    BY <2>1 DEF Events
  <2>4. /\ running' \subseteq Sessions /\ aged' \subseteq Sessions
        /\ input' \in [Sessions -> Inputs \cup {None}]
        /\ forest' \in [Sessions -> Inputs \cup {None}]
        /\ group' \in [Sessions -> Inputs \cup {None}]
        /\ pump' \in [Sessions -> {"none", "drain", "flush", "exited"}]
    <3>1. CASE Head(stream[s])[1] = "start"
      BY <1>11, <2>3, <3>1 DEF TypeOK, Observe
    <3>2. CASE Head(stream[s])[1] = "end"
      <4>1. /\ running' = running \ {s} /\ aged' = aged \ {s}
            /\ input' = [input EXCEPT ![s] = None]
            /\ forest' = [forest EXCEPT ![s] = None]
            /\ group' = [group EXCEPT ![s] = forest[s]]
            /\ pump' = [pump EXCEPT ![s] = "flush"]
        BY <1>11, <3>2 DEF Observe
      <4>2. forest[s] \in Inputs \cup {None}
        BY DEF TypeOK
      <4> QED
        BY <4>1, <4>2 DEF TypeOK
    <3> QED
      BY <1>11, <3>1, <3>2 DEF Observe
  <2> QED
    BY <1>11, <2>2, <2>4 DEF TypeOK, Observe
<1>12. ASSUME NEW s \in Sessions, Flush(s) PROVE TypeOK'
  <2>1. file' \in Record \cup {None} /\ groupless' \subseteq Inputs
    BY <1>12, AppendToolsType DEF TypeOK, Flush
  <2> QED
    BY <1>12, <2>1 DEF TypeOK, Flush, mgr, sess
<1>13. ASSUME NEW s \in Sessions, Exit(s) PROVE TypeOK'
  BY <1>13 DEF TypeOK, Exit, mgr, sess
<1>14. ASSUME NEW s \in Sessions, Age(s) \/ Reap(s) \/ Close(s) PROVE TypeOK'
  BY <1>14 DEF TypeOK, Age, Reap, Close, sess, rest
<1>15. ASSUME DeleteTake \/ CloseAll \/ CloseAllReturns PROVE TypeOK'
  BY <1>15 DEF TypeOK, DeleteTake, CloseAll, CloseAllReturns, sess, rest
<1>16. ASSUME DeleteFile PROVE TypeOK'
  BY <1>16 DEF TypeOK, DeleteFile, sess
<1>17. CASE UNCHANGED vars
  BY <1>17 DEF TypeOK, vars, mgr, sess, rest
<1> QED
  BY <1>1, <1>2, <1>3, <1>4, <1>5, <1>6, <1>7, <1>8, <1>9, <1>10, <1>11, <1>12, <1>13,
     <1>14, <1>15, <1>16, <1>17 DEF Next, Loop, Pump

LEMMA TypeInit == Init => TypeOK
BY ChatAssumption DEF Init, TypeOK, NoTurn

\* The types of the chat's state hold in every behaviour.
THEOREM TypeCorrect == Spec => []TypeOK
BY TypeInit, TypeStep, PTL DEF Spec
-----------------------------------------------------------------------------
(* The shutdown.  What makes it final: openLocked fails closed, so that the  *)
(* map stays empty; every session ever opened has a pump that exits only     *)
(* after its loop has ended; and CloseAll waits for all of them.             *)

ShutdownInv ==
  /\ TypeOK
  /\ shut # "open" => active = None
  /\ \A s \in Sessions : /\ life[s] = "unborn" <=> pump[s] = "none"
                         /\ pump[s] = "exited" => life[s] = "ended"
                         /\ turn[s].at # "idle" => life[s] = "live"
  /\ shut = "closed" => \A s \in Sessions : pump[s] \in {"none", "exited"}

LEMMA ShutdownStep == ASSUME ShutdownInv, [Next]_vars PROVE ShutdownInv'
<1>0. TypeOK'
  BY TypeStep DEF ShutdownInv
<1>1. ASSUME NEW x \in Inputs, NEW s \in Sessions, Submit(x, s)
      PROVE  ShutdownInv'
  <2>1. CASE active = s /\ UNCHANGED <<active, life, history, pump>>
    BY <1>0, <1>1, <2>1 DEF ShutdownInv, Submit
  <2>2. CASE active = None /\ shut = "open" /\ OpenFresh(s)
    <3>1. turn[s].at = "idle"
      BY <2>2 DEF ShutdownInv, OpenFresh
    <3> QED
      BY <1>0, <1>1, <2>2, <3>1 DEF ShutdownInv, TypeOK, Submit, OpenFresh
  <2> QED
    BY <1>1, <2>1, <2>2 DEF Submit, OpenLocked
<1>2. ASSUME NEW x \in Inputs, Refused(x) \/ Touch(x) \/ Send(x) PROVE ShutdownInv'
  BY <1>0, <1>2 DEF ShutdownInv, Refused, Touch, Send, mgr, sess
<1>3. ASSUME NEW s \in Sessions, Take(s) PROVE ShutdownInv'
  BY <1>0, <1>3 DEF ShutdownInv, TypeOK, Take, mgr, rest
<1>4. ASSUME NEW s \in Sessions, Leave(s) PROVE ShutdownInv'
  BY <1>0, <1>4 DEF ShutdownInv, TypeOK, Leave, mgr, rest
<1>5. ASSUME NEW s \in Sessions, EmitStart(s) PROVE ShutdownInv'
  BY <1>0, <1>5 DEF ShutdownInv, TypeOK, EmitStart, mgr, rest
<1>6. ASSUME NEW s \in Sessions, Finish(s) PROVE ShutdownInv'
  BY <1>0, <1>6 DEF ShutdownInv, TypeOK, Finish, mgr, rest
<1>7. ASSUME NEW s \in Sessions, Persist(s) PROVE ShutdownInv'
  BY <1>0, <1>7 DEF ShutdownInv, TypeOK, Persist, mgr
<1>8. ASSUME NEW s \in Sessions, EmitEnd(s) PROVE ShutdownInv'
  BY <1>0, <1>8 DEF ShutdownInv, TypeOK, EmitEnd, NoTurn, mgr, rest
<1>9. ASSUME NEW s \in Sessions, Observe(s) PROVE ShutdownInv'
  <2>1. pump[s] = "drain" /\ pump' \in {pump, [pump EXCEPT ![s] = "flush"]}
    BY <1>9 DEF Observe
  <2>2. UNCHANGED <<active, shut, life, turn>>
    BY <1>9 DEF Observe
  <2>3. \A r \in Sessions : pump'[r] # pump[r] => pump[r] = "drain" /\ pump'[r] = "flush"
    BY <2>1 DEF ShutdownInv, TypeOK
  <2>4. shut # "closed"
    BY <2>1 DEF ShutdownInv
  <2> QED
    BY <1>0, <2>2, <2>3, <2>4 DEF ShutdownInv
<1>10. ASSUME NEW s \in Sessions, Flush(s) PROVE ShutdownInv'
  BY <1>0, <1>10 DEF ShutdownInv, TypeOK, Flush, mgr, sess
<1>11. ASSUME NEW s \in Sessions, Exit(s) PROVE ShutdownInv'
  <2>1. UNCHANGED <<active, shut, life, turn>> /\ pump[s] = "drain" /\ life[s] = "ended"
    BY <1>11 DEF Exit, mgr, sess
  <2>2. \A r \in Sessions : pump'[r] = IF r = s THEN "exited" ELSE pump[r]
    BY <1>11 DEF Exit, ShutdownInv, TypeOK
  <2> QED
    BY <1>0, <2>1, <2>2 DEF ShutdownInv
<1>12. ASSUME NEW s \in Sessions, Age(s) \/ Reap(s) \/ Close(s) PROVE ShutdownInv'
  BY <1>0, <1>12 DEF ShutdownInv, Age, Reap, Close, sess, rest
<1>13. ASSUME DeleteTake \/ DeleteFile \/ CloseAll \/ CloseAllReturns PROVE ShutdownInv'
  BY <1>0, <1>13 DEF ShutdownInv, DeleteTake, DeleteFile, CloseAll, CloseAllReturns, sess, rest
<1>14. CASE UNCHANGED vars
  BY <1>0, <1>14 DEF ShutdownInv, vars, mgr, sess, rest
<1> QED
  BY <1>1, <1>2, <1>3, <1>4, <1>5, <1>6, <1>7, <1>8, <1>9, <1>10, <1>11, <1>12, <1>13,
     <1>14 DEF Next, Loop, Pump

LEMMA ShutdownInit == Init => ShutdownInv
BY TypeInit DEF Init, ShutdownInv, NoTurn

\* In every reachable state the conjuncts above hold.
THEOREM ShutdownInvariant == Spec => []ShutdownInv
BY ShutdownInit, ShutdownStep, PTL DEF Spec

\* No loop and no pump of the chat outlives the return of CloseAll, whatever
\* the reaper, deletes and callers did meanwhile.
THEOREM ShutdownIsFinal == Spec => []NothingRunsAfterShutdown
<1>1. ShutdownInv => NothingRunsAfterShutdown
  <2> SUFFICES ASSUME ShutdownInv, shut = "closed", NEW s \in Sessions
               PROVE  life[s] # "live" /\ pump[s] \notin {"drain", "flush"}
    BY DEF NothingRunsAfterShutdown
  <2> QED
    BY DEF ShutdownInv
<1> QED
  BY <1>1, ShutdownInvariant, PTL

LEMMA PrefixOfItself == ASSUME NEW t \in Seq(Inputs) PROVE IsPrefix(t, t)
BY DEF IsPrefix

LEMMA EmptyPrefix == ASSUME NEW t \in Seq(Inputs) PROVE IsPrefix(<<>>, t)
BY DEF IsPrefix

\* Once CloseAll has returned no step adds a turn to the file.
THEOREM NoTurnAfterShutdown == Spec => TranscriptRestsAfterShutdown
<1>1. ASSUME ShutdownInv, [Next]_vars, shut = "closed"
      PROVE  IsPrefix(Turns', Turns)
  <2>0. Turns \in Seq(Inputs)
    BY <1>1 DEF ShutdownInv, TypeOK, Turns, Record
  <2>1. \A s \in Sessions : ~Loop(s) /\ ~Flush(s)
    BY <1>1 DEF ShutdownInv, TypeOK, Loop, Take, Leave, EmitStart, Finish, Persist, EmitEnd, Flush, NoTurn
  <2>2. ASSUME NEW x \in Inputs, Touch(x) PROVE Turns' = Turns
    BY <2>2 DEF Touch, OnFile, NewRecord, Turns
  <2>3. ASSUME DeleteFile PROVE Turns' \in {Turns, <<>>}
    BY <2>3 DEF DeleteFile, Turns
  <2>4. \/ UNCHANGED file
        \/ \E x \in Inputs : Touch(x)
        \/ DeleteFile
    BY <1>1, <2>1 DEF Next, Pump, Submit, Refused, Send, Observe, Exit, Age, Reap, Close,
       DeleteTake, CloseAll, CloseAllReturns, vars, mgr, sess, rest
  <2>5. CASE UNCHANGED file
    BY <2>0, <2>5, PrefixOfItself DEF Turns
  <2> QED
    BY <2>0, <2>2, <2>3, <2>4, <2>5, PrefixOfItself, EmptyPrefix
<1> QED
  BY <1>1, ShutdownInvariant, PTL DEF Spec, TranscriptRestsAfterShutdown
-----------------------------------------------------------------------------
(* A message is answered once.  A message is in one place: with its caller, *)
(* in the queue of one session or the turn of one, or in transcripts.  Many *)
(* transcripts may have it, since each session begins with the file's, but  *)
(* once one has it no queue and no turn has it any more, and a transcript   *)
(* that lacks it can only get it from a turn.                               *)

WaitsIn(x, s) == x \in Range(queue[s])
AskedIn(x, s) == turn[s].at \in {"start", "run"} /\ turn[s].of = x
Pending(x, s) == WaitsIn(x, s) \/ AskedIn(x, s)
Answered(x) == x \in Range(Turns) \/ \E s \in Sessions : x \in Range(history[s])

NoRepeats ==
  /\ IsInjective(Turns)
  /\ \A s \in Sessions : IsInjective(history[s]) /\ IsInjective(queue[s])
InOnePlace ==
  \A x \in Inputs :
    /\ Answered(x) => proc[x] = "queued"
    /\ \A s \in Sessions :
         /\ Pending(x, s) => proc[x] = "queued" /\ ~Answered(x)
         /\ ~(WaitsIn(x, s) /\ AskedIn(x, s))
         /\ \A r \in Sessions : Pending(x, s) /\ Pending(x, r) => s = r
OnceInv == TypeOK /\ NoRepeats /\ InOnePlace

LEMMA TurnsType == ASSUME TypeOK PROVE Turns \in Seq(Inputs)
BY DEF TypeOK, Turns, Record

LEMMA AppendRange ==
  ASSUME NEW S, NEW q \in Seq(S), NEW x \in S
  PROVE  Range(Append(q, x)) = Range(q) \cup {x}
<1> DEFINE n == Len(q)
<1>1. /\ n \in Nat /\ DOMAIN q = 1..n /\ DOMAIN Append(q, x) = 1..(n + 1)
      /\ \A i \in 1..n : Append(q, x)[i] = q[i]
      /\ Append(q, x)[n + 1] = x
  OBVIOUS
<1>2. 1..(n + 1) = (1..n) \cup {n + 1}
  BY <1>1
<1> QED
  BY <1>1, <1>2 DEF Range

\* What is appended to a sequence joins its members, at the end.
LEMMA AppendOnce ==
  ASSUME NEW q \in Seq(Inputs), NEW x \in Inputs
  PROVE  /\ Range(Append(q, x)) = Range(q) \cup {x}
         /\ IsInjective(q) /\ x \notin Range(q) => IsInjective(Append(q, x))
<1> DEFINE n == Len(q)
<1>1. /\ n \in Nat /\ DOMAIN q = 1..n
      /\ Append(q, x) \in Seq(Inputs) /\ DOMAIN Append(q, x) = 1..(n + 1)
      /\ \A i \in 1..n : Append(q, x)[i] = q[i]
      /\ Append(q, x)[n + 1] = x
  OBVIOUS
<1>2. 1..(n + 1) = (1..n) \cup {n + 1}
  BY <1>1
<1>3. Range(Append(q, x)) = Range(q) \cup {x}
  BY <1>1, <1>2 DEF Range
<1>4. ASSUME IsInjective(q), x \notin Range(q) PROVE IsInjective(Append(q, x))
  BY <1>1, <1>2, <1>4 DEF Range, IsInjective
<1> QED
  BY <1>3, <1>4

\* The head leaves a sequence without repetitions.
LEMMA TailOnce ==
  ASSUME NEW q \in Seq(Inputs), q # <<>>, IsInjective(q)
  PROVE  /\ Head(q) \in Range(q) /\ Head(q) \notin Range(Tail(q))
         /\ Range(Tail(q)) \subseteq Range(q) /\ IsInjective(Tail(q))
<1> DEFINE n == Len(q)
<1>1. /\ n \in Nat /\ n > 0 /\ DOMAIN q = 1..n /\ Head(q) = q[1]
      /\ DOMAIN Tail(q) = 1..(n - 1)
      /\ \A i \in 1..(n - 1) : Tail(q)[i] = q[i + 1]
  OBVIOUS
<1>2. 1 \in 1..n /\ \A i \in 1..(n - 1) : i + 1 \in 1..n /\ i + 1 # 1
  BY <1>1
<1>3. Head(q) \in Range(q)
  BY <1>1, <1>2 DEF Range
<1>4. ASSUME NEW i \in 1..(n - 1) PROVE Tail(q)[i] \in Range(q) /\ Tail(q)[i] # Head(q)
  BY <1>1, <1>2, <1>4 DEF Range, IsInjective
<1>5. ASSUME NEW i \in 1..(n - 1), NEW j \in 1..(n - 1), Tail(q)[i] = Tail(q)[j] PROVE i = j
  <2>1. i + 1 = j + 1
    BY <1>1, <1>2, <1>5 DEF IsInjective
  <2> QED
    BY <1>1, <2>1
<1> QED
  BY <1>1, <1>3, <1>4, <1>5 DEF Range, IsInjective

LEMMA EmptyOnce == IsInjective(<<>>) /\ Range(<<>>) = {}
BY DEF IsInjective, Range

\* A step that moves no message: the places are as they were, and no
\* transcript has a message that none had.
LEMMA PlacesKept ==
  ASSUME InOnePlace, UNCHANGED proc,
         \A x \in Inputs, s \in Sessions : (WaitsIn(x, s)' => WaitsIn(x, s)) /\ (AskedIn(x, s)' => AskedIn(x, s)),
         \A x \in Inputs : Answered(x)' => Answered(x)
  PROVE  InOnePlace'
BY DEF InOnePlace, Pending

LEMMA OnceStep == ASSUME OnceInv, [Next]_vars PROVE OnceInv'
<1>0. TypeOK' /\ TypeOK /\ NoRepeats /\ InOnePlace
  BY TypeStep DEF OnceInv
<1>a. /\ Turns \in Seq(Inputs)
      /\ \A s \in Sessions : history[s] \in Seq(Inputs) /\ queue[s] \in Seq(Inputs)
      /\ \A s \in Sessions : turn[s].at # "idle" => turn[s].of \in Inputs
  BY <1>0, TurnsType, TurnType DEF TypeOK
<1>1. ASSUME NEW x \in Inputs, NEW s \in Sessions, Submit(x, s) PROVE NoRepeats' /\ InOnePlace'
  <2>1. UNCHANGED <<queue, turn, file>> /\ proc[x] = "new"
    BY <1>1 DEF Submit
  <2>2. /\ proc'[x] \in {"send", "touch"}
        /\ \A y \in Inputs \ {x} : proc'[y] = proc[y]
    BY <1>0, <1>1 DEF Submit, TypeOK
  <2>3. Turns' = Turns
    BY <2>1 DEF Turns
  <2>4. \A r \in Sessions : history'[r] \in {history[r], Turns, <<>>}
    BY <1>0, <1>1, <1>a DEF Submit, OpenLocked, OpenFresh, TypeOK
  <2>5. NoRepeats'
    BY <1>0, <2>1, <2>3, <2>4, EmptyOnce DEF NoRepeats
  <2>6. \A y \in Inputs : Answered(y)' => Answered(y)
    BY <2>3, <2>4, EmptyOnce DEF Answered
  <2>7. \A y \in Inputs, r \in Sessions : (WaitsIn(y, r)' <=> WaitsIn(y, r)) /\ (AskedIn(y, r)' <=> AskedIn(y, r))
    BY <2>1 DEF WaitsIn, AskedIn
  <2>8. ~Answered(x) /\ \A r \in Sessions : ~Pending(x, r)
    BY <1>0, <2>1 DEF InOnePlace
  <2> QED
    BY <1>0, <2>2, <2>5, <2>6, <2>7, <2>8 DEF InOnePlace, Pending
<1>2. ASSUME NEW x \in Inputs, Refused(x) PROVE NoRepeats' /\ InOnePlace'
  <2>1. UNCHANGED <<queue, turn, file, history>> /\ proc[x] = "new"
    BY <1>2 DEF Refused, sess
  <2>2. \A y \in Inputs \ {x} : proc'[y] = proc[y]
    BY <1>0, <1>2 DEF Refused, TypeOK
  <2>3. Turns' = Turns
    BY <2>1 DEF Turns
  <2>4. ~Answered(x) /\ \A r \in Sessions : ~Pending(x, r)
    BY <1>0, <2>1 DEF InOnePlace
  <2>5. \A y \in Inputs : /\ Answered(y)' <=> Answered(y)
                          /\ \A r \in Sessions : (WaitsIn(y, r)' <=> WaitsIn(y, r)) /\ (AskedIn(y, r)' <=> AskedIn(y, r))
    BY <2>1, <2>3 DEF Answered, WaitsIn, AskedIn
  <2> QED
    BY <1>0, <2>1, <2>2, <2>3, <2>4, <2>5 DEF NoRepeats, InOnePlace, Pending
<1>3. ASSUME NEW x \in Inputs, Touch(x) PROVE NoRepeats' /\ InOnePlace'
  <2>1. UNCHANGED <<queue, turn, history>> /\ proc[x] = "touch" /\ Turns' = Turns
    <3>1. CASE file = None
      BY <1>3, <3>1 DEF Touch, Turns, sess, OnFile, NewRecord
    <3>2. CASE file # None
      BY <1>3, <3>2 DEF Touch, Turns, sess, OnFile
    <3> QED
      BY <3>1, <3>2
  <2>2. proc'[x] = "send" /\ \A y \in Inputs \ {x} : proc'[y] = proc[y]
    BY <1>0, <1>3 DEF Touch, TypeOK
  <2>3. \A y \in Inputs : /\ Answered(y)' <=> Answered(y)
                          /\ \A r \in Sessions : (WaitsIn(y, r)' <=> WaitsIn(y, r)) /\ (AskedIn(y, r)' <=> AskedIn(y, r))
    BY <2>1 DEF Answered, WaitsIn, AskedIn
  <2>4. ~Answered(x) /\ \A r \in Sessions : ~Pending(x, r)
    BY <1>0, <2>1 DEF InOnePlace
  <2> QED
    BY <1>0, <2>1, <2>2, <2>3, <2>4 DEF NoRepeats, InOnePlace, Pending
<1>4. ASSUME NEW x \in Inputs, Send(x) PROVE NoRepeats' /\ InOnePlace'
  <2>1. UNCHANGED <<turn, history, file>> /\ proc[x] = "send" /\ Turns' = Turns
    BY <1>4 DEF Send, Turns
  <2>2. ~Answered(x) /\ \A r \in Sessions : ~Pending(x, r)
    BY <1>0, <2>1 DEF InOnePlace
  <2>3. \A y \in Inputs : /\ Answered(y)' <=> Answered(y)
                          /\ \A r \in Sessions : AskedIn(y, r)' <=> AskedIn(y, r)
    BY <2>1 DEF Answered, AskedIn
  <2>4. \A y \in Inputs \ {x} : proc'[y] = proc[y]
    BY <1>0, <1>4 DEF Send, TypeOK
  <2>5. CASE UNCHANGED queue
    <3>1. \A y \in Inputs, r \in Sessions : WaitsIn(y, r)' <=> WaitsIn(y, r)
      BY <2>5 DEF WaitsIn
    <3> QED
      BY <1>0, <2>1, <2>2, <2>3, <2>4, <2>5, <3>1 DEF NoRepeats, InOnePlace, Pending
  <2>6. CASE queue' = [queue EXCEPT ![to[x]] = Append(@, x)] /\ proc' = [proc EXCEPT ![x] = "queued"]
    <3>1. proc'[x] = "queued"
      BY <1>0, <2>6 DEF TypeOK
    <3>2. \A r \in Sessions : queue'[r] = IF r = to[x] THEN Append(queue[r], x) ELSE queue[r]
      BY <1>0, <2>6 DEF TypeOK
    <3>3. \A r \in Sessions : Range(queue'[r]) = IF r = to[x] THEN Range(queue[r]) \cup {x} ELSE Range(queue[r])
      BY <3>2, <1>a, AppendOnce
    <3>4. \A r \in Sessions : IsInjective(queue'[r])
      BY <1>0, <1>a, <2>2, <3>2, AppendOnce DEF NoRepeats, Pending, WaitsIn
    <3>5. \A y \in Inputs, r \in Sessions : WaitsIn(y, r)' <=> WaitsIn(y, r) \/ (y = x /\ r = to[x])
      BY <3>3 DEF WaitsIn
    <3>6. NoRepeats'
      BY <1>0, <2>1, <3>4 DEF NoRepeats
    <3> QED
      BY <1>0, <2>2, <2>3, <2>4, <3>1, <3>5, <3>6 DEF InOnePlace, Pending
  <2> QED
    BY <1>4, <2>5, <2>6 DEF Send
<1>5. ASSUME NEW s \in Sessions, Take(s) PROVE NoRepeats' /\ InOnePlace'
  <2> DEFINE x == Head(queue[s])
  <2>1. UNCHANGED <<proc, history, file>> /\ Turns' = Turns /\ queue[s] # <<>>
    BY <1>5 DEF Take, rest, Turns
  <2>2. /\ x \in Range(queue[s]) /\ x \notin Range(Tail(queue[s]))
        /\ Range(Tail(queue[s])) \subseteq Range(queue[s]) /\ IsInjective(Tail(queue[s]))
    BY <1>0, <1>a, <2>1, TailOnce DEF NoRepeats
  <2>3. \A r \in Sessions : queue'[r] = IF r = s THEN Tail(queue[r]) ELSE queue[r]
    BY <1>0, <1>5 DEF Take, TypeOK
  <2>4. \A r \in Sessions : turn'[r] = IF r = s THEN [at |-> "start", of |-> x] ELSE turn[r]
    BY <1>0, <1>5 DEF Take, TypeOK
  <2>5. \A y \in Inputs, r \in Sessions : AskedIn(y, r)' <=> IF r = s THEN y = x ELSE AskedIn(y, r)
    BY <2>4 DEF AskedIn
  <2>6. \A y \in Inputs, r \in Sessions : WaitsIn(y, r)' => WaitsIn(y, r) /\ ~(r = s /\ y = x)
    BY <2>2, <2>3 DEF WaitsIn
  <2>7. \A y \in Inputs : Answered(y)' <=> Answered(y)
    BY <2>1 DEF Answered
  <2>8. \A y \in Inputs, r \in Sessions : Pending(y, r)' => Pending(y, r)
    BY <2>2, <2>5, <2>6 DEF Pending, WaitsIn
  <2>9. NoRepeats'
    BY <1>0, <2>1, <2>2, <2>3 DEF NoRepeats
  <2>10. ASSUME NEW y \in Inputs, NEW r \in Sessions PROVE ~(WaitsIn(y, r)' /\ AskedIn(y, r)')
    BY <1>0, <2>5, <2>6 DEF InOnePlace
  <2> QED
    BY <1>0, <2>1, <2>7, <2>8, <2>9, <2>10 DEF InOnePlace
<1>6. ASSUME NEW s \in Sessions, EmitStart(s) PROVE NoRepeats' /\ InOnePlace'
  <2>1. UNCHANGED <<proc, history, file, queue>> /\ Turns' = Turns
    BY <1>6 DEF EmitStart, rest, Turns
  <2>2. /\ \A r \in Sessions \ {s} : turn'[r] = turn[r]
        /\ turn'[s].of = turn[s].of /\ turn[s].at = "start"
    BY <1>0, <1>6, TurnType DEF EmitStart, TypeOK
  <2>3. \A y \in Inputs, r \in Sessions : (WaitsIn(y, r)' => WaitsIn(y, r)) /\ (AskedIn(y, r)' => AskedIn(y, r))
    BY <2>1, <2>2 DEF WaitsIn, AskedIn
  <2>4. \A y \in Inputs : Answered(y)' => Answered(y)
    BY <2>1 DEF Answered
  <2> QED
    BY <1>0, <2>1, <2>3, <2>4, PlacesKept DEF NoRepeats
<1>7. ASSUME NEW s \in Sessions, Finish(s) PROVE NoRepeats' /\ InOnePlace'
  <2> PICK x \in Inputs : x = turn[s].of
    BY <1>7, <1>a DEF Finish
  <2>1. UNCHANGED <<proc, file, queue>> /\ Turns' = Turns /\ turn[s].at = "run"
    BY <1>7, <1>a DEF Finish, rest, Turns
  <2>2. AskedIn(x, s)
    BY <2>1 DEF AskedIn
  <2>3. /\ proc[x] = "queued" /\ ~Answered(x) /\ ~WaitsIn(x, s)
        /\ \A r \in Sessions \ {s} : ~Pending(x, r)
    BY <1>0, <2>1, <2>2 DEF InOnePlace, Pending
  <2>4. \A r \in Sessions : history'[r] = IF r = s THEN Append(history[r], x) ELSE history[r]
    BY <1>0, <1>7 DEF Finish, TypeOK
  <2>5. \A r \in Sessions : /\ Range(history'[r]) \subseteq Range(history[r]) \cup {x}
                            /\ IsInjective(history'[r])
    BY <1>0, <1>a, <2>1, <2>3, <2>4, AppendOnce DEF NoRepeats, Answered
  <2>6. NoRepeats'
    BY <1>0, <2>1, <2>5 DEF NoRepeats
  <2>7. \A y \in Inputs : Answered(y)' => Answered(y) \/ y = x
    BY <2>1, <2>5 DEF Answered
  <2>8. /\ \A r \in Sessions \ {s} : turn'[r] = turn[r]
        /\ turn'[s].at = "save"
    BY <1>0, <1>7, TurnType DEF Finish, TypeOK
  <2>9. \A y \in Inputs, r \in Sessions : AskedIn(y, r)' => AskedIn(y, r) /\ r # s
    BY <2>8 DEF AskedIn
  <2>10. \A y \in Inputs, r \in Sessions : WaitsIn(y, r)' <=> WaitsIn(y, r)
    BY <2>1 DEF WaitsIn
  <2>11. \A r \in Sessions : ~Pending(x, r)'
    BY <2>3, <2>9, <2>10 DEF Pending
  <2>12. \A y \in Inputs, r \in Sessions : Pending(y, r)' => Pending(y, r) /\ y # x
    BY <2>9, <2>10, <2>11 DEF Pending
  <2>13. \A y \in Inputs, r \in Sessions : ~(WaitsIn(y, r)' /\ AskedIn(y, r)')
    BY <1>0, <2>9, <2>10 DEF InOnePlace
  <2> QED
    BY <1>0, <2>1, <2>3, <2>6, <2>7, <2>12, <2>13 DEF InOnePlace
<1>8. ASSUME NEW s \in Sessions, Persist(s) PROVE NoRepeats' /\ InOnePlace'
  <2>1. UNCHANGED <<proc, history, queue>>
    BY <1>8 DEF Persist
  <2>2. Turns' \in {Turns, history[s], <<>>}
    <3>1. UNCHANGED file \/ file'.turns = history[s]
      BY <1>0, <1>8, <1>a, SaveType DEF Persist
    <3> QED
      BY <3>1 DEF Turns
  <2>3. /\ \A r \in Sessions \ {s} : turn'[r] = turn[r]
        /\ turn'[s].at = "end"
    BY <1>0, <1>8, TurnType DEF Persist, TypeOK
  <2>4. \A y \in Inputs, r \in Sessions : (WaitsIn(y, r)' => WaitsIn(y, r)) /\ (AskedIn(y, r)' => AskedIn(y, r))
    BY <2>1, <2>3 DEF WaitsIn, AskedIn
  <2>5. \A y \in Inputs : Answered(y)' => Answered(y)
    BY <2>1, <2>2, EmptyOnce DEF Answered
  <2> QED
    BY <1>0, <2>1, <2>2, <2>4, <2>5, PlacesKept, EmptyOnce DEF NoRepeats
<1>9. ASSUME NEW s \in Sessions, EmitEnd(s) PROVE NoRepeats' /\ InOnePlace'
  <2>1. UNCHANGED <<proc, history, file, queue>> /\ Turns' = Turns
    BY <1>9 DEF EmitEnd, rest, Turns
  <2>2. \A r \in Sessions : turn'[r] = IF r = s THEN NoTurn ELSE turn[r]
    BY <1>0, <1>9 DEF EmitEnd, TypeOK
  <2>3. \A y \in Inputs, r \in Sessions : (WaitsIn(y, r)' => WaitsIn(y, r)) /\ (AskedIn(y, r)' => AskedIn(y, r))
    BY <2>1, <2>2 DEF WaitsIn, AskedIn, NoTurn
  <2>4. \A y \in Inputs : Answered(y)' => Answered(y)
    BY <2>1 DEF Answered
  <2> QED
    BY <1>0, <2>1, <2>3, <2>4, PlacesKept DEF NoRepeats
<1>10. CASE UNCHANGED <<proc, queue, turn, history>> /\ (Turns' = Turns \/ Turns' = <<>>)
  <2>1. \A y \in Inputs, r \in Sessions : (WaitsIn(y, r)' => WaitsIn(y, r)) /\ (AskedIn(y, r)' => AskedIn(y, r))
    BY <1>10 DEF WaitsIn, AskedIn
  <2>2. \A y \in Inputs : Answered(y)' => Answered(y)
    BY <1>10, EmptyOnce DEF Answered
  <2>3. NoRepeats'
    BY <1>0, <1>10, EmptyOnce DEF NoRepeats
  <2>4. UNCHANGED proc
    BY <1>10
  <2> QED
    BY <1>0, <2>1, <2>2, <2>3, <2>4, PlacesKept DEF OnceInv
<1>11. ASSUME NEW s \in Sessions, Leave(s) \/ Observe(s) \/ Exit(s) \/ Age(s) \/ Reap(s) \/ Close(s)
       PROVE  UNCHANGED <<proc, queue, turn, history>> /\ Turns' = Turns
  BY <1>11 DEF Leave, Observe, Exit, Age, Reap, Close, mgr, sess, rest, Turns
<1>12. ASSUME NEW s \in Sessions, Flush(s)
       PROVE  UNCHANGED <<proc, queue, turn, history>> /\ (Turns' = Turns \/ Turns' = <<>>)
  <2>1. group[s] \in Inputs \cup {None} /\ AppendTools(group[s])
    BY <1>0, <1>12 DEF TypeOK, Flush
  <2>2. UNCHANGED file \/ (file # None /\ file'.turns = file.turns)
    BY <1>0, <2>1, AppendToolsType
  <2> QED
    BY <1>12, <2>2 DEF Flush, sess, Turns
<1>13. CASE DeleteTake \/ CloseAll \/ CloseAllReturns \/ UNCHANGED vars
  BY <1>10, <1>13 DEF DeleteTake, CloseAll, CloseAllReturns, vars, mgr, sess, rest, Turns
<1>14. CASE DeleteFile
  BY <1>10, <1>14 DEF DeleteFile, sess, Turns
<1> QED
  BY <1>0, <1>1, <1>2, <1>3, <1>4, <1>5, <1>6, <1>7, <1>8, <1>9, <1>10, <1>11, <1>12, <1>13, <1>14
     DEF Next, Loop, Pump, OnceInv

LEMMA OnceInit == Init => OnceInv
<1> SUFFICES ASSUME Init PROVE NoRepeats /\ InOnePlace
  BY TypeInit DEF OnceInv
<1>1. Turns = <<>> /\ \A s \in Sessions : history[s] = <<>> /\ queue[s] = <<>> /\ turn[s] = NoTurn
  BY DEF Init, Turns
<1>2. NoRepeats
  BY <1>1, EmptyOnce DEF NoRepeats
<1>3. \A x \in Inputs : ~Answered(x) /\ \A s \in Sessions : ~Pending(x, s)
  BY <1>1, EmptyOnce DEF Answered, Pending, WaitsIn, AskedIn, NoTurn
<1> QED
  BY <1>2, <1>3 DEF InOnePlace, Pending

\* However many sessions the reaper, deletes and callers that race with them
\* make of the chat, no message is in its transcript twice.
THEOREM AnsweredAtMostOnce == Spec => []AnsweredOnce
<1>1. OnceInv => AnsweredOnce
  BY DEF OnceInv, NoRepeats, AnsweredOnce
<1> QED
  BY <1>1, OnceInit, OnceStep, PTL DEF Spec
-----------------------------------------------------------------------------
(* A calm chat.  One session answers all of it.  Its turns are one line: those *)
(* it knows and the one that runs.  The events of a line are numbered, turn k  *)
(* starts at 2k - 1 and ends at 2k; what the pump has heard is a beginning of  *)
(* them, the stream holds what follows, and the loop owes the rest.  The turns *)
(* whose end the pump has heard are those whose group has been handed to the   *)
(* store, but for the one in hand; the file has a beginning of the turns that  *)
(* a Save was tried for.                                                       *)

Undisturbed == shut = "open" /\ deleter = "idle" /\ aged = {} /\ dead = {} /\ cancelled = {}

Line(s) == IF turn[s].at \in {"start", "run"} THEN Append(history[s], turn[s].of) ELSE history[s]
Owed(at) == IF at = "idle" THEN 0 ELSE IF at = "start" THEN 2 ELSE 1
Groups(s) == IF pump[s] = "flush" THEN Append(Tools, group[s]) ELSE Tools
Half(begun) == IF begun = None THEN 0 ELSE 1
Tried(s) == IF turn[s].at = "save" THEN Len(history[s]) - 1 ELSE Len(history[s])

InOrder(line, owed, events, begun, ended) ==
  LET heard == 2 * Len(ended) + Half(begun)
  IN  /\ heard + Len(events) + owed = 2 * Len(line)
      /\ \A i \in 1..Len(ended) : ended[i] = line[i]
      /\ begun # None => begun = line[Len(ended) + 1]
      /\ \A i \in 1..Len(events), k \in 1..Len(line) :
           /\ heard + i = 2 * k - 1 => events[i] = <<"start", line[k]>>
           /\ heard + i = 2 * k => events[i] = <<"end", line[k]>>

Saved(s) ==
  /\ Len(Turns) <= Tried(s)
  /\ \A i \in 1..Len(Turns) : Turns[i] = history[s][i]
  /\ unsaved = {history[s][i] : i \in 1..Tried(s)} \ Range(Turns)

Paired(s, ended) ==
  /\ groupless = {} => Groups(s) = ended
  /\ Range(ended) = Range(Groups(s)) \cup groupless

Answering(s, ended) ==
  /\ InOrder(Line(s), Owed(turn[s].at), stream[s], forest[s], ended)
  /\ turn[s].at # "idle" => Len(Line(s)) > 0 /\ Line(s)[Len(Line(s))] = turn[s].of
  /\ Saved(s) /\ Paired(s, ended)

OneSession ==
  /\ active = None => file = None /\ unsaved = {} /\ groupless = {}
  /\ \A x \in Inputs : proc[x] # "new" => active # None /\ to[x] = active
  /\ \A s \in Sessions :
       IF s = active THEN life[s] = "live" /\ \E ended \in Seq(Inputs \cup {None}) : Answering(s, ended)
                     ELSE life[s] = "unborn" /\ turn[s] = NoTurn /\ stream[s] = <<>> /\ forest[s] = None
CalmInv == calm => Undisturbed /\ OneSession /\ QuestionIsShown

\* A turn is taken.
LEMMA LineGrows ==
  ASSUME NEW line \in Seq(Inputs), NEW events \in Seq(Events), NEW begun \in Inputs \cup {None},
         NEW ended \in Seq(Inputs \cup {None}), NEW x \in Inputs, InOrder(line, 0, events, begun, ended)
  PROVE  InOrder(Append(line, x), 2, events, begun, ended)
<1> DEFINE n == Len(line)
           g == Len(ended)
           e == Len(events)
           h == Half(begun)
           longer == Append(line, x)
<1>1. n \in Nat /\ g \in Nat /\ e \in Nat /\ h \in {0, 1}
  BY DEF Half
<1>2. Len(longer) = n + 1 /\ \A k \in 1..n : longer[k] = line[k]
  OBVIOUS
<1>3. 2 * g + h + e = 2 * n
  BY <1>1 DEF InOrder, n, g, e, h
<1> HIDE DEF n, g, e, h
<1>4. ASSUME NEW i \in 1..g PROVE ended[i] = longer[i]
  BY <1>1, <1>2, <1>3, <1>4 DEF InOrder, n, g, e, h
<1>5. ASSUME begun # None PROVE begun = longer[g + 1]
  <2>1. h = 1
    BY <1>5 DEF Half, h
  <2>2. g + 1 \in 1..n
    BY <1>1, <1>3, <2>1
  <2> QED
    BY <1>2, <1>5, <2>2 DEF InOrder, n, g, e, h
<1>6. ASSUME NEW i \in 1..e, NEW k \in 1..(n + 1)
      PROVE  /\ 2 * g + h + i = 2 * k - 1 => events[i] = <<"start", longer[k]>>
             /\ 2 * g + h + i = 2 * k => events[i] = <<"end", longer[k]>>
  <2>1. CASE k \in 1..n
    <3>1. /\ 2 * g + h + i = 2 * k - 1 => events[i] = <<"start", line[k]>>
          /\ 2 * g + h + i = 2 * k => events[i] = <<"end", line[k]>>
      BY <2>1 DEF InOrder, n, g, e, h
    <3>2. longer[k] = line[k]
      BY <1>2, <2>1
    <3> QED
      BY <3>1, <3>2, Zenon
  <2>2. CASE k = n + 1
    BY <1>1, <1>3, <2>2
  <2>3. k \in 1..n \/ k = n + 1
    <3>1. n \in Nat
      BY <1>1
    <3> QED
      BY <3>1
  <2> QED
    BY <2>1, <2>2, <2>3, Zenon
<1> HIDE DEF longer
<1>7. 2 * g + h + e + 2 = 2 * (n + 1)
  BY <1>1, <1>3
<1> QED
  BY <1>2, <1>4, <1>5, <1>6, <1>7 DEF InOrder, longer, n, g, e, h

\* The loop emits what it owes: the start of the last turn, then its end.
LEMMA LineEmits ==
  ASSUME NEW line \in Seq(Inputs), NEW events \in Seq(Events), NEW begun \in Inputs \cup {None},
         NEW ended \in Seq(Inputs \cup {None}), NEW owed \in {1, 2}, NEW kind, Len(line) > 0,
         kind = IF owed = 2 THEN "start" ELSE "end",
         InOrder(line, owed, events, begun, ended)
  PROVE  InOrder(line, owed - 1, Append(events, <<kind, line[Len(line)]>>), begun, ended)
<1> DEFINE n == Len(line)
           g == Len(ended)
           e == Len(events)
           h == Half(begun)
           more == Append(events, <<kind, line[n]>>)
<1>1. n \in Nat /\ g \in Nat /\ e \in Nat /\ h \in {0, 1}
  BY DEF Half
<1>2. Len(more) = e + 1 /\ more[e + 1] = <<kind, line[n]>> /\ \A i \in 1..e : more[i] = events[i]
  <2> PICK x : x = <<kind, line[n]>>
    OBVIOUS
  <2>1. Len(Append(events, x)) = e + 1 /\ Append(events, x)[e + 1] = x
    OBVIOUS
  <2>2. \A i \in 1..e : Append(events, x)[i] = events[i]
    OBVIOUS
  <2> QED
    BY <2>1, <2>2
<1>3. 2 * g + h + e + owed = 2 * n
  BY <1>1 DEF InOrder, n, g, e, h
<1> HIDE DEF n, g, e, h
<1>4. 2 * g + h + (e + 1) + (owed - 1) = 2 * n
  <2>1. n \in Nat /\ g \in Nat /\ e \in Nat /\ h \in Nat /\ owed \in Nat
    BY <1>1
  <2> QED
    BY <1>3, <2>1
<1>5. ASSUME NEW i \in 1..(e + 1), NEW k \in 1..n
      PROVE  /\ 2 * g + h + i = 2 * k - 1 => more[i] = <<"start", line[k]>>
             /\ 2 * g + h + i = 2 * k => more[i] = <<"end", line[k]>>
  <2>1. CASE i \in 1..e
    <3>1. /\ 2 * g + h + i = 2 * k - 1 => events[i] = <<"start", line[k]>>
          /\ 2 * g + h + i = 2 * k => events[i] = <<"end", line[k]>>
      BY <2>1 DEF InOrder, n, g, e, h
    <3>2. more[i] = events[i]
      BY <1>2, <2>1
    <3> QED
      BY <3>1, <3>2, Zenon
  <2>2. CASE i = e + 1
    <3>1. ASSUME owed = 2 PROVE 2 * g + h + i = 2 * n - 1
      <4>1. 2 * g + h + e + 2 = 2 * n
        BY <1>1, <1>3, <3>1, SMT
      <4>2. i = e + 1 /\ n \in Nat /\ g \in Nat /\ e \in Nat /\ h \in Nat
        BY <1>1, <2>2
      <4> QED
        BY <4>1, <4>2
    <3>2. ASSUME owed = 1 PROVE 2 * g + h + i = 2 * n
      <4>1. 2 * g + h + e + 1 = 2 * n
        BY <1>1, <1>3, <3>2, SMT
      <4>2. i = e + 1 /\ n \in Nat /\ g \in Nat /\ e \in Nat /\ h \in Nat
        BY <1>1, <2>2
      <4> QED
        BY <4>1, <4>2
    <3>3. /\ 2 * g + h + i = 2 * k - 1 => owed = 2 /\ k = n
          /\ 2 * g + h + i = 2 * k => owed = 1 /\ k = n
      BY <1>1, <3>1, <3>2
    <3> QED
      BY <1>2, <2>2, <3>3
  <2>3. i \in 1..e \/ i = e + 1
    BY <1>1
  <2> QED
    BY <2>1, <2>2, <2>3, Zenon
<1> HIDE DEF more
<1> QED
  BY <1>2, <1>4, <1>5 DEF InOrder, more, n, g, e, h

LEMMA TailFacts ==
  ASSUME NEW events \in Seq(Events), events # <<>>
  PROVE  /\ Len(events) \in Nat /\ Len(events) >= 1 /\ Head(events) = events[1]
         /\ Tail(events) \in Seq(Events) /\ Len(Tail(events)) = Len(events) - 1
         /\ \A i \in 1..Len(Tail(events)) : Tail(events)[i] = events[i + 1]
OBVIOUS

\* The pump hears the start of the next turn of the line, if it has heard the end of the last.
LEMMA LineStarts ==
  ASSUME NEW line \in Seq(Inputs), NEW events \in Seq(Events), NEW begun \in Inputs \cup {None},
         NEW ended \in Seq(Inputs \cup {None}), NEW owed \in 0..2, events # <<>>,
         Head(events)[1] = "start", InOrder(line, owed, events, begun, ended)
  PROVE  Head(events)[2] \in Inputs /\ InOrder(line, owed, Tail(events), Head(events)[2], ended)
<1> DEFINE n == Len(line)
           g == Len(ended)
           e == Len(events)
           h == Half(begun)
           x == Head(events)[2]
<1>1. n \in Nat /\ g \in Nat /\ e \in Nat /\ e >= 1 /\ h \in {0, 1}
  BY TailFacts DEF Half
<1>2. 2 * g + h + e + owed = 2 * n
  BY <1>1 DEF InOrder, n, g, e, h
<1> HIDE DEF n, g, e, h
<1>3. g + 1 \in 1..n /\ 1 \in 1..e
  BY <1>1, <1>2
<1>4. h = 0
  <2>1. ASSUME h = 1 PROVE events[1] = <<"end", line[g + 1]>>
    <3>1. 2 * g + h + 1 = 2 * (g + 1)
      BY <1>1, <2>1
    <3> QED
      BY <1>3, <3>1 DEF InOrder, n, g, e, h
  <2> QED
    BY <1>1, <2>1, TailFacts
<1>5. events[1] = <<"start", line[g + 1]>>
  <2>1. 2 * g + h + 1 = 2 * (g + 1) - 1
    BY <1>1, <1>4
  <2> QED
    BY <1>3, <2>1 DEF InOrder, n, g, e, h
<1>6. x = line[g + 1] /\ x \in Inputs /\ Half(x) = 1
  BY <1>3, <1>5, TailFacts, ChatAssumption DEF Half, n
<1>7. 2 * g + 1 + (e - 1) + owed = 2 * n
  <2>1. n \in Nat /\ g \in Nat /\ e \in Nat /\ owed \in Nat
    BY <1>1
  <2> QED
    BY <1>2, <1>4, <2>1
<1>8. ASSUME NEW i \in 1..(e - 1), NEW k \in 1..n
      PROVE  /\ 2 * g + 1 + i = 2 * k - 1 => Tail(events)[i] = <<"start", line[k]>>
             /\ 2 * g + 1 + i = 2 * k => Tail(events)[i] = <<"end", line[k]>>
  <2>1. i + 1 \in 1..e /\ 2 * g + h + (i + 1) = 2 * g + 1 + i
    BY <1>1, <1>4
  <2>2. /\ 2 * g + h + (i + 1) = 2 * k - 1 => events[i + 1] = <<"start", line[k]>>
        /\ 2 * g + h + (i + 1) = 2 * k => events[i + 1] = <<"end", line[k]>>
    BY <2>1 DEF InOrder, n, g, e, h
  <2>3. Tail(events)[i] = events[i + 1]
    BY <1>1, TailFacts DEF e
  <2> QED
    BY <2>1, <2>2, <2>3
<1>9. \A i \in 1..g : ended[i] = line[i]
  BY DEF InOrder, n, g, e, h
<1> HIDE DEF x
<1>10. 2 * Len(ended) + Half(x) + Len(Tail(events)) + owed = 2 * Len(line)
  <2>1. Len(Tail(events)) = e - 1
    BY TailFacts DEF e
  <2>2. Len(ended) = g /\ Len(line) = n
    BY DEF g, n
  <2> QED
    BY <1>1, <1>6, <1>7, <2>1, <2>2
<1>11. \A i \in 1..Len(Tail(events)), k \in 1..Len(line) :
          /\ 2 * Len(ended) + Half(x) + i = 2 * k - 1 => Tail(events)[i] = <<"start", line[k]>>
          /\ 2 * Len(ended) + Half(x) + i = 2 * k => Tail(events)[i] = <<"end", line[k]>>
  <2>1. Len(Tail(events)) = e - 1
    BY TailFacts DEF e
  <2>2. Half(x) = 1
    BY <1>6
  <2> QED
    BY <1>8, <2>1, <2>2, Zenon DEF g, n
<1>12. InOrder(line, owed, Tail(events), x, ended)
  BY <1>6, <1>9, <1>10, <1>11, Zenon DEF InOrder, n, g, e, h
<1> QED
  BY <1>6, <1>12 DEF x

\* The pump hears the end of the turn it has begun, and the group leaves the forest.
LEMMA LineEnds ==
  ASSUME NEW line \in Seq(Inputs), NEW events \in Seq(Events), NEW begun \in Inputs \cup {None},
         NEW ended \in Seq(Inputs \cup {None}), NEW owed \in 0..2, events # <<>>,
         Head(events)[1] = "end", InOrder(line, owed, events, begun, ended)
  PROVE  /\ InOrder(line, owed, Tail(events), None, Append(ended, begun))
         /\ 2 * (Len(ended) + 1) + owed <= 2 * Len(line)
<1> DEFINE n == Len(line)
           g == Len(ended)
           e == Len(events)
           h == Half(begun)
           more == Append(ended, begun)
<1>1. n \in Nat /\ g \in Nat /\ e \in Nat /\ e >= 1 /\ h \in {0, 1}
  BY TailFacts DEF Half
<1>2. 2 * g + h + e + owed = 2 * n
  BY <1>1 DEF InOrder, n, g, e, h
<1> HIDE DEF n, g, e, h
<1>3. g + 1 \in 1..n /\ 1 \in 1..e
  BY <1>1, <1>2
<1>4. h = 1 /\ begun # None
  <2>1. ASSUME h = 0 PROVE events[1] = <<"start", line[g + 1]>>
    <3>1. 2 * g + h + 1 = 2 * (g + 1) - 1
      BY <1>1, <2>1
    <3> QED
      BY <1>3, <3>1 DEF InOrder, n, g, e, h
  <2>2. h = 1
    BY <1>1, <2>1, TailFacts
  <2> QED
    BY <2>2 DEF Half, h
<1>5. begun = line[g + 1]
  BY <1>4 DEF InOrder, n, g, e, h
<1>6. Len(more) = g + 1 /\ more[g + 1] = begun /\ \A i \in 1..g : more[i] = ended[i]
  BY DEF g
<1>7. 2 * (g + 1) + 0 + (e - 1) + owed = 2 * n
  BY <1>1, <1>2, <1>4
<1>8. ASSUME NEW i \in 1..(g + 1) PROVE more[i] = line[i]
  <2>1. CASE i = g + 1
    BY <1>5, <1>6, <2>1
  <2>2. CASE i \in 1..g
    BY <1>6, <2>2 DEF InOrder, n, g, e, h
  <2>3. i \in 1..g \/ i = g + 1
    BY <1>1
  <2> QED
    BY <2>1, <2>2, <2>3, Zenon
<1>9. ASSUME NEW i \in 1..(e - 1), NEW k \in 1..n
      PROVE  /\ 2 * (g + 1) + i = 2 * k - 1 => Tail(events)[i] = <<"start", line[k]>>
             /\ 2 * (g + 1) + i = 2 * k => Tail(events)[i] = <<"end", line[k]>>
  <2>1. i + 1 \in 1..e /\ 2 * g + h + (i + 1) = 2 * (g + 1) + i
    BY <1>1, <1>4
  <2>2. /\ 2 * g + h + (i + 1) = 2 * k - 1 => events[i + 1] = <<"start", line[k]>>
        /\ 2 * g + h + (i + 1) = 2 * k => events[i + 1] = <<"end", line[k]>>
    BY <2>1 DEF InOrder, n, g, e, h
  <2>3. Tail(events)[i] = events[i + 1]
    BY <1>1, TailFacts DEF e
  <2> QED
    BY <2>1, <2>2, <2>3
<1>10. Half(None) = 0 /\ Len(Tail(events)) = e - 1 /\ 2 * (g + 1) + owed <= 2 * n
  <2>1. Half(None) = 0 /\ Len(Tail(events)) = e - 1
    BY TailFacts DEF Half, e
  <2>2. 2 * (g + 1) + owed <= 2 * n
    BY <1>1, <1>7
  <2> QED
    BY <2>1, <2>2
<1> HIDE DEF more
<1>11. 2 * Len(more) + Half(None) + Len(Tail(events)) + owed = 2 * n
  BY <1>1, <1>6, <1>7, <1>10
<1>12. \A i \in 1..Len(Tail(events)), k \in 1..n :
          /\ 2 * Len(more) + Half(None) + i = 2 * k - 1 => Tail(events)[i] = <<"start", line[k]>>
          /\ 2 * Len(more) + Half(None) + i = 2 * k => Tail(events)[i] = <<"end", line[k]>>
  <2>1. Len(Tail(events)) = e - 1 /\ Len(more) = g + 1
    BY <1>6, <1>10
  <2>2. \A i \in Nat : 2 * Len(more) + Half(None) + i = 2 * (g + 1) + i
    BY <1>1, <1>10, <2>1
  <2>3. ASSUME NEW i \in 1..(e - 1), NEW k \in 1..n
        PROVE  /\ 2 * Len(more) + Half(None) + i = 2 * k - 1 => Tail(events)[i] = <<"start", line[k]>>
               /\ 2 * Len(more) + Half(None) + i = 2 * k => Tail(events)[i] = <<"end", line[k]>>
    <3>1. i \in Nat
      BY <1>1
    <3>2. 2 * Len(more) + Half(None) + i = 2 * (g + 1) + i
      BY <2>2, <3>1
    <3> QED
      BY <1>9, <3>2, Zenon
  <2> QED
    BY <2>1, <2>3, Zenon
<1>13. \A i \in 1..Len(more) : more[i] = line[i]
  BY <1>6, <1>8
<1> QED
  BY <1>10, <1>11, <1>12, <1>13 DEF InOrder, more, n, g, e, h

-----------------------------------------------------------------------------
\* What the parts of a line are made of.
LEMMA LineTypes ==
  ASSUME TypeOK, NEW s \in Sessions
  PROVE  /\ Line(s) \in Seq(Inputs) /\ history[s] \in Seq(Inputs) /\ stream[s] \in Seq(Events)
         /\ forest[s] \in Inputs \cup {None} /\ Owed(turn[s].at) \in 0..2
         /\ Tools \in Seq(Inputs \cup {None}) /\ Groups(s) \in Seq(Inputs \cup {None})
         /\ Turns \in Seq(Inputs)
<1>1. Line(s) \in Seq(Inputs)
  <2>1. CASE turn[s].at \in {"start", "run"}
    <3>1. turn[s].of \in Inputs /\ history[s] \in Seq(Inputs)
      BY <2>1, TurnType DEF TypeOK
    <3> QED
      BY <2>1, <3>1 DEF Line
  <2> QED
    BY <2>1 DEF Line, TypeOK
<1>2. Tools \in Seq(Inputs \cup {None})
  BY DEF TypeOK, Tools, Record
<1>3. Groups(s) \in Seq(Inputs \cup {None})
  <2>1. group[s] \in Inputs \cup {None}
    BY DEF TypeOK
  <2>2. Append(Tools, group[s]) \in Seq(Inputs \cup {None})
    BY <1>2, <2>1
  <2> QED
    BY <1>2, <2>2 DEF Groups
<1> QED
  BY <1>1, <1>2, <1>3, TurnsType DEF TypeOK, Owed

\* A Save was tried for a turn whose end was emitted.
LEMMA EndedWasTried ==
  ASSUME TypeOK, NEW s \in Sessions, NEW m \in Nat, 2 * m + Owed(turn[s].at) <= 2 * Len(Line(s))
  PROVE  m <= Tried(s) /\ \A i \in 1..m : Line(s)[i] = history[s][i]
<1>1. turn[s].at \in {"idle", "start", "run", "save", "end"} /\ history[s] \in Seq(Inputs) /\ Len(history[s]) \in Nat
  BY DEF TypeOK, NoTurn
<1>2. CASE turn[s].at \in {"idle", "end", "save"}
  BY <1>1, <1>2 DEF Line, Owed, Tried
<1>3. CASE turn[s].at \in {"start", "run"}
  <2>1. turn[s].of \in Inputs
    BY <1>3, TurnType
  <2>2. Line(s) = Append(history[s], turn[s].of) /\ Tried(s) = Len(history[s])
    BY <1>3 DEF Line, Tried
  <2>3. Len(Line(s)) = Len(history[s]) + 1 /\ \A i \in 1..Len(history[s]) : Line(s)[i] = history[s][i]
    BY <1>1, <2>1, <2>2
  <2>4. Owed(turn[s].at) \in {1, 2}
    BY <1>3 DEF Owed
  <2>5. m <= Len(history[s])
    BY <1>1, <2>3, <2>4
  <2> QED
    BY <1>1, <2>2, <2>3, <2>5
<1> QED
  BY <1>1, <1>2, <1>3

LEMMA EndedIsKnown ==
  ASSUME TypeOK, NEW s \in Sessions, NEW ended \in Seq(Inputs \cup {None}), Answering(s, ended)
  PROVE  Len(ended) <= Tried(s) /\ \A i \in 1..Len(ended) : ended[i] = history[s][i]
<1> DEFINE g == Len(ended)
<1>1. g \in Nat /\ Len(stream[s]) \in Nat /\ Len(Line(s)) \in Nat /\ Owed(turn[s].at) \in 0..2
  BY LineTypes
<1>2. Half(forest[s]) \in {0, 1}
  BY DEF Half
<1>3. /\ 2 * g + Half(forest[s]) + Len(stream[s]) + Owed(turn[s].at) = 2 * Len(Line(s))
      /\ \A i \in 1..g : ended[i] = Line(s)[i]
  BY DEF Answering, InOrder
<1>4. 2 * g + Owed(turn[s].at) <= 2 * Len(Line(s))
  <2>0. PICK n \in Nat, e \in Nat, owed \in 0..2, h \in {0, 1} :
        n = Len(Line(s)) /\ e = Len(stream[s]) /\ owed = Owed(turn[s].at) /\ h = Half(forest[s])
    BY <1>1, <1>2, Zenon
  <2>1. 2 * g + h + e + owed = 2 * n
    BY <1>3, <2>0
  <2>2. 2 * g + owed <= 2 * n
    <3>1. g \in Nat /\ n \in Nat /\ e \in Nat /\ h \in Nat /\ owed \in Nat
      BY <1>1, <2>0
    <3> HIDE DEF g
    <3> QED
      BY <2>1, <3>1
  <2> QED
    BY <2>0, <2>2, Zenon
<1> QED
  BY <1>1, <1>3, <1>4, EndedWasTried

\* What a Save was tried for is on file or known to be missing.
LEMMA TriedIsNamed ==
  ASSUME NEW s \in Sessions, Saved(s), NEW i \in 1..Tried(s)
  PROVE  history[s][i] \in Range(Turns) \cup unsaved
BY DEF Saved

\* A step of the session that answers.
LEMMA SessionGoesOn ==
  ASSUME OneSession, NEW s \in Sessions, s = active, UNCHANGED <<active, life, proc, to>>,
         \A r \in Sessions \ {s} : turn'[r] = turn[r] /\ stream'[r] = stream[r] /\ forest'[r] = forest[r],
         NEW ended \in Seq(Inputs \cup {None}), Answering(s, ended)'
  PROVE  OneSession'
<1>1. active # None
  BY ChatAssumption
<1>2. (\E e \in Seq(Inputs \cup {None}) : Answering(s, e))'
  OBVIOUS
<1> QED
  BY <1>1, <1>2 DEF OneSession

\* A step of it that reaches neither the file nor what it knows.
LEMMA SavedGoesOn ==
  ASSUME NEW s \in Sessions, UNCHANGED <<file, unsaved, history>>, Tried(s)' = Tried(s), Saved(s)
  PROVE  Saved(s)'
<1>1. Turns' = Turns
  BY DEF Turns
<1> QED
  BY <1>1 DEF Saved

\* A step that takes no message out of the file, and none out of flight.
LEMMA ShownGoesOn ==
  ASSUME QuestionIsShown, UNCHANGED <<proc, to, input>>,
         Range(Turns) \cup unsaved \subseteq Range(Turns') \cup unsaved'
  PROVE  QuestionIsShown'
BY DEF QuestionIsShown

Calm == OnceInv /\ ShutdownInv /\ Undisturbed /\ OneSession /\ QuestionIsShown

\* Who can take a step is the session that answers.
LEMMA OnlyOne ==
  ASSUME Calm, NEW s \in Sessions, life[s] = "live" \/ turn[s].at # "idle" \/ pump[s] \in {"drain", "flush"}
  PROVE  s = active /\ life[s] = "live" /\ \E ended \in Seq(Inputs \cup {None}) : Answering(s, ended)
BY DEF Calm, OneSession, ShutdownInv, NoTurn

LEMMA CalmSubmit ==
  ASSUME Calm, NEW x \in Inputs, NEW s \in Sessions, Submit(x, s)
  PROVE  OneSession' /\ QuestionIsShown'
<1>0. TypeOK /\ OneSession /\ QuestionIsShown
  BY DEF Calm, OnceInv
<1>1. /\ UNCHANGED <<file, unsaved, groupless, turn, stream, forest, group>> /\ proc[x] = "new" /\ active' = s
      /\ Turns' = Turns /\ Tools' = Tools
  BY DEF Submit, OpenLocked, OpenFresh, Turns, Tools
<1>2. to'[x] = s /\ \A y \in Inputs \ {x} : to'[y] = to[y] /\ proc'[y] = proc[y]
  BY <1>0 DEF Submit, TypeOK
<1>3. proc'[x] # "new" /\ (x \notin Wakes => input'[s] = x)
  BY <1>0 DEF Submit, TypeOK
<1>4. QuestionIsShown'
  <2> SUFFICES ASSUME NEW y \in Inputs \ Wakes, \A z \in Inputs \ {y} : proc'[z] = "new"
               PROVE  input'[to'[y]] = y
    BY DEF QuestionIsShown
  <2>1. y = x
    BY <1>3
  <2> QED
    BY <1>2, <1>3, <2>1
<1>5. CASE active = s /\ UNCHANGED <<active, life, history, pump>>
  <2>1. /\ Line(s)' = Line(s) /\ Groups(s)' = Groups(s) /\ Tried(s)' = Tried(s)
        /\ UNCHANGED <<turn, stream, forest, history, unsaved, groupless>>
    BY <1>1, <1>5 DEF Line, Groups, Tried
  <2>2. s # None /\ \E ended \in Seq(Inputs \cup {None}) : Answering(s, ended)
    BY <1>0, <1>5, ChatAssumption DEF OneSession
  <2> PICK ended \in Seq(Inputs \cup {None}) : Answering(s, ended)
    BY <2>2
  <2>3. Answering(s, ended)'
    BY <1>1, <2>1 DEF Answering, Saved, Paired
  <2>4. (\E e \in Seq(Inputs \cup {None}) : Answering(s, e))'
    BY <2>3
  <2> QED
    BY <1>0, <1>1, <1>2, <1>4, <1>5, <2>2, <2>4 DEF OneSession
<1>6. CASE active = None /\ OpenFresh(s)
  <2>1. /\ s # active /\ turn[s] = NoTurn /\ stream[s] = <<>> /\ forest[s] = None
        /\ file = None /\ unsaved = {} /\ groupless = {} /\ \A y \in Inputs : proc[y] = "new"
    BY <1>0, <1>6, ChatAssumption DEF OneSession
  <2>2. Turns = <<>> /\ Tools = <<>>
    BY <2>1 DEF Turns, Tools
  <2>3. life'[s] = "live" /\ history'[s] = <<>> /\ pump'[s] = "drain"
    <3>1. history' = [history EXCEPT ![s] = <<>>]
      BY <1>6, <2>2 DEF OpenFresh
    <3> QED
      BY <1>0, <1>6, <3>1 DEF OpenFresh, TypeOK
  <2>4. Line(s)' = <<>> /\ Groups(s)' = <<>> /\ Owed(turn'[s].at) = 0 /\ Tried(s)' = 0
    BY <1>1, <2>1, <2>2, <2>3 DEF Line, Groups, Owed, Tried, NoTurn
  <2>5. InOrder(<<>>, 0, <<>>, None, <<>>)
    BY DEF InOrder, Half
  <2>12. <<>> \in Seq(Inputs \cup {None})
    OBVIOUS
  <2> PICK none \in Seq(Inputs \cup {None}) : none = <<>>
    BY <2>12, Zenon
  <2>6. Answering(s, none)'
    <3>1. InOrder(Line(s), Owed(turn[s].at), stream[s], forest[s], none)'
      BY <1>1, <2>1, <2>4, <2>5
    <3>2. Saved(s)'
      BY <1>1, <2>1, <2>2, <2>4 DEF Saved
    <3>3. Paired(s, none)'
      BY <1>1, <2>1, <2>4, EmptyOnce DEF Paired
    <3>4. turn'[s].at = "idle"
      BY <1>1, <2>1 DEF NoTurn
    <3> QED
      BY <3>1, <3>2, <3>3, <3>4 DEF Answering
  <2>11. (\E ended \in Seq(Inputs \cup {None}) : Answering(s, ended))'
    BY <2>6
  <2>7. \A r \in Sessions \ {s} : life'[r] = life[r] /\ r # active
    BY <1>0, <1>6, ChatAssumption DEF OpenFresh, TypeOK
  <2>8. \A r \in Sessions \ {s} : life'[r] = "unborn" /\ turn'[r] = NoTurn /\ stream'[r] = <<>> /\ forest'[r] = None
    BY <1>0, <1>1, <2>7 DEF OneSession
  <2>9. s # None
    BY ChatAssumption
  <2>10. \A y \in Inputs : proc'[y] # "new" => to'[y] = s
    BY <1>2, <2>1
  <2> QED
    BY <1>1, <1>4, <2>3, <2>8, <2>9, <2>10, <2>11 DEF OneSession
<1> QED
  BY <1>5, <1>6 DEF Submit, OpenLocked

LEMMA CalmCaller ==
  ASSUME Calm, NEW x \in Inputs, Touch(x) \/ Send(x)
  PROVE  OneSession' /\ QuestionIsShown'
<1>0. TypeOK /\ OneSession /\ QuestionIsShown /\ proc[x] \in {"touch", "send"} /\ active # None
  BY DEF Calm, OnceInv, OneSession, Touch, Send
<1>1. /\ UNCHANGED <<active, life, turn, stream, history, forest, pump, group, to, input, unsaved, groupless>>
      /\ \A y \in Inputs \ {x} : proc'[y] = proc[y]
  BY <1>0 DEF Touch, Send, mgr, sess, TypeOK
<1>2. Turns' = Turns /\ Tools' = Tools
  <2>1. CASE Touch(x)
    BY <2>1 DEF Touch, Turns, Tools, OnFile, NewRecord
  <2>2. CASE Send(x)
    BY <2>2 DEF Send, Turns, Tools
  <2> QED
    BY <2>1, <2>2
<1>3. ASSUME NEW s \in Sessions, NEW ended \in Seq(Inputs \cup {None}) PROVE Answering(s, ended)' = Answering(s, ended)
  BY <1>1, <1>2 DEF Answering, Saved, Paired, Line, Groups, Tried
<1>4. OneSession'
  BY <1>0, <1>1, <1>3 DEF OneSession
<1>5. QuestionIsShown'
  <2> SUFFICES ASSUME NEW y \in Inputs \ Wakes, proc'[y] \in {"touch", "send", "queued"},
                      \A z \in Inputs \ {y} : proc'[z] = "new"
               PROVE  y \in Range(Turns) \/ input[to[y]] = y \/ y \in unsaved
    BY <1>1, <1>2 DEF QuestionIsShown
  <2>1. proc'[x] # "new"
    BY <1>0 DEF Touch, Send, TypeOK
  <2>2. y = x /\ \A z \in Inputs \ {y} : proc[z] = "new"
    BY <1>1, <2>1
  <2> QED
    BY <1>0, <2>2 DEF QuestionIsShown
<1> QED
  BY <1>4, <1>5

LEMMA CalmTake ==
  ASSUME Calm, NEW s \in Sessions, Take(s)
  PROVE  OneSession' /\ QuestionIsShown'
<1>0. TypeOK /\ OneSession /\ QuestionIsShown /\ s = active /\ \E ended \in Seq(Inputs \cup {None}) : Answering(s, ended)
  BY OnlyOne DEF Calm, OnceInv, Take
<1> PICK ended \in Seq(Inputs \cup {None}) : Answering(s, ended)
  BY <1>0
<1> DEFINE x == Head(queue[s])
<1>1. queue[s] \in Seq(Inputs) /\ x \in Inputs
  BY <1>0 DEF Take, TypeOK
<1>2. UNCHANGED <<active, life, proc, to, input, stream, forest, history, pump, group, disk>> /\ turn[s].at = "idle"
  BY DEF Take, mgr, rest
<1>3. turn'[s] = [at |-> "start", of |-> x] /\ \A r \in Sessions \ {s} : turn'[r] = turn[r]
  BY <1>0 DEF Take, TypeOK
<1> HIDE DEF x
<1>4. Turns' = Turns /\ Tools' = Tools
  BY <1>2 DEF Turns, Tools
<1>5. Line(s) = history[s] /\ Line(s)' = Append(Line(s), x) /\ Groups(s)' = Groups(s)
  BY <1>2, <1>3, <1>4 DEF Line, Groups
<1>6. Owed(turn[s].at) = 0 /\ Owed(turn'[s].at) = 2
  BY <1>2, <1>3 DEF Owed
<1>7. InOrder(Append(Line(s), x), 2, stream[s], forest[s], ended)
  BY <1>0, <1>1, <1>6, LineTypes, LineGrows DEF Answering
<1>8. Saved(s)' /\ Paired(s, ended)'
  <2>1. Tried(s)' = Tried(s)
    BY <1>2, <1>3 DEF Tried
  <2> QED
    BY <1>2, <1>5, <2>1, SavedGoesOn DEF Answering, Paired
<1>9. Len(Append(Line(s), x)) > 0 /\ Append(Line(s), x)[Len(Append(Line(s), x))] = x
  BY <1>0, <1>1, LineTypes
<1>10. InOrder(Line(s), Owed(turn[s].at), stream[s], forest[s], ended)'
  BY <1>2, <1>5, <1>6, <1>7
<1>11. Answering(s, ended)'
  BY <1>3, <1>5, <1>8, <1>9, <1>10 DEF Answering
<1>12. OneSession'
  BY <1>0, <1>2, <1>3, <1>11, SessionGoesOn
<1>13. QuestionIsShown'
  BY <1>0, <1>2, <1>4, ShownGoesOn
<1> QED
  BY <1>12, <1>13

LEMMA CalmEmit ==
  ASSUME Calm, NEW s \in Sessions, EmitStart(s) \/ EmitEnd(s)
  PROVE  OneSession' /\ QuestionIsShown'
<1>0. TypeOK /\ OneSession /\ QuestionIsShown /\ s = active /\ s \notin cancelled
      /\ \E ended \in Seq(Inputs \cup {None}) : Answering(s, ended)
  BY OnlyOne DEF Calm, OnceInv, EmitStart, EmitEnd, Undisturbed
<1> PICK ended \in Seq(Inputs \cup {None}) : Answering(s, ended)
  BY <1>0
<1>1. UNCHANGED <<active, life, proc, to, input, forest, history, pump, group, disk>> /\ turn[s].at \in {"start", "end"}
  BY DEF EmitStart, EmitEnd, mgr, rest
<1> PICK kind \in {"start", "end"} : kind = turn[s].at
  BY <1>1
<1> DEFINE event == <<kind, turn[s].of>>
<1>2. stream' = [stream EXCEPT ![s] = Append(@, event)]
  BY <1>0 DEF EmitStart, EmitEnd, Emit
<1>3. stream'[s] = Append(stream[s], event) /\ \A r \in Sessions \ {s} : stream'[r] = stream[r]
  BY <1>0, <1>2 DEF TypeOK
<1>4. /\ \A r \in Sessions \ {s} : turn'[r] = turn[r]
      /\ kind = "start" => turn'[s].at = "run" /\ turn'[s].of = turn[s].of
      /\ kind = "end" => turn'[s].at = "idle"
  BY <1>0, <1>1, TurnType DEF EmitStart, EmitEnd, TypeOK, NoTurn
<1>5. Turns' = Turns /\ Tools' = Tools
  BY <1>1 DEF Turns, Tools
<1>6. Line(s)' = Line(s) /\ Groups(s)' = Groups(s)
  BY <1>1, <1>4, <1>5 DEF Line, Groups
<1>7. /\ Owed(turn[s].at) \in {1, 2} /\ Owed(turn'[s].at) = Owed(turn[s].at) - 1
      /\ kind = IF Owed(turn[s].at) = 2 THEN "start" ELSE "end"
  BY <1>1, <1>4 DEF Owed
<1>8. Len(Line(s)) > 0 /\ Line(s)[Len(Line(s))] = turn[s].of
  BY <1>0, <1>1 DEF Answering
<1>9. InOrder(Line(s), Owed(turn[s].at), stream[s], forest[s], ended)
  BY <1>0 DEF Answering
<1> HIDE DEF event
<1>10. InOrder(Line(s), Owed(turn[s].at) - 1, Append(stream[s], event), forest[s], ended)
  BY <1>0, <1>7, <1>8, <1>9, LineTypes, LineEmits DEF event
<1>11. InOrder(Line(s), Owed(turn[s].at), stream[s], forest[s], ended)'
  BY <1>1, <1>3, <1>6, <1>7, <1>10
<1>12. Saved(s)' /\ Paired(s, ended)'
  <2>1. Tried(s)' = Tried(s)
    BY <1>1, <1>4 DEF Tried
  <2> QED
    BY <1>1, <1>6, <2>1, SavedGoesOn DEF Answering, Paired
<1>13. turn'[s].at # "idle" => turn'[s].of = turn[s].of
  BY <1>1, <1>4
<1>14. Answering(s, ended)'
  BY <1>6, <1>8, <1>11, <1>12, <1>13 DEF Answering
<1>15. OneSession'
  BY <1>0, <1>1, <1>3, <1>4, <1>14, SessionGoesOn
<1>16. QuestionIsShown'
  BY <1>0, <1>1, <1>5, ShownGoesOn
<1> QED
  BY <1>15, <1>16

LEMMA CalmFinish ==
  ASSUME Calm, NEW s \in Sessions, Finish(s)
  PROVE  OneSession' /\ QuestionIsShown'
<1>0. TypeOK /\ OneSession /\ QuestionIsShown /\ s = active /\ \E ended \in Seq(Inputs \cup {None}) : Answering(s, ended)
  BY OnlyOne DEF Calm, OnceInv, Finish
<1> PICK ended \in Seq(Inputs \cup {None}) : Answering(s, ended)
  BY <1>0
<1>1. UNCHANGED <<active, life, proc, to, input, stream, forest, pump, group, disk>> /\ turn[s].at = "run"
  BY DEF Finish, mgr, rest
<1>2. /\ turn'[s].at = "save" /\ turn'[s].of = turn[s].of /\ \A r \in Sessions \ {s} : turn'[r] = turn[r]
      /\ history'[s] = Append(history[s], turn[s].of)
  BY <1>0, <1>1, TurnType DEF Finish, TypeOK
<1>3. Turns' = Turns /\ Tools' = Tools
  BY <1>1 DEF Turns, Tools
<1>4. Line(s)' = Line(s) /\ Groups(s)' = Groups(s) /\ Owed(turn'[s].at) = Owed(turn[s].at)
  BY <1>1, <1>2, <1>3 DEF Line, Groups, Owed
<1>5. InOrder(Line(s), Owed(turn[s].at), stream[s], forest[s], ended)'
  BY <1>0, <1>1, <1>4 DEF Answering
<1>6. Saved(s)' /\ Paired(s, ended)'
  <2>1. history[s] \in Seq(Inputs) /\ Len(history[s]) \in Nat /\ turn[s].of \in Inputs
    <3>1. history[s] \in Seq(Inputs)
      BY <1>0 DEF TypeOK
    <3>2. turn[s].of \in Inputs
      BY <1>0, <1>1, TurnType
    <3> QED
      BY <3>1, <3>2
  <2>2. Len(history'[s]) = Len(history[s]) + 1 /\ \A i \in 1..Len(history[s]) : history'[s][i] = history[s][i]
    BY <1>2, <2>1
  <2>3. Tried(s) = Len(history[s]) /\ Tried(s)' = Len(history[s])
    BY <1>1, <1>2, <2>1, <2>2 DEF Tried
  <2>4. Saved(s)'
    <3>1. Saved(s)
      BY DEF Answering
    <3>2. Len(Turns) \in Nat
      BY <1>0, LineTypes
    <3>3. \A i \in 1..Len(Turns) : Turns[i] = history'[s][i]
      BY <2>1, <2>2, <2>3, <3>1, <3>2 DEF Saved
    <3>4. {history'[s][i] : i \in 1..Len(history[s])} = {history[s][i] : i \in 1..Len(history[s])}
      BY <2>2
    <3> QED
      BY <1>1, <1>3, <2>3, <3>1, <3>3, <3>4 DEF Saved
  <2> QED
    BY <1>1, <1>4, <2>4 DEF Answering, Paired
<1>7. Len(Line(s)) > 0 /\ Line(s)[Len(Line(s))] = turn[s].of
  BY <1>0, <1>1 DEF Answering
<1>8. Answering(s, ended)'
  BY <1>2, <1>4, <1>5, <1>6, <1>7 DEF Answering
<1>9. OneSession'
  BY <1>0, <1>1, <1>2, <1>8, SessionGoesOn
<1>10. QuestionIsShown'
  BY <1>0, <1>1, <1>3, ShownGoesOn
<1> QED
  BY <1>9, <1>10

LEMMA CalmPersist ==
  ASSUME Calm, NEW s \in Sessions, Persist(s)
  PROVE  OneSession' /\ QuestionIsShown'
<1>0. TypeOK /\ OneSession /\ QuestionIsShown /\ s = active /\ \E ended \in Seq(Inputs \cup {None}) : Answering(s, ended)
  BY OnlyOne DEF Calm, OnceInv, Persist
<1> PICK ended \in Seq(Inputs \cup {None}) : Answering(s, ended)
  BY <1>0
<1>1. UNCHANGED <<active, life, proc, to, input, stream, forest, history, pump, group, groupless>> /\ turn[s].at = "save"
  BY DEF Persist, mgr
<1>2. turn'[s].at = "end" /\ turn'[s].of = turn[s].of /\ \A r \in Sessions \ {s} : turn'[r] = turn[r]
  BY <1>0, <1>1, TurnType DEF Persist, TypeOK
<1>3. history[s] \in Seq(Inputs) /\ Turns \in Seq(Inputs) /\ turn[s].of \in Inputs
  BY <1>0, <1>1, TurnType, TurnsType DEF TypeOK
<1>4. Line(s) = history[s] /\ Tried(s) = Len(history[s]) - 1 /\ Tried(s)' = Len(history[s]) /\ Len(history[s]) > 0
  BY <1>1, <1>2 DEF Answering, Line, Tried
<1>5. /\ Range(history[s]) = {history[s][i] : i \in 1..Len(history[s])}
      /\ {history[s][i] : i \in 1..Tried(s)} \subseteq Range(history[s])
  BY <1>3, <1>4 DEF Range
<1>6. Saved(s)
  BY DEF Answering
<1>7. /\ Tools' = Tools /\ Saved(s)'
      /\ Range(Turns) \cup unsaved \subseteq Range(Turns') \cup unsaved'
  <2>1. CASE /\ file' \in Record /\ file'.turns = history[s] /\ file'.tools = OnFile.tools
             /\ unsaved' = unsaved \ Range(history[s])
    <3>1. Turns' = history[s] /\ Tools' = Tools
      BY <2>1, ChatAssumption DEF Turns, Tools, OnFile, NewRecord
    <3>2. unsaved \subseteq Range(history[s])
      BY <1>5, <1>6 DEF Saved
    <3>3. unsaved' = {}
      BY <2>1, <3>2
    <3>4. Saved(s)'
      BY <1>1, <1>3, <1>4, <1>5, <3>1, <3>3 DEF Saved
    <3>5. Range(Turns) \subseteq Range(history[s])
      <4>1. Len(Turns) \in Nat /\ Len(history[s]) \in Nat /\ DOMAIN Turns = 1..Len(Turns) /\ DOMAIN history[s] = 1..Len(history[s])
        BY <1>3
      <4>2. \A i \in 1..Len(Turns) : i \in 1..Len(history[s]) /\ Turns[i] = history[s][i]
        BY <1>4, <1>6, <4>1 DEF Saved
      <4> QED
        BY <4>1, <4>2 DEF Range
    <3> QED
      BY <3>1, <3>2, <3>4, <3>5
  <2>2. CASE UNCHANGED file /\ unsaved' = unsaved \cup (Range(history[s]) \ Range(Turns))
    <3>1. Turns' = Turns /\ Tools' = Tools
      BY <2>2 DEF Turns, Tools
    <3>2. unsaved' = {history[s][i] : i \in 1..Len(history[s])} \ Range(Turns)
      BY <1>5, <1>6, <2>2 DEF Saved
    <3>3. Len(Turns) <= Len(history[s])
      BY <1>3, <1>4, <1>6 DEF Saved
    <3>4. Saved(s)'
      BY <1>1, <1>4, <1>6, <3>1, <3>2, <3>3 DEF Saved
    <3> QED
      BY <2>2, <3>1, <3>4
  <2> QED
    BY <1>0, <1>3, <2>1, <2>2, SaveType DEF Persist
<1>8. Line(s)' = Line(s) /\ Groups(s)' = Groups(s) /\ Owed(turn'[s].at) = Owed(turn[s].at)
  BY <1>1, <1>2, <1>7 DEF Line, Groups, Owed
<1>9. InOrder(Line(s), Owed(turn[s].at), stream[s], forest[s], ended)'
  BY <1>1, <1>8 DEF Answering
<1>10. Len(Line(s)) > 0 /\ Line(s)[Len(Line(s))] = turn[s].of
  BY <1>1 DEF Answering
<1>11. Answering(s, ended)'
  BY <1>1, <1>2, <1>7, <1>8, <1>9, <1>10 DEF Answering, Paired
<1>12. OneSession'
  BY <1>0, <1>1, <1>2, <1>11, SessionGoesOn
<1>13. QuestionIsShown'
  BY <1>0, <1>1, <1>7, ShownGoesOn
<1> QED
  BY <1>12, <1>13

LEMMA CalmObserve ==
  ASSUME Calm, NEW s \in Sessions, Observe(s)
  PROVE  OneSession' /\ QuestionIsShown'
<1>0. TypeOK /\ OneSession /\ QuestionIsShown /\ InOnePlace /\ s = active
      /\ \E ended \in Seq(Inputs \cup {None}) : Answering(s, ended)
  BY OnlyOne DEF Calm, OnceInv, Observe
<1> PICK ended \in Seq(Inputs \cup {None}) : Answering(s, ended)
  BY <1>0
<1>1. UNCHANGED <<active, life, proc, to, history, turn, disk>> /\ pump[s] = "drain" /\ stream[s] # <<>>
  BY DEF Observe
<1>2. stream'[s] = Tail(stream[s]) /\ \A r \in Sessions \ {s} : stream'[r] = stream[r]
  BY <1>0 DEF Observe, TypeOK
<1>3. Turns' = Turns /\ Tools' = Tools /\ Line(s)' = Line(s) /\ Groups(s) = Tools
  BY <1>1 DEF Turns, Tools, Line, Groups
<1>4. InOrder(Line(s), Owed(turn[s].at), stream[s], forest[s], ended) /\ Saved(s) /\ Paired(s, ended)
  BY DEF Answering
<1>7. Saved(s)'
  <2>1. Tried(s)' = Tried(s)
    BY <1>1 DEF Tried
  <2> QED
    BY <1>1, <1>4, <2>1, SavedGoesOn
<1>5. CASE Head(stream[s])[1] = "start"
  <2>1. UNCHANGED <<input, pump, group>> /\ forest' = [forest EXCEPT ![s] = Head(stream[s])[2]]
    BY <1>5 DEF Observe
  <2>2. forest'[s] = Head(stream[s])[2] /\ \A r \in Sessions \ {s} : forest'[r] = forest[r]
    BY <1>0, <2>1 DEF TypeOK
  <2>3. InOrder(Line(s), Owed(turn[s].at), Tail(stream[s]), Head(stream[s])[2], ended)
    BY <1>0, <1>1, <1>4, <1>5, LineTypes, LineStarts
  <2>4. Paired(s, ended)'
    BY <1>1, <1>3, <1>4, <2>1 DEF Groups, Paired
  <2>5. InOrder(Line(s), Owed(turn[s].at), stream[s], forest[s], ended)'
    BY <1>1, <1>2, <1>3, <2>2, <2>3
  <2>6. Answering(s, ended)'
    BY <1>1, <1>3, <1>7, <2>4, <2>5 DEF Answering
  <2>7. OneSession'
    BY <1>0, <1>1, <1>2, <2>2, <2>6, SessionGoesOn
  <2>8. QuestionIsShown'
    BY <1>0, <1>1, <1>3, <2>1, ShownGoesOn
  <2> QED
    BY <2>7, <2>8
<1>6. CASE Head(stream[s])[1] = "end"
  <2>1. /\ forest' = [forest EXCEPT ![s] = None] /\ group' = [group EXCEPT ![s] = forest[s]]
        /\ pump' = [pump EXCEPT ![s] = "flush"]
    BY <1>6 DEF Observe
  <2>2. /\ forest'[s] = None /\ group'[s] = forest[s] /\ pump'[s] = "flush"
        /\ \A r \in Sessions \ {s} : forest'[r] = forest[r]
    BY <1>0, <2>1 DEF TypeOK
  <2>3. /\ InOrder(Line(s), Owed(turn[s].at), Tail(stream[s]), None, Append(ended, forest[s]))
        /\ 2 * (Len(ended) + 1) + Owed(turn[s].at) <= 2 * Len(Line(s))
    BY <1>0, <1>1, <1>4, <1>6, LineTypes, LineEnds
  <2>9. forest[s] \in Inputs \cup {None} /\ Tools \in Seq(Inputs \cup {None})
    BY <1>0, LineTypes
  <2>10. Append(ended, forest[s]) \in Seq(Inputs \cup {None})
    BY <2>9
  <2> PICK more \in Seq(Inputs \cup {None}) : more = Append(ended, forest[s])
    BY <2>10, Zenon
  <2>4. Paired(s, more)'
    <3>1. Groups(s)' = Append(Tools, forest[s])
      BY <1>3, <2>2 DEF Groups
    <3>2. Range(Append(Tools, forest[s])) = Range(Tools) \cup {forest[s]}
      BY <2>9, AppendRange
    <3>3. Range(more) = Range(ended) \cup {forest[s]}
      BY <2>9, AppendRange
    <3> QED
      BY <1>1, <1>3, <1>4, <3>1, <3>2, <3>3 DEF Paired
  <2>5. InOrder(Line(s), Owed(turn[s].at), stream[s], forest[s], more)'
    BY <1>1, <1>2, <1>3, <2>2, <2>3
  <2>6. Answering(s, more)'
    BY <1>1, <1>3, <1>7, <2>4, <2>5 DEF Answering
  <2>7. OneSession'
    BY <1>0, <1>1, <1>2, <2>2, <2>6, SessionGoesOn
  <2>8. QuestionIsShown'
    <3> SUFFICES ASSUME NEW y \in Inputs \ Wakes, \A z \in Inputs \ {y} : proc[z] = "new"
                 PROVE  y \in Range(Turns) \cup unsaved
      BY <1>1, <1>3 DEF QuestionIsShown
    <3>1. Len(ended) \in Nat /\ history[s] \in Seq(Inputs) /\ Len(history[s]) \in Nat
      <4>1. history[s] \in Seq(Inputs)
        BY <1>0, LineTypes
      <4> QED
        BY <4>1
    <3>2. Len(ended) + 1 <= Tried(s) /\ Tried(s) \in Int /\ Tried(s) <= Len(history[s])
      <4>1. Len(ended) + 1 \in Nat
        BY <3>1
      <4>2. Len(ended) + 1 <= Tried(s)
        BY <1>0, <2>3, <4>1, EndedWasTried
      <4> QED
        BY <3>1, <4>2 DEF Tried
    <3>3. 1 \in 1..Tried(s) /\ 1 \in DOMAIN history[s] /\ history[s][1] \in Inputs
      BY <3>1, <3>2
    <3> PICK x \in Inputs : x = history[s][1]
      BY <3>3
    <3>4. x \in Range(history[s])
      BY <3>3 DEF Range
    <3>5. proc[x] = "queued"
      BY <1>0, <3>4 DEF InOnePlace, Answered
    <3>6. x \in Range(Turns) \cup unsaved
      BY <1>4, <3>3, TriedIsNamed
    <3> QED
      BY <3>5, <3>6
  <2> QED
    BY <2>7, <2>8
<1> QED
  BY <1>5, <1>6 DEF Observe

LEMMA CalmFlush ==
  ASSUME Calm, NEW s \in Sessions, Flush(s)
  PROVE  OneSession' /\ QuestionIsShown'
<1>0. TypeOK /\ OneSession /\ QuestionIsShown /\ s = active /\ \E ended \in Seq(Inputs \cup {None}) : Answering(s, ended)
  BY OnlyOne DEF Calm, OnceInv, Flush
<1> PICK ended \in Seq(Inputs \cup {None}) : Answering(s, ended)
  BY <1>0
<1>1. UNCHANGED <<active, life, proc, to, input, stream, forest, history, turn, unsaved>> /\ pump[s] = "flush"
  BY DEF Flush, mgr, sess
<1>2. pump'[s] = "drain" /\ AppendTools(group[s])
  BY <1>0 DEF Flush, TypeOK
<1>3. Groups(s) = Append(Tools, group[s]) /\ Range(Groups(s)) = Range(Tools) \cup {group[s]}
  <2>1. Tools \in Seq(Inputs \cup {None}) /\ group[s] \in Inputs \cup {None}
    BY <1>0, LineTypes DEF TypeOK
  <2>2. Groups(s) = Append(Tools, group[s])
    BY <1>1 DEF Groups
  <2> QED
    BY <2>1, <2>2, AppendRange
<1>4. Saved(s) /\ Paired(s, ended) /\ InOrder(Line(s), Owed(turn[s].at), stream[s], forest[s], ended)
  BY DEF Answering
<1>5. group[s] # None
  <2>1. Len(ended) \in Nat /\ history[s] \in Seq(Inputs) /\ Len(history[s]) \in Nat /\ DOMAIN ended = 1..Len(ended)
    <3>1. history[s] \in Seq(Inputs)
      BY <1>0, LineTypes
    <3> QED
      BY <3>1
  <2>2. Len(ended) <= Tried(s) /\ \A i \in 1..Len(ended) : ended[i] = history[s][i]
    BY <1>0, EndedIsKnown
  <2>3. Tried(s) <= Len(history[s]) /\ Tried(s) \in Int
    BY <2>1 DEF Tried
  <2>4. \A i \in 1..Len(ended) : ended[i] \in Inputs
    BY <2>1, <2>2, <2>3
  <2>5. group[s] \in Range(ended)
    BY <1>3, <1>4 DEF Paired
  <2> QED
    BY <2>1, <2>4, <2>5, ChatAssumption DEF Range
<1>6. Turns' = Turns /\ Paired(s, ended)'
  <2>1. CASE /\ file # None /\ file' # None /\ UNCHANGED groupless
             /\ file'.turns = file.turns /\ file'.tools = Append(file.tools, group[s])
    <3>1. Turns' = Turns /\ Tools' = Append(Tools, group[s])
      BY <2>1 DEF Turns, Tools
    <3>2. Groups(s)' = Groups(s)
      BY <1>2, <1>3, <3>1 DEF Groups
    <3> QED
      BY <1>4, <2>1, <3>1, <3>2 DEF Paired
  <2>2. CASE UNCHANGED file /\ groupless' = groupless \cup ({group[s]} \ {None})
    <3>1. Turns' = Turns /\ Tools' = Tools
      BY <2>2 DEF Turns, Tools
    <3>2. Groups(s)' = Tools
      BY <1>2, <3>1 DEF Groups
    <3>3. groupless' = groupless \cup {group[s]}
      BY <1>5, <2>2
    <3> QED
      BY <1>3, <1>4, <3>1, <3>2, <3>3 DEF Paired
  <2>3. group[s] \in Inputs \cup {None}
    BY <1>0 DEF TypeOK
  <2> QED
    BY <1>0, <1>2, <2>1, <2>2, <2>3, AppendToolsType
<1>7. Saved(s)'
  <2>1. Tried(s)' = Tried(s)
    BY <1>1 DEF Tried
  <2> QED
    BY <1>1, <1>4, <1>6, <2>1 DEF Saved
<1>8. Line(s)' = Line(s)
  BY <1>1 DEF Line
<1>9. Answering(s, ended)'
  BY <1>1, <1>6, <1>7, <1>8 DEF Answering
<1>10. OneSession'
  BY <1>0, <1>1, <1>9, SessionGoesOn
<1>11. QuestionIsShown'
  BY <1>0, <1>1, <1>6, ShownGoesOn
<1> QED
  BY <1>10, <1>11

LEMMA CalmStep ==
  ASSUME OnceInv, ShutdownInv, CalmInv, [ChatNext]_chatVars PROVE CalmInv'
<1> SUFFICES ASSUME calm' PROVE Undisturbed' /\ OneSession' /\ QuestionIsShown'
  BY DEF CalmInv
<1>1. CASE UNCHANGED chatVars
  <2>1. calm /\ UNCHANGED vars
    BY <1>1 DEF chatVars
  <2>2. ASSUME NEW s \in Sessions, NEW ended \in Seq(Inputs \cup {None}) PROVE Answering(s, ended)' = Answering(s, ended)
    BY <2>1 DEF vars, mgr, sess, rest, Answering, Saved, Paired, Tried, Line, Groups, Tools, Turns
  <2> QED
    BY <2>1, <2>2 DEF CalmInv, vars, mgr, sess, rest, Undisturbed, OneSession, QuestionIsShown, Turns
<1>2. CASE ChatNext
  <2>0. /\ calm /\ Next /\ Calm
        /\ aged' = {} /\ deleter' = "idle" /\ shut' = "open"
    BY <1>2 DEF ChatNext, CalmInv, Calm
  <2>1. Undisturbed /\ active \notin {"idle"} /\ \A s \in Sessions : ~Age(s) /\ ~Reap(s) /\ ~Close(s) /\ ~Leave(s)
    BY <2>0, ChatAssumption DEF Calm, Undisturbed, Age, Reap, Close, Leave, OnceInv, TypeOK
  <2>2. ~DeleteTake /\ ~DeleteFile /\ ~CloseAll /\ ~CloseAllReturns /\ \A x \in Inputs : ~Refused(x)
    BY <2>0, <2>1 DEF Undisturbed, DeleteTake, DeleteFile, CloseAll, CloseAllReturns, Refused
  <2>3. \A s \in Sessions : ~Exit(s)
    BY <2>0, OnlyOne DEF Exit
  <2>4. dead' = {} /\ cancelled' = {}
    <3>1. UNCHANGED <<dead, cancelled>>
      BY <2>0, <2>1, <2>2, <2>3 DEF Next, Loop, Pump, Submit, Touch, Send, Take, EmitStart, Finish, Persist,
         EmitEnd, Observe, Flush, mgr, sess
    <3> QED
      BY <2>1, <3>1 DEF Undisturbed
  <2>5. OneSession' /\ QuestionIsShown'
    BY <2>0, <2>1, <2>2, <2>3, CalmSubmit, CalmCaller, CalmTake, CalmEmit, CalmFinish, CalmPersist,
       CalmObserve, CalmFlush DEF Next, Loop, Pump
  <2> QED
    BY <2>0, <2>4, <2>5 DEF Undisturbed
<1> QED
  BY <1>1, <1>2

LEMMA CalmBegins == ASSUME ChatInit PROVE CalmInv
<1>1. Undisturbed /\ QuestionIsShown
  BY DEF ChatInit, Init, Undisturbed, QuestionIsShown
<1>2. OneSession
  BY ChatAssumption DEF ChatInit, Init, OneSession, NoTurn
<1> QED
  BY <1>1, <1>2 DEF CalmInv

LEMMA PrefixFrom ==
  ASSUME NEW S, NEW p \in Seq(S), NEW q \in Seq(S), Len(p) <= Len(q), \A i \in 1..Len(p) : p[i] = q[i]
  PROVE  IsPrefix(p, q)
<1>1. SubSeq(p, 1, Len(p)) = SubSeq(q, 1, Len(p))
  OBVIOUS
<1> QED
  BY <1>1 DEF IsPrefix

LEMMA CalmIsWhole == ASSUME OnceInv, ShutdownInv, CalmInv, calm PROVE ToolsFollowTurns
<1>0. TypeOK /\ OneSession /\ NoRepeats
  BY DEF OnceInv, CalmInv
<1>1. Tools \in Seq(Inputs \cup {None}) /\ Turns \in Seq(Inputs) /\ Turns \in Seq(Inputs \cup {None})
  <2>1. Tools \in Seq(Inputs \cup {None})
    BY <1>0 DEF TypeOK, Tools, Record
  <2> QED
    BY <1>0, <2>1, TurnsType
<1>2. CASE active = None
  <2>1. file = None /\ \A s \in Sessions : life[s] = "unborn"
    BY <1>0, <1>2, ChatAssumption DEF OneSession
  <2>2. Tools = <<>>
    BY <2>1 DEF Tools
  <2> QED
    BY <1>1, <2>1, <2>2, EmptyPrefix DEF ToolsFollowTurns
<1>3. CASE active # None
  <2> PICK s \in Sessions : s = active
    BY <1>0, <1>3 DEF TypeOK
  <2>1. \A r \in Sessions : life[r] = "live" => r = s
    BY <1>0 DEF OneSession
  <2> PICK ended \in Seq(Inputs \cup {None}) : Answering(s, ended)
    BY <1>0 DEF OneSession
  <2>2. /\ Saved(s) /\ Paired(s, ended)
        /\ Len(ended) <= Tried(s) /\ \A i \in 1..Len(ended) : ended[i] = history[s][i]
    BY <1>0, EndedIsKnown DEF Answering
  <2>3. /\ history[s] \in Seq(Inputs) /\ Len(history[s]) \in Nat /\ DOMAIN history[s] = 1..Len(history[s])
        /\ Len(Turns) \in Nat /\ Len(Tools) \in Nat /\ Len(ended) \in Nat /\ Len(Groups(s)) \in Nat
    BY <1>0, <1>1, LineTypes
  <2>4. Tried(s) \in Int /\ Tried(s) <= Len(history[s])
    BY <2>3 DEF Tried
  <2>5. IsPrefix(Turns, history[s])
    BY <1>1, <2>2, <2>3, <2>4, PrefixFrom DEF Saved
  <2>6. ASSUME unsaved = {} PROVE Tried(s) <= Len(Turns)
    <3> SUFFICES ASSUME Tried(s) > Len(Turns) PROVE FALSE
      BY <2>3, <2>4
    <3> DEFINE k == Len(Turns) + 1
    <3>1. k \in 1..Tried(s) /\ k \in 1..Len(history[s]) /\ k \notin 1..Len(Turns)
      <4>1. k = Len(Turns) + 1 /\ Len(Turns) \in Nat /\ Tried(s) \in Int /\ Len(history[s]) \in Nat
            /\ Len(Turns) < Tried(s) /\ Tried(s) <= Len(history[s])
        BY <2>3, <2>4
      <4> PICK m \in Nat : m = Len(Turns)
        BY <4>1
      <4> HIDE DEF k
      <4>2. k = m + 1 /\ k <= Tried(s) /\ k <= Len(history[s])
        BY <4>1
      <4> QED
        BY <4>1, <4>2
    <3>2. history[s][k] \in Range(Turns)
      BY <2>2, <2>6, <3>1, TriedIsNamed
    <3>6. DOMAIN Turns = 1..Len(Turns)
      BY <1>1
    <3> HIDE DEF k
    <3>3. PICK i \in 1..Len(Turns) : history[s][k] = Turns[i]
      BY <3>2, <3>6, Zenon DEF Range
    <3>4. Turns[i] = history[s][i] /\ i \in 1..Len(history[s])
      BY <2>2, <2>3, <2>4 DEF Saved
    <3>5. i = k
      BY <1>0, <2>3, <3>1, <3>3, <3>4 DEF NoRepeats, IsInjective
    <3> QED
      BY <3>1, <3>5
  <2>7. ASSUME unsaved = {}, groupless = {} PROVE IsPrefix(Tools, Turns)
    <3>1. Groups(s) = ended
      BY <2>2, <2>7 DEF Paired
    <3>2. Len(Tools) <= Len(Groups(s)) /\ \A i \in 1..Len(Tools) : Tools[i] = Groups(s)[i]
      BY <1>1 DEF Groups
    <3>3. Len(Tools) <= Len(Turns)
      BY <2>2, <2>3, <2>4, <2>6, <2>7, <3>1, <3>2
    <3>4. ASSUME NEW i \in 1..Len(Tools) PROVE Tools[i] = Turns[i]
      <4>1. Tools[i] = ended[i] /\ i \in 1..Len(ended) /\ i \in 1..Len(Turns)
        BY <2>3, <3>1, <3>2, <3>3
      <4> QED
        BY <2>2, <4>1 DEF Saved
    <3> QED
      BY <1>1, <3>3, <3>4, PrefixFrom
  <2>8. ASSUME AtRest(s)
        PROVE  /\ Range(Turns) = Range(history[s]) \ unsaved
               /\ Range(history[s]) = Range(Tools) \cup groupless
               /\ groupless = {} => Tools = history[s]
    <3>1. Groups(s) = Tools /\ Line(s) = history[s] /\ Owed(turn[s].at) = 0 /\ Tried(s) = Len(history[s])
      BY <2>8 DEF AtRest, Groups, Line, Owed, Tried
    <3>2. Len(ended) = Len(history[s])
      <4>1. 2 * Len(ended) + Half(forest[s]) + 0 + 0 = 2 * Len(history[s])
        BY <2>8, <3>1 DEF Answering, InOrder, AtRest
      <4>2. Half(forest[s]) \in {0, 1}
        BY DEF Half
      <4> QED
        BY <2>3, <4>1, <4>2
    <3>3. ended = history[s]
      <4>1. ended \in Seq(Inputs \cup {None}) /\ history[s] \in Seq(Inputs \cup {None})
        BY <2>3
      <4>2. \A i \in 1..Len(ended) : ended[i] = history[s][i]
        BY <2>2
      <4> QED
        BY <3>2, <4>1, <4>2
    <3>4. Range(history[s]) = {history[s][i] : i \in 1..Len(history[s])}
      BY <2>3 DEF Range
    <3>5. Range(Turns) \subseteq Range(history[s])
      <4>1. DOMAIN Turns = 1..Len(Turns) /\ \A i \in 1..Len(Turns) : i \in 1..Len(history[s]) /\ Turns[i] = history[s][i]
        BY <1>1, <2>2, <2>3, <2>4 DEF Saved
      <4> QED
        BY <2>3, <4>1 DEF Range
    <3>6. unsaved = Range(history[s]) \ Range(Turns)
      BY <2>2, <3>1, <3>4 DEF Saved
    <3> QED
      BY <2>2, <3>1, <3>3, <3>5, <3>6 DEF Paired
  <2> QED
    BY <2>1, <2>5, <2>7, <2>8 DEF ToolsFollowTurns
<1> QED
  BY <1>2, <1>3

\* In a chat whose session nothing closes, the tool groups of the file follow its turns one
\* for one, and a lone message is in the transcript or shown in flight from Submit to the end
\* of its turn: for any number of messages and any capacities of the queues between them.
THEOREM CalmAlwaysWhole == ChatSpec => []CalmChatIsWhole
<1>1. ChatInit => OnceInv /\ ShutdownInv /\ CalmInv
  BY OnceInit, ShutdownInit, CalmBegins DEF ChatInit
<1>2. OnceInv /\ ShutdownInv /\ CalmInv /\ [ChatNext]_chatVars => OnceInv' /\ ShutdownInv' /\ CalmInv'
  <2>1. [ChatNext]_chatVars => [Next]_vars
    BY DEF ChatNext, chatVars
  <2> QED
    BY <2>1, OnceStep, ShutdownStep, CalmStep
<1>3. OnceInv /\ ShutdownInv /\ CalmInv => CalmChatIsWhole
  BY CalmIsWhole DEF CalmInv, CalmChatIsWhole
<1> QED
  BY <1>1, <1>2, <1>3, PTL DEF ChatSpec
=============================================================================
