----------------------------- MODULE GrantStore -----------------------------
(***************************************************************************)
(* The workspace's file-backed grants (internal/workspace/grantstore.go)   *)
(* over the in-memory set they wrap (agentkit/gate/grant.go).  Remember and *)
(* Forget change the in-memory set under its own lock and the durable set   *)
(* under another, so two calls may interleave between the halves.  The     *)
(* file is written to a temporary name and renamed while the second lock is *)
(* held; a crash before the rename leaves the old file, which is a crash   *)
(* before the locked half, so that half is one step.                       *)
(***************************************************************************)
EXTENDS Naturals, FiniteSets

CONSTANTS Workers,    \* goroutines that call Remember and Forget
          Grants,     \* (Kind, Target) patterns
          WritesFail  \* whether writing the file may fail

ASSUME GrantStoreAssumption == WritesFail \in BOOLEAN

\* gate.Recall, in its load-bearing order.
RecallNever   == 0
RecallSession == 1
RecallAlways  == 2
Recalls       == {RecallNever, RecallSession, RecallAlways}

VARIABLES
  mem,      \* MemGrants.set: what is allowed right now
  durable,  \* grantStore.durable
  file,     \* grants.json
  job,      \* the call each worker has half finished
  kept,     \* history: the grants somebody asked to keep for good
  revoked,  \* history: the grants forgotten, and not granted again since
  failed    \* history: whether a write has failed

storeVars == <<mem, durable, file, job, kept, revoked, failed>>

Idle == [op |-> "idle"]
Jobs == {Idle} \cup [op : {"remember"}, grant : Grants]
               \cup [op : {"forget"}, grant : Grants, alone : BOOLEAN]

TypeOK ==
  /\ mem \subseteq Grants
  /\ durable \subseteq Grants
  /\ file \subseteq Grants
  /\ job \in [Workers -> Jobs]
  /\ kept \subseteq Grants
  /\ revoked \subseteq Grants
  /\ failed \in BOOLEAN

\* newGrantStore on a missing file: nothing is granted.
Init ==
  /\ mem = {}
  /\ durable = {}
  /\ file = {}
  /\ job = [w \in Workers |-> Idle]
  /\ kept = {}
  /\ revoked = {}
  /\ failed = FALSE

\* write: the durable set replaces the file's, or the write fails and the old
\* file stays.
Write(set) ==
  \/ file' = set /\ UNCHANGED failed
  \/ WritesFail /\ failed' = TRUE /\ UNCHANGED file

Remembering(g) == \E w \in Workers : job[w] = [op |-> "remember", grant |-> g]

\* The forgets of g under way when g is granted again: no longer alone.
Disturb(j, g) ==
  [w \in Workers |-> IF j[w].op = "forget" /\ j[w].grant = g
                       THEN [j[w] EXCEPT !.alone = FALSE] ELSE j[w]]

\* Remember, first half: the in-memory set.  A session grant ends here.
StartRemember(w, g, recall) ==
  /\ job[w] = Idle
  /\ mem' = mem \cup {g}
  /\ revoked' = revoked \ {g}
  /\ IF recall = RecallAlways
       THEN /\ job' = [Disturb(job, g) EXCEPT ![w] = [op |-> "remember", grant |-> g]]
            /\ kept' = kept \cup {g}
       ELSE /\ job' = Disturb(job, g)
            /\ UNCHANGED kept
  /\ UNCHANGED <<durable, file, failed>>

\* Remember, second half: the durable set and its file, unless it is there.
FinishRemember(w) ==
  /\ job[w].op = "remember"
  /\ job' = [job EXCEPT ![w] = Idle]
  /\ IF job[w].grant \in durable
       THEN UNCHANGED <<durable, file, failed>>
       ELSE /\ durable' = durable \cup {job[w].grant}
            /\ Write(durable')
  /\ UNCHANGED <<mem, kept, revoked>>

\* Forget, first half.
StartForget(w, g) ==
  /\ job[w] = Idle
  /\ mem' = mem \ {g}
  /\ job' = [job EXCEPT ![w] = [op |-> "forget", grant |-> g, alone |-> ~Remembering(g)]]
  /\ UNCHANGED <<durable, file, kept, revoked, failed>>

\* Fault: a revocation is not written back.
FinishForgetUnwritten(w) ==
  /\ job[w].op = "forget"
  /\ job' = [job EXCEPT ![w] = Idle]
  /\ durable' = durable \ {job[w].grant}
  /\ revoked' = IF job[w].alone THEN revoked \cup {job[w].grant} ELSE revoked
  /\ UNCHANGED <<mem, file, kept, failed>>

\* Forget, second half: the durable set and its file, if the grant was in it.
FinishForget(w) ==
  /\ job[w].op = "forget"
  /\ job' = [job EXCEPT ![w] = Idle]
  /\ IF job[w].grant \in durable
       THEN /\ durable' = durable \ {job[w].grant}
            /\ Write(durable')
       ELSE UNCHANGED <<durable, file, failed>>
  /\ revoked' = IF job[w].alone THEN revoked \cup {job[w].grant} ELSE revoked
  /\ UNCHANGED <<mem, kept>>

\* The daemon stops, at any moment, and newGrantStore reads the file again.
Restart ==
  /\ mem' = file
  /\ durable' = file
  /\ job' = [w \in Workers |-> Idle]
  /\ UNCHANGED <<file, kept, revoked, failed>>

Next ==
  \/ \E w \in Workers, g \in Grants :
       \/ \E recall \in {RecallSession, RecallAlways} : StartRemember(w, g, recall)
       \/ StartForget(w, g)
  \/ \E w \in Workers : FinishRemember(w) \/ FinishForget(w)
  \/ Restart

Spec == Init /\ [][Next]_storeVars

-----------------------------------------------------------------------------
\* An approval for the session never survives a restart: every grant in the
\* file is one that somebody asked to keep for good.
SessionGrantsEnd == file \subseteq kept

\* "it does not come back at the next start" (Forget): while every write has
\* succeeded, a revocation that raced no approval of the same grant holds, in
\* memory and in the file, until the grant is given again, through any crash.
RevocationHolds == failed \/ revoked \cap (mem \cup durable \cup file) = {}

\* A grant ends when it should, the one with its session, the other when it is revoked.
GrantsEnd == SessionGrantsEnd /\ RevocationHolds
=============================================================================
