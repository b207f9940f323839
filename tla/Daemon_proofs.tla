----------------------------- MODULE Daemon_proofs ----------------------------
(*****************************************************************************)
(* Proofs about the parts of the daemon that share no state: the kept mail   *)
(* connection, the workspaces, the runs of a turn and their clock, the devices*)
(* of the household, the document index and the catalog.                     *)
(*****************************************************************************)
EXTENDS Mailbox, Registry, RunTree, TurnClock, Household, Knowledge, Library, FiniteSetTheorems, SequenceTheorems, TLAPS

-----------------------------------------------------------------------------
(*****************************************************************************)
(* The kept IMAP connection.                                                 *)
(*****************************************************************************)

(* One operation at a time holds mu: it has a connection, and until it     *)
(* returns the generation stands where it was taken into use.  A           *)
(* connection nobody holds has been used before its timer was armed.       *)
OneOperation == \A r, s \in Readers : mailCall[r] # Resting /\ mailCall[s] # Resting => r = s
HeldByTheOperation ==
    \A r \in Readers : mailCall[r] # Resting =>
        mailConn # 0 /\ ~mailClosed /\ mailGen < MaxArms /\ mailUsed = mailGen
RestsSinceItsUse == MuIsFree /\ mailConn # 0 => mailUsed < mailGen
MailInv ==
    /\ MailTypeOK /\ OneOperation /\ HeldByTheOperation /\ RestsSinceItsUse
    /\ KeptIsWatched /\ OneSession /\ ReadsItsFolder

LEMMA MailCallFacts ==
  ASSUME MailTypeOK, NEW r \in Readers
  PROVE  /\ mailCall[r].at \in Running <=> mailCall[r] # Resting
         /\ mailCall[r] # Resting => mailCall[r] \in [at : Running, folder : Folders, selected : BOOLEAN]
BY DEF MailTypeOK, Resting, Running

LEMMA MailTypeStep == ASSUME MailInv, MailNext PROVE MailTypeOK'
<1> USE MailAssumption DEF MailInv
<1>1. ASSUME NEW r \in Readers, NEW f \in Folders, UseKept(r, f) PROVE MailTypeOK'
  BY <1>1 DEF UseKept, MailTypeOK, Running
<1>2. ASSUME NEW r \in Readers, NEW f \in Folders, UseFresh(r, f) PROVE MailTypeOK'
  BY <1>2 DEF UseFresh, MailTypeOK, Running
<1>3. ASSUME NEW r \in Readers, Select(r) PROVE MailTypeOK'
  BY <1>3, MailCallFacts DEF Select, MailTypeOK
<1>4. ASSUME NEW r \in Readers, Finish(r) PROVE MailTypeOK'
  BY <1>4, MailCallFacts DEF Finish, Arm, Release, MailTypeOK, HeldByTheOperation
<1>5. ASSUME NEW r \in Readers, FailFresh(r) PROVE MailTypeOK'
  BY <1>5 DEF FailFresh, Drop, Arm, Release, MailTypeOK
<1>6. ASSUME NEW r \in Readers, Redial(r) PROVE MailTypeOK'
  <2>1. mailCall[r] # Resting
    BY <1>6 DEF Redial, Resting
  <2>2. mailCall' \in [Readers -> {Resting} \cup [at : Running, folder : Folders, selected : BOOLEAN]]
    BY <1>6, <2>1, MailCallFacts DEF Redial, MailTypeOK, Running
  <2> QED
    BY <1>6, <2>2 DEF Redial, MailTypeOK
<1>7. ASSUME NEW r \in Readers, RedialFails(r) PROVE MailTypeOK'
  BY <1>7 DEF RedialFails, Drop, Release, MailTypeOK
<1>8. ASSUME TimerFires PROVE MailTypeOK'
  BY <1>8 DEF TimerFires, MailTypeOK
<1>9. ASSUME NEW g \in mailFired, Reap(g) PROVE MailTypeOK'
  <2>1. CASE g = mailGen
    <3>1. mailOpen' \subseteq mailOpen /\ mailFired' \subseteq mailFired /\ mailConn' = 0
      BY <1>9, <2>1 DEF Reap, Drop
    <3> QED
      BY <1>9, <3>1 DEF Reap, MailTypeOK
  <2>2. CASE g # mailGen
    BY <1>9, <2>2 DEF Reap, MailTypeOK
  <2> QED
    BY <2>1, <2>2
<1>10. ASSUME CloseMailbox PROVE MailTypeOK'
  BY <1>10 DEF CloseMailbox, Drop, MailTypeOK
<1> QED
  BY <1>1, <1>2, <1>3, <1>4, <1>5, <1>6, <1>7, <1>8, <1>9, <1>10 DEF MailNext, Operation

LEMMA MailHoldStep == ASSUME MailInv, MailNext PROVE (OneOperation /\ HeldByTheOperation /\ RestsSinceItsUse)'
<1> DEFINE Apart == OneOperation /\ HeldByTheOperation /\ RestsSinceItsUse
<1> USE DEF MailInv
<1>1. ASSUME NEW r \in Readers, NEW f \in Folders, UseKept(r, f) PROVE Apart'
  BY <1>1 DEF UseKept, MuIsFree, OneOperation, HeldByTheOperation, RestsSinceItsUse, MailTypeOK, Resting
<1>2. ASSUME NEW r \in Readers, NEW f \in Folders, UseFresh(r, f) PROVE Apart'
  <2>1. /\ mailCall'[r] # Resting /\ mailConn' # 0 /\ ~mailClosed' /\ mailGen' < MaxArms /\ mailUsed' = mailGen'
        /\ \A s \in Readers : s # r => mailCall'[s] = Resting
    BY <1>2 DEF UseFresh, MuIsFree, MailTypeOK, Resting
  <2> QED
    BY <2>1 DEF MuIsFree, OneOperation, HeldByTheOperation, RestsSinceItsUse
<1>3. ASSUME NEW r \in Readers, Select(r) PROVE Apart'
  <2>1. mailCall'[r] # Resting
    BY <1>3, MailCallFacts DEF Select, MailTypeOK, Resting
  <2> QED
    BY <1>3, <2>1, MailCallFacts DEF Select, MuIsFree, OneOperation, HeldByTheOperation, RestsSinceItsUse, MailTypeOK
<1>4. ASSUME NEW r \in Readers, Finish(r) PROVE Apart'
  BY <1>4, MailCallFacts DEF Finish, Arm, Release, MuIsFree, OneOperation, HeldByTheOperation, RestsSinceItsUse, MailTypeOK
<1>5. ASSUME NEW r \in Readers, FailFresh(r) PROVE Apart'
  BY <1>5, MailCallFacts DEF FailFresh, Drop, Arm, Release, Running, MuIsFree, OneOperation, HeldByTheOperation, RestsSinceItsUse, MailTypeOK
<1>6. ASSUME NEW r \in Readers, Redial(r) PROVE Apart'
  <2>1. mailCall'[r] # Resting
    BY <1>6, MailCallFacts DEF Redial, MailTypeOK, Resting, Running
  <2>2. /\ mailCall[r] # Resting /\ mailConn' # 0 /\ UNCHANGED <<mailClosed, mailGen, mailUsed>>
        /\ \A s \in Readers : s # r => mailCall'[s] = mailCall[s]
    BY <1>6 DEF Redial, MailTypeOK, Resting
  <2> QED
    BY <2>1, <2>2 DEF MuIsFree, OneOperation, HeldByTheOperation, RestsSinceItsUse
<1>7. ASSUME NEW r \in Readers, RedialFails(r) PROVE Apart'
  BY <1>7, MailCallFacts DEF RedialFails, Drop, Release, Running, MuIsFree, OneOperation, HeldByTheOperation, RestsSinceItsUse, MailTypeOK
<1>8. ASSUME TimerFires PROVE Apart'
  BY <1>8 DEF TimerFires, MuIsFree, OneOperation, HeldByTheOperation, RestsSinceItsUse
<1>9. ASSUME NEW g \in mailFired, Reap(g) PROVE Apart'
  BY <1>9 DEF Reap, Drop, MuIsFree, OneOperation, HeldByTheOperation, RestsSinceItsUse
<1>10. ASSUME CloseMailbox PROVE Apart'
  BY <1>10 DEF CloseMailbox, Drop, MuIsFree, OneOperation, HeldByTheOperation, RestsSinceItsUse
<1> QED
  BY <1>1, <1>2, <1>3, <1>4, <1>5, <1>6, <1>7, <1>8, <1>9, <1>10 DEF MailNext, Operation

LEMMA MailSessionStep == ASSUME MailInv, MailNext PROVE (KeptIsWatched /\ OneSession)'
<1> DEFINE Sound == KeptIsWatched /\ OneSession
<1> USE DEF MailInv
<1>1. ASSUME NEW r \in Readers, NEW f \in Folders, UseKept(r, f) PROVE Sound'
  BY <1>1 DEF UseKept, MuIsFree, KeptIsWatched, OneSession, MailTypeOK, Resting
<1>2. ASSUME NEW r \in Readers, NEW f \in Folders, UseFresh(r, f) PROVE Sound'
  BY <1>2 DEF UseFresh, MuIsFree, KeptIsWatched, OneSession, MailTypeOK, Resting
<1>3. ASSUME NEW r \in Readers, Select(r) PROVE Sound'
  <2>1. mailCall'[r] # Resting
    BY <1>3, MailCallFacts DEF Select, MailTypeOK, Resting
  <2> QED
    BY <1>3, <2>1 DEF Select, MuIsFree, KeptIsWatched, OneSession
<1>4. ASSUME NEW r \in Readers, Finish(r) PROVE Sound'
  BY <1>4, MailCallFacts DEF Finish, Arm, KeptIsWatched, OneSession, HeldByTheOperation
<1>5. ASSUME NEW r \in Readers, FailFresh(r) PROVE Sound'
  BY <1>5 DEF FailFresh, Drop, KeptIsWatched, OneSession
<1>6. ASSUME NEW r \in Readers, Redial(r) PROVE Sound'
  <2>1. mailCall'[r] # Resting /\ ~mailClosed
    BY <1>6, MailCallFacts DEF Redial, MailTypeOK, Resting, Running, HeldByTheOperation
  <2> QED
    <3>1. mailOpen' = {mailConn'} \ {0}
      BY <1>6 DEF Redial, OneSession, MailTypeOK
    <3> QED
      BY <1>6, <2>1, <3>1 DEF Redial, MuIsFree, KeptIsWatched, OneSession
<1>7. ASSUME NEW r \in Readers, RedialFails(r) PROVE Sound'
  BY <1>7 DEF RedialFails, Drop, KeptIsWatched, OneSession
<1>8. ASSUME TimerFires PROVE Sound'
  BY <1>8 DEF TimerFires, MuIsFree, KeptIsWatched, OneSession
<1>9. ASSUME NEW g \in mailFired, Reap(g) PROVE Sound'
  BY <1>9 DEF Reap, Drop, MuIsFree, KeptIsWatched, OneSession
<1>10. ASSUME CloseMailbox PROVE Sound'
  BY <1>10 DEF CloseMailbox, Drop, MuIsFree, KeptIsWatched, OneSession
<1> QED
  BY <1>1, <1>2, <1>3, <1>4, <1>5, <1>6, <1>7, <1>8, <1>9, <1>10 DEF MailNext, Operation

LEMMA MailFolderStep == ASSUME MailInv, MailNext PROVE ReadsItsFolder'
<1> USE DEF MailInv
<1>1. ASSUME NEW r \in Readers, NEW f \in Folders, UseKept(r, f) PROVE ReadsItsFolder'
  BY <1>1 DEF UseKept, ReadsItsFolder, MailTypeOK
<1>2. ASSUME NEW r \in Readers, NEW f \in Folders, UseFresh(r, f) PROVE ReadsItsFolder'
  BY <1>2 DEF UseFresh, MuIsFree, Resting, Running, ReadsItsFolder, MailTypeOK
<1>3. ASSUME NEW r \in Readers, Select(r) PROVE ReadsItsFolder'
  BY <1>3, MailCallFacts DEF Select, ReadsItsFolder, OneOperation, MailTypeOK
<1>4. ASSUME NEW r \in Readers, Finish(r) \/ FailFresh(r) \/ RedialFails(r) PROVE ReadsItsFolder'
  BY <1>4 DEF Finish, FailFresh, RedialFails, Release, Resting, Running, ReadsItsFolder, MailTypeOK
<1>5. ASSUME NEW r \in Readers, Redial(r) PROVE ReadsItsFolder'
  BY <1>5, MailCallFacts DEF Redial, Running, ReadsItsFolder, OneOperation, MailTypeOK
<1>6. ASSUME TimerFires \/ (\E g \in mailFired : Reap(g)) \/ CloseMailbox PROVE ReadsItsFolder'
  BY <1>6 DEF TimerFires, Reap, CloseMailbox, ReadsItsFolder
<1> QED
  BY <1>1, <1>2, <1>3, <1>4, <1>5, <1>6 DEF MailNext, Operation

\* The mailbox of a workspace, for every number of readers, folders and dials: what is
\* kept is watched, is the only session and is read in its own folder, and the reaper
\* takes nothing that was used since its timer was armed.
THEOREM MailboxAlwaysHolds == MailSpec => MailboxHolds
<1>1. MailInit => MailInv
  <2> SUFFICES ASSUME MailInit PROVE MailInv
    OBVIOUS
  <2>1. MailTypeOK
    <3>1. mailCall \in [Readers -> {Resting} \cup [at : Running, folder : Folders, selected : BOOLEAN]]
      BY DEF MailInit
    <3>2. mailOpen \subseteq 1..mailDials /\ mailFired \subseteq 1..mailGen
      BY DEF MailInit
    <3>3. mailDials \in 0..MaxDials /\ mailConn \in 0..mailDials /\ mailFolder \in Folders \cup {NoFolder}
      BY MailAssumption DEF MailInit
    <3>4. mailGen \in 0..MaxArms /\ mailTimer \in 0..mailGen /\ mailUsed \in 0..mailGen
      BY MailAssumption DEF MailInit
    <3>5. mailClosed \in BOOLEAN
      BY DEF MailInit
    <3> QED
      BY <3>1, <3>2, <3>3, <3>4, <3>5 DEF MailTypeOK
  <2>2. mailOpen = {mailConn} \ {0} /\ \A r \in Readers : mailCall[r].at \notin Running
    BY DEF MailInit, Resting, Running
  <2> QED
    BY <2>1, <2>2 DEF MailInit, MailInv, OneOperation, HeldByTheOperation, RestsSinceItsUse, KeptIsWatched,
       OneSession, ReadsItsFolder
<1>2. MailInv /\ [MailNext]_mailVars => MailInv'
  <2>1. CASE MailNext
    BY <2>1, MailTypeStep, MailHoldStep, MailSessionStep, MailFolderStep DEF MailInv
  <2>2. CASE UNCHANGED mailVars
    BY <2>2 DEF mailVars, MailInv, MailTypeOK, OneOperation, HeldByTheOperation, RestsSinceItsUse, MuIsFree,
       KeptIsWatched, OneSession, ReadsItsFolder
  <2> QED
    BY <2>1, <2>2
<1>3. MailInv => MailTypeOK /\ KeptIsWatched /\ OneSession /\ ReadsItsFolder
  BY DEF MailInv
<1>4. MailInv /\ [MailNext]_mailVars
        => [\A g \in mailFired : Reap(g) /\ mailConn' # mailConn => g > mailUsed]_mailVars
  <2> SUFFICES ASSUME MailInv, NEW g \in mailFired, Reap(g), mailConn' # mailConn PROVE g > mailUsed
    OBVIOUS
  <2>1. g = mailGen /\ mailConn # 0 /\ MuIsFree
    BY DEF Reap, Drop
  <2> QED
    BY <2>1 DEF MailInv, RestsSinceItsUse, MailTypeOK
<1> QED
  BY <1>1, <1>2, <1>3, <1>4, PTL DEF MailSpec, MailboxHolds, ReapsOnlyTheUnused

-----------------------------------------------------------------------------
(*****************************************************************************)
(* The registry of workspaces.                                               *)
(*****************************************************************************)

(* A creation holds its name alone, from the reservation to the hook.  Until it inserts,   *)
(* nothing can be found under the name, though an older workspace of it may still be       *)
(* closing: that one has a number of its own.                                              *)
Creating(d) == regDoing[d].at \in {"reserved", "opening", "hooking"}
CreatesHoldTheName == \A d \in Phones : Creating(d) => regDoing[d].name \in regCreating
OneCreator ==
    \A d, e \in Phones : Creating(d) /\ Creating(e) /\ regDoing[d].name = regDoing[e].name => d = e
CreatedIsUnknown ==
    \A d \in Phones : regDoing[d].at \in {"reserved", "opening"} => regSpaces[regDoing[d].name] = 0
OpeningIsOpen ==
    /\ \A d \in Phones : regDoing[d].at \in {"opening", "hooking"} => regDoing[d].ws \in 1..regOpened
    /\ \A d \in Phones : At(d, "opening") => <<regDoing[d].name, regDoing[d].ws>> \in regOpen
FoundIsOpen ==
    \A n \in Names : regSpaces[n] # 0 => regSpaces[n] <= regOpened /\ <<n, regSpaces[n]>> \in regOpen
ClosingIsApart ==
    \A d \in Phones : At(d, "closing") =>
        /\ regDoing[d].ws \in 1..regOpened /\ regSpaces[regDoing[d].name] # regDoing[d].ws
        /\ \A e \in Phones : At(e, "opening") /\ regDoing[e].name = regDoing[d].name
                                => regDoing[e].ws # regDoing[d].ws
DefaultStays == \A d \in Phones : regDoing[d].at \in {"closing", "moving"} => regDoing[d].name # Default
DeletedIsFree == regDeleted \cap regCreating = {} /\ Default \notin regDeleted
Creations == CreatesHoldTheName /\ OneCreator /\ CreatedIsUnknown
Opened == OpeningIsOpen /\ FoundIsOpen /\ ClosingIsApart
Deletions == DefaultStays /\ DeletedIsFree /\ DeletedStaysDeleted
RegInv == RegTypeOK /\ IsFiniteSet(regDirs) /\ Creations /\ Opened /\ Deletions

RegCalls == [at : {"nothing", "reserved", "opening", "hooking", "closing", "moving"}, name : Names, ws : 0..MaxOpens]

\* A call moves on; the others stay where they are.
Moves(d, to, n, i) ==
    /\ regDoing'[d].at = to /\ regDoing'[d].name = n /\ regDoing'[d].ws = i
    /\ \A e \in Phones : e # d => regDoing'[e] = regDoing[e]

LEMMA MovesTo ==
  ASSUME RegTypeOK, NEW d \in Phones, NEW to \in {"nothing", "reserved", "opening", "hooking", "closing", "moving"},
         NEW n \in Names, NEW i \in 0..MaxOpens, Goes(d, Doing(to, n, i))
  PROVE  regDoing' \in [Phones -> RegCalls] /\ Moves(d, to, n, i)
<1>1. regDoing \in [Phones -> RegCalls]
  BY DEF RegTypeOK, RegCalls
<1>2. Doing(to, n, i) \in RegCalls /\ Doing(to, n, i).at = to /\ Doing(to, n, i).name = n /\ Doing(to, n, i).ws = i
  BY DEF Doing, RegCalls
<1> QED
  BY <1>1, <1>2 DEF Goes, Moves

LEMMA Returns ==
  ASSUME RegTypeOK, NEW d \in Phones, Goes(d, Nothing)
  PROVE  regDoing' \in [Phones -> RegCalls] /\ Moves(d, "nothing", Default, 0)
<1>1. Nothing = Doing("nothing", Default, 0) /\ Default \in Names /\ 0 \in 0..MaxOpens
  BY RegistryAssumption DEF Nothing, Doing, Names
<1> QED
  BY <1>1, MovesTo

LEMMA CallFacts ==
  ASSUME RegTypeOK, NEW d \in Phones
  PROVE  regDoing[d].name \in Names /\ regDoing[d].ws \in 0..MaxOpens
BY DEF RegTypeOK

LEMMA ReserveStep == ASSUME RegInv, NEW d \in Phones, NEW n \in Names, Reserve(d, n) PROVE RegInv'
<1>1. regDoing' \in [Phones -> RegCalls] /\ Moves(d, "reserved", n, 0)
  BY RegistryAssumption, MovesTo DEF Reserve, RegInv
<1>2. RegTypeOK' /\ IsFiniteSet(regDirs)'
  BY <1>1 DEF Reserve, RegInv, RegTypeOK, RegCalls
<1>3. Creations'
  BY <1>1 DEF Reserve, RegInv, Moves, Creations, CreatesHoldTheName, OneCreator, CreatedIsUnknown, Creating
<1>4. Opened'
  BY <1>1 DEF Reserve, RegInv, Moves, Opened, OpeningIsOpen, FoundIsOpen, ClosingIsApart, At
<1>5. Deletions'
  BY <1>1 DEF Reserve, RegInv, Moves, Deletions, DefaultStays, DeletedIsFree, DeletedStaysDeleted
<1> QED
  BY <1>2, <1>3, <1>4, <1>5 DEF RegInv

LEMMA BeginOpenStep == ASSUME RegInv, NEW d \in Phones, BeginOpen(d) PROVE RegInv'
<1> PICK n \in Names : n = regDoing[d].name
  BY CallFacts DEF RegInv
<1> PICK i \in 1..MaxOpens : i = regOpened + 1 /\ i \in 0..MaxOpens
  BY RegistryAssumption DEF BeginOpen, RegInv, RegTypeOK
<1>1. n \in regCreating /\ Creating(d) /\ regSpaces[n] = 0
  BY DEF BeginOpen, RegInv, Creations, CreatesHoldTheName, CreatedIsUnknown, Creating, At
<1>2. regDoing' \in [Phones -> RegCalls] /\ Moves(d, "opening", n, i)
  BY MovesTo DEF BeginOpen, RegInv
<1>3. RegTypeOK' /\ IsFiniteSet(regDirs)'
  <2>1. IsFiniteSet(regDirs')
    BY FS_AddElement DEF BeginOpen, RegInv
  <2>2. regOpen' \subseteq Names \X (1..MaxOpens)
    BY DEF BeginOpen, RegInv, RegTypeOK
  <2> QED
    BY <1>2, <2>1, <2>2 DEF BeginOpen, RegInv, RegTypeOK, RegCalls
<1>4. Creations'
  BY <1>1, <1>2 DEF BeginOpen, RegInv, Moves, Creations, CreatesHoldTheName, OneCreator, CreatedIsUnknown, Creating
<1>5. Opened'
  <2>1. OpeningIsOpen' /\ FoundIsOpen'
    BY <1>2 DEF BeginOpen, RegInv, RegTypeOK, Moves, Opened, OpeningIsOpen, FoundIsOpen, At
  <2>2. ClosingIsApart'
    BY <1>2 DEF BeginOpen, RegInv, RegTypeOK, Moves, Opened, ClosingIsApart, At
  <2> QED
    BY <2>1, <2>2 DEF Opened
<1>6. Deletions'
  BY <1>1, <1>2 DEF BeginOpen, RegInv, Moves, Deletions, DefaultStays, DeletedIsFree, DeletedStaysDeleted
<1> QED
  BY <1>3, <1>4, <1>5, <1>6 DEF RegInv

LEMMA OpenFailsStep == ASSUME RegInv, NEW d \in Phones, OpenFails(d) PROVE RegInv'
<1> PICK n \in Names : n = regDoing[d].name
  BY CallFacts DEF RegInv
<1>1. Creating(d) /\ regSpaces[n] = 0
  BY DEF OpenFails, RegInv, Creations, CreatedIsUnknown, Creating, At
<1>2. regDoing' \in [Phones -> RegCalls] /\ Moves(d, "nothing", Default, 0)
  BY Returns DEF OpenFails, RegInv
<1>3. RegTypeOK' /\ IsFiniteSet(regDirs)'
  BY <1>2 DEF OpenFails, RegInv, RegTypeOK, RegCalls
<1>4. Creations'
  BY <1>1, <1>2 DEF OpenFails, RegInv, Moves, Creations, CreatesHoldTheName, OneCreator, CreatedIsUnknown, Creating
<1>5. Opened'
  <2>1. \A e \in Phones : e # d /\ At(e, "opening") => regDoing[e].name # n
    BY <1>1 DEF RegInv, Creations, OneCreator, Creating, At
  <2>2. \A m \in Names : regSpaces[m] # 0 => m # n
    BY <1>1
  <2> QED
    BY <1>2, <2>1, <2>2 DEF OpenFails, RegInv, Moves, Opened, OpeningIsOpen, FoundIsOpen, ClosingIsApart, At
<1>6. Deletions'
  BY <1>2 DEF OpenFails, RegInv, Moves, Deletions, DefaultStays, DeletedIsFree, DeletedStaysDeleted
<1> QED
  BY <1>3, <1>4, <1>5, <1>6 DEF RegInv

LEMMA InsertStep == ASSUME RegInv, NEW d \in Phones, Insert(d) PROVE RegInv'
<1> PICK n \in Names : n = regDoing[d].name
  BY CallFacts DEF RegInv
<1>8. regDoing[d].ws \in 1..regOpened
  BY DEF Insert, RegInv, Opened, OpeningIsOpen, At
<1> PICK i \in 1..regOpened : i = regDoing[d].ws /\ i \in 0..MaxOpens
  BY <1>8, CallFacts DEF RegInv
<1>1. n \in regCreating /\ Creating(d) /\ regSpaces[n] = 0 /\ <<n, i>> \in regOpen
  BY DEF Insert, RegInv, Creations, CreatesHoldTheName, CreatedIsUnknown, Creating, At, Opened, OpeningIsOpen
<1>2. regDoing' \in [Phones -> RegCalls] /\ Moves(d, "hooking", n, i)
  BY MovesTo DEF Insert, RegInv
<1>3. RegTypeOK' /\ IsFiniteSet(regDirs)'
  BY <1>2 DEF Insert, RegInv, RegTypeOK, RegCalls
<1>4. regSpaces'[n] = i /\ \A m \in Names : m # n => regSpaces'[m] = regSpaces[m]
  BY DEF Insert, RegInv, RegTypeOK
<1>5. Creations'
  BY <1>1, <1>2, <1>4, CallFacts
     DEF Insert, RegInv, Moves, Creations, CreatesHoldTheName, OneCreator, CreatedIsUnknown, Creating
<1>6. Opened'
  <2>1. OpeningIsOpen' /\ FoundIsOpen'
    BY <1>1, <1>2, <1>4 DEF Insert, RegInv, RegTypeOK, Moves, Opened, OpeningIsOpen, FoundIsOpen, At
  <2>2. ClosingIsApart'
    BY <1>2, <1>4, CallFacts DEF Insert, RegInv, Moves, Opened, ClosingIsApart, At
  <2> QED
    BY <2>1, <2>2 DEF Opened
<1>7. Deletions'
  BY <1>1, <1>2, <1>4 DEF Insert, RegInv, Moves, Deletions, DefaultStays, DeletedIsFree, DeletedStaysDeleted, RegTypeOK
<1> QED
  BY <1>3, <1>5, <1>6, <1>7 DEF RegInv

LEMMA HookStep == ASSUME RegInv, NEW d \in Phones, Hook(d) PROVE RegInv'
<1>1. Creating(d)
  BY DEF Hook, Creating, At
<1>2. regDoing' \in [Phones -> RegCalls] /\ Moves(d, "nothing", Default, 0)
  BY Returns DEF Hook, RegInv
<1>3. RegTypeOK' /\ IsFiniteSet(regDirs)'
  <2>1. regAttached' \subseteq 1..MaxOpens
    <3>1. regDoing[d].ws \in 1..regOpened
      BY DEF Hook, RegInv, Opened, OpeningIsOpen, At
    <3>2. regOpened \in 1..MaxOpens /\ regAttached \subseteq 1..MaxOpens
      BY DEF RegInv, RegTypeOK
    <3>3. regDoing[d].ws \in 1..MaxOpens
      BY <3>1, <3>2, RegistryAssumption
    <3> QED
      BY <3>2, <3>3 DEF Hook
  <2> QED
    BY <1>2, <2>1 DEF Hook, RegInv, RegTypeOK, RegCalls
<1>4. Creations'
  BY <1>1, <1>2 DEF Hook, RegInv, Moves, Creations, CreatesHoldTheName, OneCreator, CreatedIsUnknown, Creating
<1>5. Opened'
  BY <1>2 DEF Hook, RegInv, Moves, Opened, OpeningIsOpen, FoundIsOpen, ClosingIsApart, At
<1>6. Deletions'
  BY <1>2 DEF Hook, RegInv, Moves, Deletions, DefaultStays, DeletedIsFree, DeletedStaysDeleted
<1> QED
  BY <1>3, <1>4, <1>5, <1>6 DEF RegInv

LEMMA RemoveStep == ASSUME RegInv, NEW d \in Phones, NEW n \in Names, Remove(d, n) PROVE RegInv'
<1>1. regSpaces[n] \in 0..MaxOpens /\ regSpaces[n] # 0 /\ regSpaces[n] <= regOpened
  BY DEF Remove, RegInv, Opened, FoundIsOpen, RegTypeOK
<1> PICK i \in 1..regOpened : i = regSpaces[n] /\ i \in 0..MaxOpens
  BY <1>1
<1>2. regDoing' \in [Phones -> RegCalls] /\ Moves(d, "closing", n, i)
  BY MovesTo DEF Remove, RegInv
<1>3. RegTypeOK' /\ IsFiniteSet(regDirs)'
  BY <1>2, RegistryAssumption DEF Remove, RegInv, RegTypeOK, RegCalls
<1>4. regSpaces'[n] = 0 /\ \A m \in Names : m # n => regSpaces'[m] = regSpaces[m]
  BY DEF Remove, RegInv, RegTypeOK
<1>5. Creations'
  BY <1>2, <1>4, CallFacts
     DEF Remove, RegInv, Moves, Creations, CreatesHoldTheName, OneCreator, CreatedIsUnknown, Creating
<1>6. Opened'
  <2>1. OpeningIsOpen' /\ FoundIsOpen'
    BY <1>2, <1>4 DEF Remove, RegInv, Moves, Opened, OpeningIsOpen, FoundIsOpen, At
  <2>2. \A e \in Phones : At(e, "opening") => regDoing[e].name # n
    BY <1>1 DEF RegInv, Creations, CreatedIsUnknown, At
  <2>3. ClosingIsApart'
    BY <1>1, <1>2, <1>4, <2>2, CallFacts DEF Remove, RegInv, Moves, Opened, ClosingIsApart, At
  <2> QED
    BY <2>1, <2>3 DEF Opened
<1>7. Deletions'
  BY <1>2, <1>4 DEF Remove, RegInv, RegTypeOK, Moves, Deletions, DefaultStays, DeletedIsFree, DeletedStaysDeleted
<1> QED
  BY <1>3, <1>5, <1>6, <1>7 DEF RegInv

LEMMA FinishCloseStep == ASSUME RegInv, NEW d \in Phones, FinishClose(d) PROVE RegInv'
<1> PICK n \in Names : n = regDoing[d].name
  BY CallFacts DEF RegInv
<1> PICK i \in 0..MaxOpens : i = regDoing[d].ws
  BY CallFacts DEF RegInv
<1>2. regDoing' \in [Phones -> RegCalls] /\ Moves(d, "moving", n, i)
  BY MovesTo DEF FinishClose, RegInv
<1>3. RegTypeOK' /\ IsFiniteSet(regDirs)'
  BY <1>2 DEF FinishClose, RegInv, RegTypeOK, RegCalls
<1>4. Creations'
  BY <1>2 DEF FinishClose, RegInv, Moves, Creations, CreatesHoldTheName, OneCreator, CreatedIsUnknown, Creating
<1>5. Opened'
  <2>1. regSpaces[n] # i /\ \A e \in Phones : At(e, "opening") /\ regDoing[e].name = n => regDoing[e].ws # i
    BY DEF FinishClose, RegInv, Opened, ClosingIsApart
  <2> QED
    BY <1>2, <2>1 DEF FinishClose, RegInv, Moves, Opened, OpeningIsOpen, FoundIsOpen, ClosingIsApart, At
<1>6. Deletions'
  BY <1>2 DEF FinishClose, RegInv, Moves, Deletions, DefaultStays, DeletedIsFree, DeletedStaysDeleted, At
<1> QED
  BY <1>3, <1>4, <1>5, <1>6 DEF RegInv

LEMMA MoveStep == ASSUME RegInv, NEW d \in Phones, MoveAway(d) \/ MoveFails(d) PROVE RegInv'
<1>1. regDoing[d].name \in Names /\ regDoing[d].name # Default
  BY CallFacts DEF MoveAway, MoveFails, RegInv, Deletions, DefaultStays, At
<1>2. regDoing' \in [Phones -> RegCalls] /\ Moves(d, "nothing", Default, 0)
  BY Returns DEF MoveAway, MoveFails, RegInv
<1>3. RegTypeOK' /\ IsFiniteSet(regDirs)'
  <2>1. IsFiniteSet(regDirs')
    BY FS_RemoveElement DEF MoveAway, MoveFails, RegInv
  <2>2. regDirs' \subseteq regDirs /\ regDeleted' \subseteq Names
    BY <1>1 DEF MoveAway, MoveFails, RegInv, RegTypeOK
  <2> QED
    BY <1>2, <2>1, <2>2 DEF MoveAway, MoveFails, RegInv, RegTypeOK, RegCalls
<1>4. Creations'
  BY <1>2 DEF MoveAway, MoveFails, RegInv, Moves, Creations, CreatesHoldTheName, OneCreator, CreatedIsUnknown, Creating
<1>5. Opened'
  BY <1>2 DEF MoveAway, MoveFails, RegInv, Moves, Opened, OpeningIsOpen, FoundIsOpen, ClosingIsApart, At
<1>6. Deletions'
  BY <1>1, <1>2 DEF MoveAway, MoveFails, RegInv, Moves, Deletions, DefaultStays, DeletedIsFree, DeletedStaysDeleted
<1> QED
  BY <1>3, <1>4, <1>5, <1>6 DEF RegInv

LEMMA StartAgainStep == ASSUME RegInv, StartAgain PROVE RegInv'
<1> DEFINE found == regDirs \cup {Default}
<1>1. found \subseteq Names /\ IsFiniteSet(found) /\ Cardinality(found) \in Nat
  BY FS_AddElement, FS_CardinalityType DEF RegInv, RegTypeOK, Names
<1>2. /\ regOpened' \in regOpened..MaxOpens /\ regOpened \in 1..MaxOpens
      /\ regSpaces' \in [Names -> 0..MaxOpens]
      /\ \A n \in Names : regSpaces'[n] # 0 <=> n \in found
      /\ {regSpaces'[n] : n \in found} = (regOpened + 1)..regOpened'
  <2>1. regOpened \in 1..MaxOpens
    BY DEF RegInv, RegTypeOK
  <2>2. regOpened' = regOpened + Cardinality(found) /\ regOpened + Cardinality(found) <= MaxOpens
    BY DEF StartAgain
  <2>3. regOpened' \in regOpened..MaxOpens
    BY <1>1, <2>1, <2>2, RegistryAssumption
  <2> QED
    BY <2>1, <2>3 DEF StartAgain
<1>3. \A n \in found : regSpaces'[n] \in (regOpened + 1)..regOpened'
  BY <1>2
<1>4. /\ regDirs' = found /\ regCreating' = {} /\ regDoing' = [d \in Phones |-> Nothing]
      /\ regOpen' = {<<n, regSpaces'[n]>> : n \in found} /\ UNCHANGED regDeleted
      /\ regAttached' = (regOpened + 1)..regOpened' /\ regStarts' \in 0..MaxStarts
  BY RegistryAssumption DEF StartAgain, RegInv, RegTypeOK
<1>5. regDoing' \in [Phones -> RegCalls] /\ \A d \in Phones : regDoing'[d].at = "nothing"
  BY <1>4, RegistryAssumption DEF Nothing, RegCalls, Names
<1> HIDE DEF found
<1>6. RegTypeOK' /\ IsFiniteSet(regDirs)'
  <2>1. regOpen' \subseteq Names \X (1..MaxOpens) /\ regAttached' \subseteq 1..MaxOpens
    <3>1. (regOpened + 1)..regOpened' \subseteq 1..MaxOpens
      BY <1>2, RegistryAssumption
    <3> QED
      BY <1>1, <1>3, <1>4, <3>1
  <2>2. regOpened' \in 1..MaxOpens /\ regDirs' \subseteq Names /\ regCreating' \subseteq Names /\ regDeleted' \subseteq Names
    BY <1>1, <1>2, <1>4 DEF RegInv, RegTypeOK
  <2> QED
    BY <1>1, <1>2, <1>4, <1>5, <2>1, <2>2 DEF RegTypeOK, RegCalls
<1>7. Creations'
  BY <1>5 DEF Creations, CreatesHoldTheName, OneCreator, CreatedIsUnknown, Creating
<1>8. Opened'
  BY <1>2, <1>3, <1>4, <1>5 DEF Opened, OpeningIsOpen, FoundIsOpen, ClosingIsApart, At
<1>9. Deletions'
  <2>1. \A n \in regDeleted : n \notin found
    BY DEF RegInv, Deletions, DeletedIsFree, DeletedStaysDeleted, found
  <2> QED
    BY <1>2, <1>4, <1>5, <2>1 DEF RegInv, RegTypeOK, Deletions, DefaultStays, DeletedIsFree, DeletedStaysDeleted
<1> QED
  BY <1>6, <1>7, <1>8, <1>9 DEF RegInv

\* Of all that is in hand for a name there is one, as a creation finds nothing under it.
LEMMA InHandIsOne == ASSUME RegInv PROVE CreatesApart
<1> SUFFICES ASSUME NEW n \in Names
             PROVE  Cardinality(InHand(n)) <= 1 /\ \A i \in InHand(n) : <<n, i>> \in regOpen
  BY DEF CreatesApart
<1>1. \A i \in InHand(n) : <<n, i>> \in regOpen
  BY DEF InHand, RegInv, Opened, OpeningIsOpen, FoundIsOpen
<1>2. \A i, j \in InHand(n) : i = j
  BY DEF InHand, RegInv, Creations, OneCreator, CreatedIsUnknown, Creating, At
<1>3. ASSUME NEW i \in InHand(n) PROVE InHand(n) = {i}
  BY <1>2
<1>4. Cardinality(InHand(n)) <= 1
  BY <1>3, FS_EmptySet, FS_Singleton
<1> QED
  BY <1>1, <1>4

\* For every number of devices and names: two devices that create one name do not both
\* open it, and what was reported deleted is not met again, over restarts too.
THEOREM RegistryAlwaysHolds == RegSpec => []RegistryHolds
<1>1. RegInit => RegInv
  <2> SUFFICES ASSUME RegInit PROVE RegInv
    OBVIOUS
  <2>1. RegTypeOK /\ IsFiniteSet(regDirs)
    <3>1. IsFiniteSet(regDirs)
      BY FS_Singleton DEF RegInit
    <3>3. Default \in Names /\ 1 \in 1..MaxOpens
      BY RegistryAssumption DEF Names
    <3>2. regDoing \in [Phones -> RegCalls] /\ regSpaces \in [Names -> 0..MaxOpens]
      BY <3>3, RegistryAssumption DEF RegInit, RegCalls, Nothing
    <3> QED
      BY <3>1, <3>2, <3>3, RegistryAssumption DEF RegInit, RegTypeOK, RegCalls
  <2>2. \A d \in Phones : regDoing[d].at = "nothing"
    BY DEF RegInit, Nothing
  <2>3. Creations /\ Opened /\ Deletions
    BY <2>2, RegistryAssumption DEF RegInit, Names, Creations, CreatesHoldTheName, OneCreator, CreatedIsUnknown,
       Creating, Opened, OpeningIsOpen, FoundIsOpen, ClosingIsApart, At, Deletions, DefaultStays, DeletedIsFree,
       DeletedStaysDeleted
  <2> QED
    BY <2>1, <2>3 DEF RegInv
<1>2. RegInv /\ [RegNext]_regVars => RegInv'
  <2> SUFFICES ASSUME RegInv, [RegNext]_regVars PROVE RegInv'
    OBVIOUS
  <2>1. CASE \E d \in Phones, n \in Names : Reserve(d, n) \/ Remove(d, n)
    BY <2>1, ReserveStep, RemoveStep
  <2>2. CASE \E d \in Phones : RegCall(d)
    BY <2>2, BeginOpenStep, OpenFailsStep, InsertStep, HookStep, FinishCloseStep, MoveStep DEF RegCall
  <2>3. CASE StartAgain
    BY <2>3, StartAgainStep
  <2>4. CASE UNCHANGED regVars
    BY <2>4 DEF regVars, RegInv, RegTypeOK, Creations, CreatesHoldTheName, OneCreator, CreatedIsUnknown,
       Creating, Opened, OpeningIsOpen, FoundIsOpen, ClosingIsApart, At, Deletions, DefaultStays, DeletedIsFree,
       DeletedStaysDeleted
  <2> QED
    BY <2>1, <2>2, <2>3, <2>4 DEF RegNext
<1>3. RegInv => RegistryHolds
  BY InHandIsOne DEF RegInv, Deletions, RegistryHolds
<1> QED
  BY <1>1, <1>2, <1>3, PTL DEF RegSpec

-----------------------------------------------------------------------------
(*****************************************************************************)
(* The runs of a turn.                                                       *)
(*****************************************************************************)

(* Only a run whose calls execute has anything open.  A run is told that the limit is      *)
(* reached once, as it ends: the tokens beyond the limit are those of one round for each   *)
(* of the runs that were told.                                                             *)
OnlyRoundsAreOpen ==
    \A r \in Runs : runAt[r] # "tools" => runOpen[r] = 0 /\ \A c \in Children(r) : runAt[c] = "ended"
DrawnInOrder == \A r \in Runs : r > turnSpawned => runAt[r] = "none"
ToldHasEnded == \A r \in overLimit : runAt[r] = "ended"
PaidOnce == Limit > 0 => turnSpent <= (Limit - 1) + MaxRound * Cardinality(overLimit)
TreeInv == TreeTypeOK /\ OnlyRoundsAreOpen /\ DrawnInOrder /\ ToldHasEnded /\ PaidOnce

LEMMA RunsAreFinite == IsFiniteSet(Runs) /\ \A S \in SUBSET Runs : IsFiniteSet(S) /\ Cardinality(S) \in Nat
<1>1. IsFiniteSet(Runs)
  BY TreeAssumption, FS_Interval DEF Runs
<1> QED
  BY <1>1, FS_Subset, FS_CardinalityType

\* A round is paid for by a run that was not told before; if it is told now, it has ended.
LEMMA SpendIsOneRound ==
  ASSUME TreeInv, NEW r \in Runs, NEW n \in 0..MaxRound, Spend(r, n), r \notin overLimit
  PROVE  turnSpent' \in Nat /\ overLimit' \subseteq overLimit \cup {r} /\ overLimit' \subseteq Runs /\ PaidOnce'
<1> DEFINE c == Cardinality(overLimit)
<1>1. turnSpent \in Nat /\ overLimit \subseteq Runs /\ n \in Nat /\ MaxRound \in Nat /\ Limit \in Nat
  BY TreeAssumption DEF TreeInv, TreeTypeOK
<1>2. turnSpent' = turnSpent + n /\ turnSpent' \in Nat /\ overLimit' \subseteq overLimit \cup {r}
  BY <1>1 DEF Spend
<1>3. c \in Nat
  BY <1>1, RunsAreFinite
<1>4. CASE overLimit' = overLimit /\ ~(Limit > 0 /\ turnSpent' >= Limit)
  <2>1. MaxRound * c \in Nat
    BY <1>1, <1>3
  <2> QED
    BY <1>1, <1>2, <1>4, <2>1 DEF PaidOnce
<1>5. CASE overLimit' = overLimit \cup {r}
  <2>1. Cardinality(overLimit') = c + 1
    BY <1>1, <1>5, RunsAreFinite, FS_AddElement
  <2>2. MaxRound * (c + 1) = MaxRound * c + MaxRound /\ MaxRound * c \in Nat
    BY <1>1, <1>3
  <2>3. Limit > 0 => turnSpent <= (Limit - 1) + MaxRound * c
    BY DEF TreeInv, PaidOnce
  <2> HIDE DEF c
  <2>4. Limit > 0 => turnSpent' <= (Limit - 1) + MaxRound * (c + 1)
    BY <1>1, <1>2, <2>2, <2>3
  <2> QED
    BY <1>1, <1>2, <1>5, <2>1, <2>4 DEF PaidOnce
<1> QED
  BY <1>1, <1>2, <1>4, <1>5 DEF Spend

\* A run that moves on, open calls and children left alone.
LEMMA RunMoves ==
  ASSUME TreeInv, NEW r \in Runs, NEW to \in {"ready", "model", "tools", "ended"},
         runAt' = [runAt EXCEPT ![r] = to], UNCHANGED <<runParent, runOpen>>,
         runAt[r] # "ended", runAt[r] # "none" \/ r = Root,
         to = "tools" \/ (runOpen[r] = 0 /\ \A c \in Children(r) : runAt[c] = "ended")
  PROVE  OnlyRoundsAreOpen'
<1> SUFFICES ASSUME NEW p \in Runs, runAt'[p] # "tools"
             PROVE  runOpen[p] = 0 /\ \A c \in Children(p)' : runAt'[c] = "ended"
  BY DEF OnlyRoundsAreOpen
<1>1. Children(p)' = Children(p)
  BY DEF Children, TreeInv, TreeTypeOK
<1>2. CASE p = r
  BY <1>1, <1>2 DEF TreeInv, TreeTypeOK, Children
<1>3. CASE p # r
  <2>1. runOpen[p] = 0 /\ \A c \in Children(p) : runAt[c] = "ended"
    BY <1>3 DEF TreeInv, TreeTypeOK, OnlyRoundsAreOpen
  <2> QED
    BY <1>1, <2>1 DEF TreeInv, TreeTypeOK, Children
<1> QED
  BY <1>2, <1>3

LEMMA CallReturns ==
  ASSUME TreeInv, NEW r \in Runs, ToolReturns(r) \/ ChargeInVain(r)
  PROVE  TreeInv'
<1> USE DEF TreeInv
<1>1. TreeTypeOK'
  BY TreeAssumption DEF ToolReturns, ChargeInVain, TreeTypeOK
<1>2. OnlyRoundsAreOpen'
  BY DEF ToolReturns, ChargeInVain, TreeTypeOK, OnlyRoundsAreOpen, Children
<1>3. ToldHasEnded' /\ PaidOnce'
  BY DEF ToolReturns, ChargeInVain, ToldHasEnded, PaidOnce
<1>4. DrawnInOrder'
  <2>1. turnSpawned \in Nat /\ \A x \in Runs : x \in Nat
    BY TreeAssumption DEF TreeTypeOK, Runs
  <2>2. turnSpawned' \in {turnSpawned, turnSpawned + 1} /\ runAt' = runAt
    BY DEF ToolReturns, ChargeInVain
  <2> QED
    BY <2>1, <2>2 DEF DrawnInOrder
<1> QED
  BY <1>1, <1>2, <1>3, <1>4

LEMMA SpawnStep == ASSUME TreeInv, NEW r \in Runs, Spawn(r) PROVE TreeInv'
<1> USE DEF TreeInv
<1> PICK n \in Runs : n = turnSpawned + 1 /\ n # Root
  BY TreeAssumption DEF Spawn, TreeTypeOK, Runs, Root
<1>1. runAt[n] = "none" /\ runAt[r] = "tools" /\ n # r
  <2>1. n > turnSpawned
    BY TreeAssumption DEF TreeTypeOK
  <2>2. runAt[n] = "none"
    BY <2>1 DEF DrawnInOrder
  <2>3. runAt[r] = "tools"
    BY DEF Spawn, TreeTypeOK, OnlyRoundsAreOpen
  <2> QED
    BY <2>2, <2>3
<1>2. /\ runAt' = [runAt EXCEPT ![n] = "ready"] /\ runParent' = [runParent EXCEPT ![n] = r]
      /\ runDepth' = [runDepth EXCEPT ![n] = runDepth[r] + 1] /\ runOpen' = [runOpen EXCEPT ![r] = @ - 1]
      /\ turnSpawned' = n /\ UNCHANGED <<runSteps, runCost, turnSpent, turnCancelled, overLimit>>
  BY DEF Spawn
<1>3. TreeTypeOK'
  <2>2. runDepth[r] \in 0..MaxDepth /\ runOpen[r] \in 0..MaxCalls /\ turnSpawned \in 0..MaxSpawns + 1
    BY DEF TreeTypeOK
  <2>1. runDepth[r] + 1 \in 0..MaxDepth /\ runOpen[r] - 1 \in 0..MaxCalls /\ n \in 0..MaxSpawns + 1
    BY <2>2, TreeAssumption DEF Spawn
  <2> QED
    BY <1>2, <2>1 DEF TreeTypeOK
<1>4. OnlyRoundsAreOpen'
  <2> SUFFICES ASSUME NEW p \in Runs, runAt'[p] # "tools"
               PROVE  runOpen'[p] = 0 /\ \A c \in Children(p)' : runAt'[c] = "ended"
    BY DEF OnlyRoundsAreOpen
  <2>1. p # r /\ runAt[p] # "tools"
    BY <1>1, <1>2 DEF TreeTypeOK
  <2>2. runOpen[p] = 0 /\ \A c \in Children(p) : runAt[c] = "ended"
    BY <2>1 DEF OnlyRoundsAreOpen
  <2>3. Children(p)' \subseteq Children(p) /\ n \notin Children(p)'
    BY <1>2, <2>1 DEF Children, TreeTypeOK
  <2> QED
    BY <1>2, <2>1, <2>2, <2>3 DEF TreeTypeOK, Children
<1>5. DrawnInOrder'
  BY <1>2 DEF TreeTypeOK, DrawnInOrder, Runs
<1>6. ToldHasEnded' /\ PaidOnce'
  BY <1>1, <1>2 DEF ToldHasEnded, PaidOnce, TreeTypeOK
<1> QED
  BY <1>3, <1>4, <1>5, <1>6

LEMMA BeginStep == ASSUME TreeInv, BeginTurn PROVE TreeInv'
<1> USE DEF TreeInv
<1>1. Root \in Runs
  BY TreeAssumption DEF Root, Runs
<1>2. TreeTypeOK'
  BY <1>1 DEF BeginTurn, TreeTypeOK
<1>3. OnlyRoundsAreOpen'
  BY <1>1, RunMoves DEF BeginTurn, OnlyRoundsAreOpen, TreeTypeOK
<1>4. DrawnInOrder' /\ ToldHasEnded' /\ PaidOnce'
  <2>1. turnSpawned \in Nat /\ ~(Root > turnSpawned)
    BY TreeAssumption DEF TreeTypeOK, Root
  <2>2. runAt'[Root] = "ready" /\ (\A r \in Runs : r # Root => runAt'[r] = runAt[r])
        /\ UNCHANGED <<turnSpawned, turnSpent, overLimit>>
    BY <1>1 DEF BeginTurn, TreeTypeOK
  <2>3. Root \notin overLimit
    BY DEF BeginTurn, ToldHasEnded
  <2> QED
    BY <2>1, <2>2, <2>3 DEF DrawnInOrder, ToldHasEnded, PaidOnce, TreeTypeOK
<1> QED
  BY <1>2, <1>3, <1>4

LEMMA RoundStep ==
  ASSUME TreeInv, NEW r \in Runs, StopAtRound(r) \/ AskModel(r) \/ ModelFails(r) PROVE TreeInv'
<1> USE DEF TreeInv
<1>1. PICK to \in {"ready", "model", "tools", "ended"} :
        runAt' = [runAt EXCEPT ![r] = to] /\ runAt[r] \in {"ready", "model"}
  BY DEF StopAtRound, AskModel, ModelFails, EndRun
<1>2. UNCHANGED <<runParent, runDepth, runCost, runOpen, turnSpent, turnSpawned, turnCancelled, overLimit>>
  BY DEF StopAtRound, AskModel, ModelFails
<1>3. runSteps' \in [Runs -> 0..MaxSteps]
  BY TreeAssumption DEF StopAtRound, AskModel, ModelFails, TreeTypeOK
<1>4. TreeTypeOK'
  BY <1>1, <1>2, <1>3 DEF TreeTypeOK
<1>5. OnlyRoundsAreOpen'
  BY <1>1, <1>2, RunMoves DEF OnlyRoundsAreOpen
<1>6. DrawnInOrder' /\ ToldHasEnded' /\ PaidOnce'
  BY <1>1, <1>2 DEF TreeTypeOK, DrawnInOrder, ToldHasEnded, PaidOnce
<1> QED
  BY <1>4, <1>5, <1>6

LEMMA AnswerStep == ASSUME TreeInv, NEW r \in Runs, NEW n \in 0..MaxRound, Answer(r, n) PROVE TreeInv'
<1> USE DEF TreeInv
<1>1. r \notin overLimit
  BY DEF Answer, ToldHasEnded
<1>2. turnSpent' \in Nat /\ overLimit' \subseteq overLimit \cup {r} /\ overLimit' \subseteq Runs /\ PaidOnce'
  BY <1>1, SpendIsOneRound DEF Answer
<1>3. TreeTypeOK'
  BY <1>2 DEF Answer, EndRun, TreeTypeOK
<1>4. OnlyRoundsAreOpen'
  BY RunMoves DEF Answer, EndRun, OnlyRoundsAreOpen
<1>5. DrawnInOrder' /\ ToldHasEnded'
  BY <1>2 DEF Answer, EndRun, TreeTypeOK, DrawnInOrder, ToldHasEnded
<1> QED
  BY <1>2, <1>3, <1>4, <1>5

LEMMA CallToolsStep ==
  ASSUME TreeInv, NEW r \in Runs, NEW n \in 0..MaxRound, NEW k \in 1..MaxCalls, CallTools(r, n, k) PROVE TreeInv'
<1> USE DEF TreeInv
<1>1. TreeTypeOK'
  BY TreeAssumption DEF CallTools, TreeTypeOK
<1>2. OnlyRoundsAreOpen'
  <2> SUFFICES ASSUME NEW p \in Runs, runAt'[p] # "tools"
               PROVE  runOpen'[p] = 0 /\ \A c \in Children(p)' : runAt'[c] = "ended"
    BY DEF OnlyRoundsAreOpen
  <2>1. p # r /\ runAt[p] # "tools"
    BY DEF CallTools, TreeTypeOK
  <2>2. Children(p)' = Children(p)
    BY DEF CallTools, Children, TreeTypeOK
  <2> QED
    BY <2>1, <2>2 DEF CallTools, TreeTypeOK, Children, OnlyRoundsAreOpen
<1>3. DrawnInOrder' /\ ToldHasEnded' /\ PaidOnce'
  BY DEF CallTools, TreeTypeOK, DrawnInOrder, ToldHasEnded, PaidOnce
<1> QED
  BY <1>1, <1>2, <1>3

LEMMA PayStep == ASSUME TreeInv, NEW r \in Runs, Pay(r) PROVE TreeInv'
<1> USE DEF TreeInv
<1>1. r \notin overLimit /\ runCost[r] \in 0..MaxRound
  BY DEF Pay, ToldHasEnded, TreeTypeOK
<1>2. turnSpent' \in Nat /\ overLimit' \subseteq overLimit \cup {r} /\ overLimit' \subseteq Runs /\ PaidOnce'
  BY <1>1, SpendIsOneRound DEF Pay
<1>3. PICK to \in {"ready", "model", "tools", "ended"} :
        runAt' = [runAt EXCEPT ![r] = to] /\ (r \in overLimit' => to = "ended")
  BY DEF Pay
<1>4. TreeTypeOK'
  BY <1>2, <1>3, TreeAssumption DEF Pay, TreeTypeOK
<1>5. OnlyRoundsAreOpen'
  BY <1>3, RunMoves DEF Pay, RoundIsOver
<1>6. DrawnInOrder' /\ ToldHasEnded'
  BY <1>2, <1>3 DEF Pay, TreeTypeOK, DrawnInOrder, ToldHasEnded
<1> QED
  BY <1>2, <1>4, <1>5, <1>6

LEMMA CancelStep == ASSUME TreeInv, CancelTurn PROVE TreeInv'
BY DEF TreeInv, CancelTurn, TreeTypeOK, OnlyRoundsAreOpen, DrawnInOrder, ToldHasEnded, PaidOnce, Children

LEMMA OvershootFollows == ASSUME TreeInv PROVE OvershootIsBounded /\ NothingOutlivesItsRun
<1>1. overLimit \subseteq Begun /\ IsFiniteSet(Begun) /\ Cardinality(overLimit) \in Nat /\ Cardinality(Begun) \in Nat
  BY RunsAreFinite DEF TreeInv, TreeTypeOK, ToldHasEnded, Begun
<1>2. Cardinality(overLimit) <= Cardinality(Begun)
  BY <1>1, FS_Subset
<1>3. MaxRound * Cardinality(overLimit) <= MaxRound * Cardinality(Begun)
  BY <1>1, <1>2, TreeAssumption
<1>4. OvershootIsBounded
  BY <1>1, <1>3, TreeAssumption DEF TreeInv, TreeTypeOK, PaidOnce, OvershootIsBounded
<1> QED
  BY <1>4 DEF TreeInv, OnlyRoundsAreOpen, NothingOutlivesItsRun

\* For every limit, depth, population and fan-out: a turn leaves nothing running behind, and
\* goes past its token limit by at most one round of each of its runs.
THEOREM TurnAlwaysHolds == TreeSpec => []TurnHolds
<1>1. TreeInit => TreeInv
  <2> SUFFICES ASSUME TreeInit PROVE TreeInv
    OBVIOUS
  <2>1. TreeTypeOK
    <3>1. 0 \in 0..MaxSpawns /\ 0 \in 0..MaxSpawns + 1 /\ 0 \in 0..MaxDepth /\ 0 \in 0..MaxSteps
          /\ 0 \in 0..MaxRound /\ 0 \in 0..MaxCalls
      BY TreeAssumption
    <3> QED
      BY <3>1 DEF TreeInit, TreeTypeOK, Runs, Root
  <2>2. PaidOnce
    BY TreeAssumption, FS_EmptySet DEF TreeInit, PaidOnce
  <2> QED
    BY <2>1, <2>2 DEF TreeInit, TreeInv, OnlyRoundsAreOpen, DrawnInOrder, ToldHasEnded, Children
<1>2. TreeInv /\ [TreeNext]_treeVars => TreeInv'
  <2>1. CASE UNCHANGED treeVars
    BY <2>1 DEF treeVars, TreeInv, TreeTypeOK, OnlyRoundsAreOpen, DrawnInOrder, ToldHasEnded, PaidOnce, Children
  <2> QED
    BY <2>1, BeginStep, CancelStep, RoundStep, CallReturns, SpawnStep, PayStep, AnswerStep, CallToolsStep
       DEF TreeNext, RunStep
<1>3. TreeInv => TurnHolds
  BY OvershootFollows DEF TreeInv, TurnHolds
<1> QED
  BY <1>1, <1>2, <1>3, PTL DEF TreeSpec

-----------------------------------------------------------------------------
(*****************************************************************************)
(* The clock of a turn.                                                      *)
(*****************************************************************************)

\* What is true of the state between any two steps: waits began in the past, what
\* is stopped is held by a call that waits, a deadline is armed from its call's
\* start on, and what it was charged with and what it has left fit in its cap.
WaitsBegan == \A c \in TurnCalls : call[c] = "waiting" => since[c] <= now

StoppedIsHeld ==
  \A d \in paused : \E c \in TurnCalls : call[c] = "waiting" /\ d \in holds[c]

ReadyIsFresh ==
  \A c \in Guests : call[c] = "ready" =>
    c \notin armed /\ c \notin paused /\ c \notin fired /\ charged[c] = 0

Fits(d) ==
  /\ charged[d] <= Cap(d)
  /\ d \in armed \ fired =>
       IF d \in paused THEN charged[d] + left[d] <= Cap(d)
                       ELSE now <= at[d] /\ charged[d] + (at[d] - now) <= Cap(d)

ClockInv ==
  /\ WaitsBegan
  /\ StoppedIsHeld
  /\ ReadyIsFresh
  /\ \A d \in Deadlines : Fits(d)

-----------------------------------------------------------------------------
LEMMA CapType == \A d \in Deadlines : Cap(d) \in Nat
BY ClockAssumption DEF Cap

LEMMA GuestFacts ==
  /\ Guests \subseteq TurnCalls /\ Guests \subseteq Deadlines
  /\ turn \in Deadlines /\ turn \notin TurnCalls
  /\ \A c \in TurnCalls : c \in Deadlines <=> c \in Guests
  /\ \A c \in Guests : Cap(c) = GuestCap
  /\ GuestCap \in Nat
BY ClockAssumption DEF Deadlines, Cap

LEMMA InitType == ClockInit => ClockTypeOK
BY CapType DEF ClockInit, ClockTypeOK, Deadlines

LEMMA TypeStep == ASSUME ClockTypeOK, WaitsBegan, [ClockNext]_clockVars PROVE ClockTypeOK'
<1>1. ASSUME NEW c \in TurnCalls, Start(c) PROVE ClockTypeOK'
  BY <1>1, ClockAssumption DEF Start, ClockTypeOK, Deadlines
<1>2. ASSUME NEW c \in TurnCalls, Pause(c) PROVE ClockTypeOK'
  <2>1. \A d \in Deadlines : Remaining(d) \in Nat
    BY DEF Remaining, ClockTypeOK
  <2>2. left' \in [Deadlines -> Nat]
    BY <1>2, <2>1 DEF Pause, ClockTypeOK
  <2> QED
    BY <1>2, <2>2 DEF Pause, Pausable, ClockTypeOK
<1>3. ASSUME NEW c \in TurnCalls, Resume(c) PROVE ClockTypeOK'
  <2>1. \A d \in Deadlines : Restarted(d) \in Nat
    BY DEF Restarted, ClockTypeOK
  <2>2. at' \in [Deadlines -> Nat]
    BY <1>3, <2>1 DEF Resume, ClockTypeOK
  <2>3. banked' \in Nat
    BY <1>3 DEF Resume, Bank, ClockTypeOK, WaitsBegan
  <2> QED
    BY <1>3, <2>2, <2>3 DEF Resume, ClockTypeOK
<1>4. ASSUME NEW c \in TurnCalls, Return(c) PROVE ClockTypeOK'
  <2>1. ActiveSince(c) \in Nat
    BY DEF ActiveSince, ClockTypeOK
  <2> QED
    BY <1>4, <2>1 DEF Return, ClockTypeOK
<1>5. ASSUME NEW d \in Deadlines, Fire(d) PROVE ClockTypeOK'
  BY <1>5 DEF Fire, ClockTypeOK
<1>6. ASSUME ClockTick PROVE ClockTypeOK'
  BY <1>6 DEF ClockTick, ClockTypeOK
<1>7. ASSUME UNCHANGED clockVars PROVE ClockTypeOK'
  BY <1>7 DEF clockVars, ClockTypeOK
<1> QED
  BY <1>1, <1>2, <1>3, <1>4, <1>5, <1>6, <1>7 DEF ClockNext

LEMMA InvStep == ASSUME ClockTypeOK, ClockInv, [ClockNext]_clockVars PROVE ClockInv'
<1>1. ASSUME NEW c \in TurnCalls, Start(c) PROVE ClockInv'
  <2>1. WaitsBegan' /\ StoppedIsHeld'
    BY <1>1 DEF Start, ClockInv, WaitsBegan, StoppedIsHeld, ClockTypeOK
  <2>2. ReadyIsFresh'
    BY <1>1, GuestFacts DEF Start, ClockInv, ReadyIsFresh, ClockTypeOK
  <2>3. ASSUME NEW d \in Deadlines PROVE Fits(d)'
    <3>1. CASE d = c
      BY <1>1, <3>1, GuestFacts DEF Start, ClockInv, ReadyIsFresh, Fits, ClockTypeOK
    <3>2. CASE d # c
      BY <1>1, <2>3, <3>2 DEF Start, ClockInv, Fits, ClockTypeOK
    <3> QED
      BY <3>1, <3>2
  <2> QED
    BY <2>1, <2>2, <2>3 DEF ClockInv
<1>2. ASSUME NEW c \in TurnCalls, Pause(c) PROVE ClockInv'
  <2>1. WaitsBegan' /\ StoppedIsHeld'
    BY <1>2 DEF Pause, ClockInv, WaitsBegan, StoppedIsHeld, ClockTypeOK
  <2>2. ReadyIsFresh'
    BY <1>2, GuestFacts DEF Pause, Pausable, ClockInv, ReadyIsFresh, ClockTypeOK
  <2>3. ASSUME NEW d \in Deadlines PROVE Fits(d)'
    <3>1. Fits(d) /\ charged[d] \in Nat /\ at[d] \in Nat /\ now \in Nat /\ Cap(d) \in Nat
      BY CapType DEF ClockInv, ClockTypeOK
    <3>2. CASE d \in Pausable
      BY <1>2, <3>1, <3>2 DEF Pause, Pausable, Remaining, Fits
    <3>3. CASE d \notin Pausable
      BY <1>2, <3>1, <3>3 DEF Pause, Pausable, Fits
    <3> QED
      BY <3>2, <3>3
  <2> QED
    BY <2>1, <2>2, <2>3 DEF ClockInv
<1>3. ASSUME NEW c \in TurnCalls, Resume(c) PROVE ClockInv'
  <2>1. WaitsBegan' /\ StoppedIsHeld'
    BY <1>3 DEF Resume, ClockInv, WaitsBegan, StoppedIsHeld, ClockTypeOK
  <2>2. ReadyIsFresh'
    BY <1>3, GuestFacts DEF Resume, ClockInv, ReadyIsFresh, ClockTypeOK
  <2>3. ASSUME NEW d \in Deadlines PROVE Fits(d)'
    <3>1. /\ Fits(d) /\ charged[d] \in Nat /\ left[d] \in Nat /\ now \in Nat /\ Cap(d) \in Nat
      BY CapType DEF ClockInv, ClockTypeOK
    <3>2. CASE d \in holds[c] \cap paused
      BY <1>3, <3>1, <3>2 DEF Resume, Restarted, Fits
    <3>3. CASE d \notin holds[c] \cap paused
      BY <1>3, <3>1, <3>3 DEF Resume, Fits
    <3> QED
      BY <3>2, <3>3
  <2> QED
    BY <2>1, <2>2, <2>3 DEF ClockInv
<1>4. ASSUME NEW c \in TurnCalls, Return(c) PROVE ClockInv'
  BY <1>4, GuestFacts DEF Return, ClockInv, WaitsBegan, StoppedIsHeld, ReadyIsFresh, Fits, ClockTypeOK
<1>5. ASSUME NEW d \in Deadlines, Fire(d) PROVE ClockInv'
  BY <1>5 DEF Fire, Due, ClockInv, WaitsBegan, StoppedIsHeld, ReadyIsFresh, Fits, ClockTypeOK
<1>6. ASSUME ClockTick PROVE ClockInv'
  <2>1. WaitsBegan'
    BY <1>6 DEF ClockTick, ClockInv, WaitsBegan, ClockTypeOK
  <2>2. StoppedIsHeld'
    BY <1>6 DEF ClockTick, ClockInv, StoppedIsHeld
  <2>3. ReadyIsFresh'
    BY <1>6, GuestFacts DEF ClockTick, ClockInv, ReadyIsFresh, ClockTypeOK
  <2>4. ASSUME NEW d \in Deadlines PROVE Fits(d)'
    <3>1. /\ Fits(d) /\ charged[d] \in Nat /\ left[d] \in Nat /\ at[d] \in Nat /\ now \in Nat
          /\ Cap(d) \in Nat
      BY CapType DEF ClockInv, ClockTypeOK
    <3>2. d \in paused => Waiting # {}
      BY DEF ClockInv, StoppedIsHeld, Waiting
    <3>3. d \in armed \ fired /\ d \notin paused => now < at[d]
      BY <1>6, <3>1 DEF ClockTick, Due
    <3>4. charged'[d] = IF d \in armed \ fired /\ Waiting = {} THEN charged[d] + 1 ELSE charged[d]
      BY <1>6 DEF ClockTick
    <3>5. UNCHANGED <<armed, at, left, paused, fired>> /\ now' = now + 1
      BY <1>6 DEF ClockTick
    <3>6. CASE d \in armed \ fired /\ Waiting = {}
      BY <3>1, <3>2, <3>3, <3>4, <3>5, <3>6 DEF Fits
    <3>7. CASE ~(d \in armed \ fired /\ Waiting = {})
      BY <3>1, <3>3, <3>4, <3>5, <3>7 DEF Fits
    <3> QED
      BY <3>6, <3>7
  <2> QED
    BY <2>1, <2>2, <2>3, <2>4 DEF ClockInv
<1>7. ASSUME UNCHANGED clockVars PROVE ClockInv'
  BY <1>7 DEF clockVars, ClockInv, WaitsBegan, StoppedIsHeld, ReadyIsFresh, Fits
<1> QED
  BY <1>1, <1>2, <1>3, <1>4, <1>5, <1>6, <1>7 DEF ClockNext

LEMMA InitInv == ClockInit => ClockInv
BY CapType, GuestFacts
   DEF ClockInit, ClockInv, WaitsBegan, StoppedIsHeld, ReadyIsFresh, Fits

\* The state of the clock keeps its types, and ClockInv.
THEOREM ClockIsConsistent == ClockSpec => [](ClockTypeOK /\ ClockInv)
<1>1. ClockTypeOK /\ ClockInv /\ [ClockNext]_clockVars => ClockTypeOK' /\ ClockInv'
  BY TypeStep, InvStep DEF ClockInv
<1> QED
  BY <1>1, InitType, InitInv, PTL DEF ClockSpec

\* However many calls wait, one after the other or together, no deadline lets its
\* run go on for longer than its cap while nobody is asked anything.
THEOREM NothingOutrunsItsCap == ClockSpec => []Capped
<1>1. ClockInv => Capped
  BY DEF ClockInv, Fits, Capped
<1> QED
  BY <1>1, ClockIsConsistent, PTL

-----------------------------------------------------------------------------
\* As long as nothing has run beside a call that waited, what waits is alone,
\* stops every deadline, deadlines are exact, and so is the account of each
\* call's time.
WaitsAlone == \A c \in Waiting : Out = {c}

WaitStopsAll == Waiting # {} => armed \subseteq paused

Exact(d) ==
  /\ d \in fired => charged[d] = Cap(d)
  /\ d \in armed \ fired =>
       IF d \in paused THEN charged[d] + left[d] = Cap(d)
                       ELSE charged[d] + (at[d] - now) = Cap(d)

Accounted(c) ==
  /\ call[c] = "ready" => active[c] = 0
  /\ call[c] = "running" => (now - start[c]) - (banked - mark[c]) = active[c]
  /\ call[c] = "waiting" => (since[c] - start[c]) - (banked - mark[c]) = active[c]
  /\ call[c] = "done" => report[c] = active[c]

SoleInv ==
  /\ WaitsAlone
  /\ WaitStopsAll
  /\ \A d \in Deadlines : Exact(d)
  /\ \A c \in TurnCalls : Accounted(c)

LEMMA SoleStep ==
  ASSUME ClockTypeOK, ClockInv, SoleInv, [ClockNext]_clockVars, apart'
  PROVE  SoleInv'
<1>0. ASSUME NEW d \in Deadlines
      PROVE  /\ charged[d] \in Nat /\ left[d] \in Nat /\ at[d] \in Nat /\ now \in Nat
             /\ Cap(d) \in Nat /\ Fits(d) /\ Exact(d)
  BY CapType DEF ClockTypeOK, ClockInv, SoleInv
<1>1. ASSUME NEW c \in TurnCalls, Start(c) PROVE SoleInv'
  <2>0. WaitsAlone' /\ Waiting = {}
    BY <1>1 DEF Start, WaitsAlone, Waiting, ClockTypeOK
  <2>1. WaitStopsAll'
    BY <1>1, <2>0 DEF Start, WaitStopsAll, Waiting, ClockTypeOK
  <2>2. ASSUME NEW d \in Deadlines PROVE Exact(d)'
    <3>1. CASE d = c
      <4>1. c \in Guests /\ charged[c] = 0 /\ c \notin paused /\ c \notin fired
        BY <1>1, <3>1, GuestFacts DEF Start, ClockInv, ReadyIsFresh
      <4> QED
        BY <1>0, <1>1, <3>1, <4>1, GuestFacts DEF Start, Exact, ClockTypeOK
    <3>2. CASE d # c
      BY <1>0, <1>1, <3>2 DEF Start, Exact, ClockTypeOK
    <3> QED
      BY <3>1, <3>2
  <2>3. ASSUME NEW b \in TurnCalls PROVE Accounted(b)'
    BY <1>1 DEF Start, SoleInv, Accounted, ClockTypeOK
  <2> QED
    BY <2>0, <2>1, <2>2, <2>3 DEF SoleInv
<1>2. ASSUME NEW c \in TurnCalls, Pause(c) PROVE SoleInv'
  <2>0. WaitsAlone'
    BY <1>2 DEF Pause, WaitsAlone, Waiting, Out, ClockTypeOK
  <2>1. WaitStopsAll'
    BY <1>2 DEF Pause, Pausable, WaitStopsAll
  <2>2. ASSUME NEW d \in Deadlines PROVE Exact(d)'
    <3>1. CASE d \in Pausable
      BY <1>0, <1>2, <3>1 DEF Pause, Pausable, Remaining, Exact, Fits
    <3>2. CASE d \notin Pausable
      BY <1>0, <1>2, <3>2 DEF Pause, Pausable, Exact
    <3> QED
      BY <3>1, <3>2
  <2>3. ASSUME NEW b \in TurnCalls PROVE Accounted(b)'
    BY <1>2 DEF Pause, SoleInv, Accounted, ClockTypeOK
  <2> QED
    BY <2>0, <2>1, <2>2, <2>3 DEF SoleInv
<1>3. ASSUME NEW c \in TurnCalls, Resume(c) PROVE SoleInv'
  <2>a. \A b \in TurnCalls : b # c => call[b] \in {"ready", "done"}
    BY <1>3 DEF Resume, SoleInv, WaitsAlone, Waiting, Out, ClockTypeOK
  <2>0. WaitsAlone' /\ Waiting' = {}
    BY <1>3, <2>a DEF Resume, WaitsAlone, Waiting, ClockTypeOK
  <2>1. WaitStopsAll'
    BY <2>0 DEF WaitStopsAll
  <2>2. ASSUME NEW d \in Deadlines PROVE Exact(d)'
    <3>1. CASE d \in holds[c] \cap paused
      BY <1>0, <1>3, <3>1 DEF Resume, Restarted, Exact
    <3>2. CASE d \notin holds[c] \cap paused
      BY <1>0, <1>3, <3>2 DEF Resume, Exact
    <3> QED
      BY <3>1, <3>2
  <2>3. ASSUME NEW b \in TurnCalls PROVE Accounted(b)'
    BY <1>3, <2>a DEF Resume, Bank, SoleInv, Accounted, ClockTypeOK
  <2> QED
    BY <2>0, <2>1, <2>2, <2>3 DEF SoleInv
<1>4. ASSUME NEW c \in TurnCalls, Return(c) PROVE SoleInv'
  <2>0. WaitsAlone'
    BY <1>4 DEF Return, SoleInv, WaitsAlone, Waiting, Out, ClockTypeOK
  <2>1. WaitStopsAll'
    BY <1>4 DEF Return, SoleInv, WaitStopsAll, Waiting, ClockTypeOK
  <2>2. ASSUME NEW d \in Deadlines PROVE Exact(d)'
    BY <1>0, <1>4 DEF Return, Exact
  <2>3. ASSUME NEW b \in TurnCalls PROVE Accounted(b)'
    <3>1. active[b] \in Nat /\ Accounted(b)
      BY DEF ClockTypeOK, SoleInv
    <3> QED
      BY <1>4, <3>1 DEF Return, ActiveSince, Accounted, ClockTypeOK
  <2> QED
    BY <2>0, <2>1, <2>2, <2>3 DEF SoleInv
<1>5. ASSUME NEW d \in Deadlines, Fire(d) PROVE SoleInv'
  <2>0. WaitsAlone'
    BY <1>5 DEF Fire, SoleInv, WaitsAlone, Waiting, Out
  <2>1. WaitStopsAll'
    BY <1>5 DEF Fire, SoleInv, WaitStopsAll, Waiting
  <2>2. ASSUME NEW e \in Deadlines PROVE Exact(e)'
    <3>1. CASE e = d
      BY <1>0, <1>5, <3>1 DEF Fire, Due, Exact, Fits
    <3>2. CASE e # d
      BY <1>0, <1>5, <3>2 DEF Fire, Exact
    <3> QED
      BY <3>1, <3>2
  <2>3. ASSUME NEW b \in TurnCalls PROVE Accounted(b)'
    BY <1>5 DEF Fire, SoleInv, Accounted
  <2> QED
    BY <2>0, <2>1, <2>2, <2>3 DEF SoleInv
<1>6. ASSUME ClockTick PROVE SoleInv'
  <2>0. WaitsAlone'
    BY <1>6 DEF ClockTick, SoleInv, WaitsAlone, Waiting, Out
  <2>1. WaitStopsAll'
    BY <1>6 DEF ClockTick, SoleInv, WaitStopsAll, Waiting
  <2>2. ASSUME NEW d \in Deadlines PROVE Exact(d)'
    <3>1. d \in armed => (d \in paused <=> Waiting # {})
      BY DEF SoleInv, WaitStopsAll, ClockInv, StoppedIsHeld, Waiting
    <3>2. charged'[d] = IF d \in armed \ fired /\ Waiting = {} THEN charged[d] + 1 ELSE charged[d]
      BY <1>6 DEF ClockTick
    <3>3. UNCHANGED <<armed, at, left, paused, fired>> /\ now' = now + 1
      BY <1>6 DEF ClockTick
    <3> QED
      BY <1>0, <3>1, <3>2, <3>3 DEF Exact
  <2>3. ASSUME NEW b \in TurnCalls PROVE Accounted(b)'
    BY <1>6 DEF ClockTick, SoleInv, Accounted, ClockTypeOK
  <2> QED
    BY <2>0, <2>1, <2>2, <2>3 DEF SoleInv
<1>7. ASSUME UNCHANGED clockVars PROVE SoleInv'
  BY <1>7 DEF clockVars, SoleInv, WaitsAlone, WaitStopsAll, Waiting, Out, Exact, Accounted
<1> QED
  BY <1>1, <1>2, <1>3, <1>4, <1>5, <1>6, <1>7 DEF ClockNext

\* A turn that asks for one thing at a time is charged for exactly the time nobody
\* is asked, and its calls report exactly the time they ran.
THEOREM WaitsApartExact == ClockSpec => []WaitsApartAreExact
<1> DEFINE WhileApart == apart => SoleInv
<1>1. ClockInit => WhileApart
  BY CapType DEF ClockInit, SoleInv, WaitsAlone, WaitStopsAll, Waiting, Exact, Accounted
<1>2. apart' /\ [ClockNext]_clockVars => apart
  BY DEF ClockNext, Start, Pause, Resume, Return, Fire, ClockTick, clockVars
<1>3. ClockTypeOK /\ ClockInv /\ WhileApart /\ [ClockNext]_clockVars => WhileApart'
  BY <1>2, SoleStep
<1>4. ClockTypeOK /\ WhileApart => WaitsApartAreExact
  BY DEF SoleInv, Exact, Accounted, WaitsApartAreExact, WaitingIsFree, DurationIsActive, ClockTypeOK
<1> HIDE DEF WhileApart
<1> QED
  BY <1>1, <1>3, <1>4, ClockIsConsistent, PTL DEF ClockSpec

\* Both: what a turn may run for and what it is charged.
THEOREM ClockAlwaysHolds == ClockSpec => []ClockHolds
<1>1. ClockTypeOK /\ Capped /\ WaitsApartAreExact => ClockHolds
  BY DEF ClockHolds
<1> QED
  BY <1>1, ClockIsConsistent, NothingOutrunsItsCap, WaitsApartExact, PTL

-----------------------------------------------------------------------------
(*****************************************************************************)
(* The devices of the household.                                             *)
(*****************************************************************************)

(* The invariant, by the four parts of the state.  A row's number is never given twice, so *)
(* what is forgotten cannot come back; a renewal that is to be written knows its row; and  *)
(* when the file's bearer is gone, somebody is still about to renew it.                    *)
RegistryKept ==
    /\ rows \subseteq Rows /\ disk \subseteq Rows /\ used \in Rows
    /\ tools \subseteq Rows /\ forgotten \subseteq Rows
    /\ ForgottenStaysGone /\ rows \cup tools \cup forgotten \subseteq 1..used
JoinsKept ==
    /\ code \in 0..MaxTries /\ callers \in 0..MaxCallers /\ downs \in 0..MaxDowns
    /\ joins \in Seq(1..MaxTries)
    /\ JoinsAreBounded
ForgetStages == {"idle", "closing", "checking", "minting", "writing"}
SocketsKept ==
    /\ socketOf \in [Sockets -> 0..MaxRows] /\ target \in [Sockets -> 0..MaxRows]
    /\ socketAt \in [Sockets -> {"none", "known", "open", "late", "closed"}]
    /\ doing \in [Sockets -> ForgetStages]
    /\ \A s \in Sockets : doing[s] = "writing" => target[s] \in Rows
    /\ ForgottenIsCutOff
Renewing == \E s \in Sockets : doing[s] # "idle"
FileKept == cliFile \in Rows /\ spoiled \in BOOLEAN /\ (~spoiled /\ cliFile \notin rows => Renewing)
HomeInv == RegistryKept /\ JoinsKept /\ SocketsKept /\ FileKept

(* A row that is added has a number no device ever had. *)
LEMMA AddKeeps ==
  ASSUME RegistryKept, NEW kept \in BOOLEAN, Add(kept), UNCHANGED forgotten,
         tools' \in {tools, tools \cup {used'}}
  PROVE  RegistryKept' /\ used' \in Rows /\ rows \subseteq rows' /\ (kept => used' \in rows')
<1>1. used \in Nat /\ used' \in Nat /\ used' = used + 1 /\ used' \in Rows /\ 1..used \subseteq 1..used' /\ used' \notin 1..used
  BY HouseholdAssumption DEF Add, RegistryKept, Rows
<1>2. rows' = disk' /\ rows \subseteq rows' /\ rows' \subseteq rows \cup {used'} /\ (kept => used' \in rows')
  BY DEF Add, RegistryKept, ForgottenStaysGone
<1>3. used' \in 1..used'
  BY <1>1 DEF Rows
<1>4. rows' \cup tools' \cup forgotten' \subseteq 1..used'
  BY <1>1, <1>2, <1>3 DEF RegistryKept
<1>5. forgotten' \cap rows' = {}
  BY <1>1, <1>2 DEF RegistryKept, ForgottenStaysGone
<1>6. rows' \subseteq Rows /\ tools' \subseteq Rows /\ forgotten' \subseteq Rows
  BY <1>1, <1>2 DEF RegistryKept
<1> QED
  BY <1>1, <1>2, <1>4, <1>5, <1>6 DEF RegistryKept, ForgottenStaysGone

LEMMA EnrolledKeeps ==
  ASSUME RegistryKept, SocketsKept, FileKept, Enrolled, UNCHANGED <<sockets, commandLine>>
  PROVE  RegistryKept' /\ SocketsKept' /\ FileKept'
<1> PICK kept \in BOOLEAN : Add(kept)
  BY DEF Enrolled
<1>1. RegistryKept' /\ rows \subseteq rows'
  BY AddKeeps DEF Enrolled
<1>2. SocketsKept'
  BY DEF SocketsKept, sockets, Enrolled, ForgottenIsCutOff, BeingClosed
<1>3. FileKept'
  BY <1>1 DEF FileKept, Renewing, sockets, commandLine
<1> QED
  BY <1>1, <1>2, <1>3

(* What the queue of requests becomes. *)
LEMMA PartOfSeq ==
  ASSUME NEW q \in Seq(1..MaxTries), NEW m \in Int, NEW n \in Int, 1 <= m, n <= Len(q)
  PROVE  SubSeq(q, m, n) \in Seq(1..MaxTries) /\ Len(SubSeq(q, m, n)) = IF m <= n THEN n - m + 1 ELSE 0
<1>1. Len(q) \in Nat /\ \A i \in 1..Len(q) : q[i] \in 1..MaxTries
  BY ElementOfSeq, LenProperties
<1>2. \A i \in m..n : i \in 1..Len(q)
  BY <1>1
<1>3. \A i \in m..n : q[i] \in 1..MaxTries
  BY <1>1, <1>2
<1> QED
  BY <1>3, SubSeqProperties

LEMMA LastKeeps ==
  ASSUME NEW q \in Seq(1..MaxTries), NEW n \in Nat
  PROVE  Last(q, n) \in Seq(1..MaxTries) /\ Len(Last(q, n)) <= n
<1>1. Len(q) \in Nat
  BY LenProperties
<1>2. PICK m \in Int : m = (IF Len(q) > n THEN Len(q) - n + 1 ELSE 1) /\ 1 <= m
  BY <1>1
<1>3. SubSeq(q, m, Len(q)) \in Seq(1..MaxTries)
      /\ Len(SubSeq(q, m, Len(q))) = IF m <= Len(q) THEN Len(q) - m + 1 ELSE 0
  BY <1>1, <1>2, PartOfSeq
<1>4. Len(SubSeq(q, m, Len(q))) <= n
  <2>1. Len(q) > n => Len(q) - m + 1 = n
    BY <1>1, <1>2
  <2>2. ~(Len(q) > n) => Len(q) - m + 1 = Len(q)
    BY <1>1, <1>2
  <2> QED
    BY <1>1, <1>2, <1>3, <2>1, <2>2
<1> QED
  BY <1>2, <1>3, <1>4 DEF Last

LEMMA DropKeeps ==
  ASSUME NEW q \in Seq(1..MaxTries), NEW i \in DOMAIN q
  PROVE  DropAt(q, i) \in Seq(1..MaxTries) /\ Len(DropAt(q, i)) = Len(q) - 1
<1>1. Len(q) \in Nat /\ i \in 1..Len(q)
  BY LenProperties
<1>2. SubSeq(q, 1, i - 1) \in Seq(1..MaxTries) /\ Len(SubSeq(q, 1, i - 1)) = i - 1
  <2>1. i - 1 \in Int /\ i - 1 <= Len(q) /\ 1 \in Int /\ 1 <= 1
    BY <1>1
  <2>2. Len(SubSeq(q, 1, i - 1)) = (IF 1 <= i - 1 THEN i - 1 - 1 + 1 ELSE 0)
        /\ SubSeq(q, 1, i - 1) \in Seq(1..MaxTries)
    BY <2>1, PartOfSeq
  <2> QED
    BY <1>1, <2>2
<1>3. SubSeq(q, i + 1, Len(q)) \in Seq(1..MaxTries) /\ Len(SubSeq(q, i + 1, Len(q))) = Len(q) - i
  <2>1. i + 1 \in Int /\ 1 <= i + 1 /\ Len(q) \in Int /\ Len(q) <= Len(q)
    BY <1>1
  <2>2. Len(SubSeq(q, i + 1, Len(q))) = (IF i + 1 <= Len(q) THEN Len(q) - (i + 1) + 1 ELSE 0)
        /\ SubSeq(q, i + 1, Len(q)) \in Seq(1..MaxTries)
    BY <2>1, PartOfSeq
  <2> QED
    BY <1>1, <2>2
<1>4. DropAt(q, i) \in Seq(1..MaxTries)
      /\ Len(DropAt(q, i)) = Len(SubSeq(q, 1, i - 1)) + Len(SubSeq(q, i + 1, Len(q)))
  BY <1>2, <1>3, ConcatProperties DEF DropAt
<1>5. Len(DropAt(q, i)) = (i - 1) + (Len(q) - i)
  BY <1>2, <1>3, <1>4, Zenon
<1>6. (i - 1) + (Len(q) - i) = Len(q) - 1
  BY <1>1
<1> QED
  BY <1>4, <1>5, <1>6, Zenon

LEMMA PairStep == ASSUME HomeInv, Pair \/ PairRefused \/ ArmCode PROVE HomeInv'
<1>1. JoinsKept'
  BY HouseholdAssumption DEF HomeInv, JoinsKept, JoinsAreBounded, Pair, PairRefused, ArmCode
<1>2. CASE Pair
  BY <1>1, <1>2, EnrolledKeeps DEF Pair, HomeInv
<1>3. CASE PairRefused \/ ArmCode
  BY <1>1, <1>3 DEF PairRefused, ArmCode, HomeInv, registry, sockets, commandLine, RegistryKept,
     ForgottenStaysGone, SocketsKept, ForgottenIsCutOff, BeingClosed, FileKept, Renewing
<1> QED
  BY <1>2, <1>3

LEMMA CapJoinsStep == ASSUME HomeInv, CapJoins PROVE HomeInv'
<1> PICK live \in 0..Len(joins) : joins' = Last(Last(joins, live), MaxPending - 1)
  BY DEF CapJoins
<1>1. joins \in Seq(1..MaxTries) /\ MaxPending - 1 \in Nat /\ live \in Nat
  BY HouseholdAssumption DEF HomeInv, JoinsKept
<1>2. joins' \in Seq(1..MaxTries) /\ Len(joins') <= MaxPending - 1
  BY <1>1, LastKeeps
<1>3. callers' \in 0..MaxCallers /\ Len(joins') \in Nat
  BY <1>2, HouseholdAssumption DEF CapJoins, HomeInv, JoinsKept
<1>4. Len(joins') + callers' <= MaxPending - 1 + MaxCallers
  BY <1>1, <1>2, <1>3, HouseholdAssumption
<1>5. JoinsKept'
  BY <1>2, <1>3, <1>4 DEF CapJoins, HomeInv, JoinsKept, JoinsAreBounded
<1> QED
  BY <1>5 DEF CapJoins, HomeInv, registry, sockets, commandLine, RegistryKept, ForgottenStaysGone, SocketsKept,
     ForgottenIsCutOff, BeingClosed, FileKept, Renewing

LEMMA JoinStep == ASSUME HomeInv, Join PROVE HomeInv'
<1>1. joins \in Seq(1..MaxTries) /\ MaxTries \in 1..MaxTries
  BY HouseholdAssumption DEF HomeInv, JoinsKept
<1>2. joins' \in Seq(1..MaxTries) /\ Len(joins') = Len(joins) + 1
  BY <1>1 DEF Join
<1>3. callers' \in 0..MaxCallers /\ callers' = callers - 1 /\ callers \in Nat
  BY HouseholdAssumption DEF Join, HomeInv, JoinsKept
<1>4. Len(joins') + callers' <= MaxPending - 1 + MaxCallers
  BY <1>1, <1>2, <1>3 DEF HomeInv, JoinsKept, JoinsAreBounded
<1>5. JoinsKept'
  BY <1>2, <1>3, <1>4 DEF Join, HomeInv, JoinsKept, JoinsAreBounded
<1> QED
  BY <1>5 DEF Join, HomeInv, registry, sockets, commandLine, RegistryKept, ForgottenStaysGone, SocketsKept,
     ForgottenIsCutOff, BeingClosed, FileKept, Renewing

LEMMA ConfirmStep == ASSUME HomeInv, Confirm \/ ConfirmRefused PROVE HomeInv'
<1>1. joins' \in Seq(1..MaxTries) /\ Len(joins') <= Len(joins)
  <2>1. CASE \E i \in DOMAIN joins : joins' = DropAt(joins, i)
    BY <2>1, DropKeeps DEF HomeInv, JoinsKept
  <2>2. CASE \E i \in DOMAIN joins : joins[i] # 1 /\ joins' = [joins EXCEPT ![i] = @ - 1]
    <3> PICK i \in DOMAIN joins : joins[i] # 1 /\ joins' = [joins EXCEPT ![i] = @ - 1]
      BY <2>2
    <3>1. joins \in Seq(1..MaxTries) /\ i \in 1..Len(joins)
      BY LenProperties DEF HomeInv, JoinsKept
    <3>2. joins[i] \in 1..MaxTries
      BY <3>1, ElementOfSeq
    <3>3. joins[i] - 1 \in 1..MaxTries
      BY <3>2, HouseholdAssumption
    <3> QED
      BY <3>1, <3>3, ExceptSeq
  <2> QED
    BY <2>1, <2>2 DEF Confirm, ConfirmRefused
<1>2. JoinsKept'
  <2>1. callers' = callers /\ code' = code /\ downs' = downs
    BY DEF Confirm, ConfirmRefused
  <2>2. Len(joins') + callers' <= MaxPending - 1 + MaxCallers
    BY <1>1, <2>1, HouseholdAssumption DEF HomeInv, JoinsKept, JoinsAreBounded
  <2> QED
    BY <1>1, <2>1, <2>2 DEF HomeInv, JoinsKept, JoinsAreBounded
<1>3. CASE Confirm
  BY <1>2, <1>3, EnrolledKeeps DEF Confirm, HomeInv
<1>4. CASE ConfirmRefused
  BY <1>2, <1>4 DEF ConfirmRefused, HomeInv, registry, sockets, commandLine, RegistryKept, ForgottenStaysGone,
     SocketsKept, ForgottenIsCutOff, BeingClosed, FileKept, Renewing
<1> QED
  BY <1>3, <1>4

(* A socket comes or goes: no device is forgotten, and no forgetting moves. *)
LEMMA SocketStep ==
  ASSUME HomeInv, NEW s \in Sockets, Connect(s) \/ HubAdd(s) \/ Disconnect(s)
  PROVE  HomeInv'
<1>1. UNCHANGED <<registry, pairing, doing, target, commandLine, downs>>
  BY DEF Connect, HubAdd, Disconnect
<1>2. RegistryKept' /\ JoinsKept' /\ FileKept'
  BY <1>1 DEF HomeInv, registry, pairing, commandLine, RegistryKept, ForgottenStaysGone, JoinsKept, JoinsAreBounded,
     FileKept, Renewing
<1>3. /\ socketOf' \in [Sockets -> 0..MaxRows]
      /\ socketAt' \in [Sockets -> {"none", "known", "open", "late", "closed"}]
  <2>1. CASE Connect(s)
    <3> PICK r \in rows \ tools : socketOf' = [socketOf EXCEPT ![s] = r]
      BY <2>1 DEF Connect
    <3>1. r \in 0..MaxRows
      BY DEF HomeInv, RegistryKept, Rows
    <3> QED
      BY <2>1, <3>1 DEF Connect, HomeInv, SocketsKept
  <2>2. CASE HubAdd(s)
    BY <2>2 DEF HubAdd, HomeInv, SocketsKept
  <2>3. CASE Disconnect(s)
    <3>1. 0 \in 0..MaxRows
      BY HouseholdAssumption
    <3> QED
      BY <2>3, <3>1 DEF Disconnect, Shut, HomeInv, SocketsKept
  <2> QED
    BY <2>1, <2>2, <2>3
<1>4. \A k \in Sockets : socketAt'[k] = "open" =>
        \/ socketAt[k] = "open" /\ socketOf'[k] = socketOf[k]
        \/ socketOf'[k] \in rows
  BY DEF Connect, HubAdd, Disconnect, Shut, HomeInv, SocketsKept
<1>5. ForgottenIsCutOff'
  BY <1>1, <1>4 DEF HomeInv, registry, RegistryKept, ForgottenStaysGone, SocketsKept, ForgottenIsCutOff, BeingClosed
<1>6. SocketsKept'
  BY <1>1, <1>3, <1>5 DEF HomeInv, SocketsKept
<1> QED
  BY <1>2, <1>6 DEF HomeInv

LEMMA ForgetStep == ASSUME HomeInv, NEW s \in Sockets, NEW r \in Rows, Forget(s, r) PROVE HomeInv'
<1>1. doing' \in [Sockets -> ForgetStages] /\ target' \in [Sockets -> 0..MaxRows]
  <2>1. r \in 0..MaxRows
    BY HouseholdAssumption DEF Rows
  <2> QED
    BY <2>1 DEF Forget, HomeInv, SocketsKept, ForgetStages
<1>2. doing'[s] = "closing" /\ target'[s] = r
  BY DEF Forget, HomeInv, SocketsKept
<1>3. \A k \in Sockets : k # s => doing'[k] = doing[k] /\ target'[k] = target[k]
  BY DEF Forget, HomeInv, SocketsKept
<1>4. RegistryKept'
  BY DEF Forget, HomeInv, RegistryKept, ForgottenStaysGone
<1>5. JoinsKept'
  BY DEF Forget, HomeInv, pairing, JoinsKept, JoinsAreBounded
<1>6. ForgottenIsCutOff'
  <2> SUFFICES ASSUME NEW k \in Sockets, socketAt'[k] = "open", socketOf'[k] \in forgotten'
               PROVE  BeingClosed(socketOf[k])'
    BY DEF ForgottenIsCutOff
  <2>1. socketAt[k] = "open" /\ socketOf'[k] = socketOf[k] /\ (socketOf[k] \in forgotten \/ socketOf[k] = r)
    BY DEF Forget
  <2>2. CASE socketOf[k] = r
    BY <1>2, <2>1, <2>2 DEF BeingClosed
  <2>3. CASE socketOf[k] \in forgotten
    <3> PICK j \in Sockets : doing[j] = "closing" /\ target[j] = socketOf[k]
      BY <2>1, <2>3 DEF HomeInv, SocketsKept, ForgottenIsCutOff, BeingClosed
    <3>1. j # s
      BY DEF Forget
    <3> QED
      BY <1>3, <2>1, <3>1 DEF BeingClosed
  <2> QED
    BY <2>1, <2>2, <2>3
<1>7. SocketsKept'
  BY <1>1, <1>2, <1>3, <1>6 DEF Forget, HomeInv, SocketsKept
<1>8. FileKept'
  BY <1>2 DEF Forget, HomeInv, commandLine, FileKept, Renewing
<1> QED
  BY <1>4, <1>5, <1>7, <1>8 DEF HomeInv

LEMMA CloseDeviceStep == ASSUME HomeInv, NEW s \in Sockets, CloseDevice(s) PROVE HomeInv'
<1>1. /\ doing' \in [Sockets -> ForgetStages] /\ doing'[s] = "checking"
      /\ \A k \in Sockets : k # s => doing'[k] = doing[k]
  BY DEF CloseDevice, HomeInv, SocketsKept, ForgetStages
<1>2. RegistryKept' /\ JoinsKept'
  BY DEF CloseDevice, HomeInv, registry, pairing, RegistryKept, ForgottenStaysGone, JoinsKept, JoinsAreBounded
<1>3. /\ socketOf' \in [Sockets -> 0..MaxRows]
      /\ socketAt' \in [Sockets -> {"none", "known", "open", "late", "closed"}]
  <2>1. 0 \in 0..MaxRows
    BY HouseholdAssumption
  <2> QED
    BY <2>1 DEF CloseDevice, Shut, HomeInv, SocketsKept
<1>4. ForgottenIsCutOff'
  <2> SUFFICES ASSUME NEW k \in Sockets, socketAt'[k] = "open", socketOf'[k] \in forgotten'
               PROVE  \E j \in Sockets : doing'[j] = "closing" /\ target'[j] = socketOf'[k]
    BY DEF ForgottenIsCutOff, BeingClosed
  <2>1. socketAt[k] = "open" /\ socketOf'[k] = socketOf[k] /\ socketOf[k] # target[s] /\ socketOf[k] \in forgotten
    BY DEF CloseDevice, Shut, Connected, registry
  <2> PICK j \in Sockets : doing[j] = "closing" /\ target[j] = socketOf[k]
    BY <2>1 DEF HomeInv, SocketsKept, ForgottenIsCutOff, BeingClosed
  <2> QED
    BY <1>1, <2>1 DEF CloseDevice
<1>5. SocketsKept'
  BY <1>1, <1>3, <1>4 DEF CloseDevice, HomeInv, SocketsKept
<1>6. FileKept'
  BY <1>1 DEF CloseDevice, HomeInv, registry, commandLine, FileKept, Renewing
<1> QED
  BY <1>2, <1>5, <1>6 DEF HomeInv

(* A step of the renewal: the stage and the target of one socket move, and none of the two *)
(* stages is that of closing.                                                              *)
LEMMA RenewalMoves ==
  ASSUME SocketsKept, NEW s \in Sockets, NEW to \in ForgetStages \ {"closing"}, NEW t \in 0..MaxRows,
         doing[s] # "closing", to = "writing" => t \in Rows,
         doing' = [doing EXCEPT ![s] = to], target' = [target EXCEPT ![s] = t],
         UNCHANGED <<socketOf, socketAt, forgotten>>
  PROVE  SocketsKept' /\ doing'[s] = to
<1>1. /\ doing' \in [Sockets -> ForgetStages] /\ doing'[s] = to /\ target' \in [Sockets -> 0..MaxRows] /\ target'[s] = t
      /\ \A k \in Sockets : k # s => doing'[k] = doing[k] /\ target'[k] = target[k]
  BY DEF SocketsKept
<1>2. ForgottenIsCutOff'
  BY <1>1 DEF SocketsKept, ForgottenIsCutOff, BeingClosed
<1> QED
  BY <1>1, <1>2 DEF SocketsKept

LEMMA EndsKeeps ==
  ASSUME SocketsKept, NEW s \in Sockets, doing[s] # "closing", Ends(s), UNCHANGED <<socketOf, socketAt, forgotten>>
  PROVE  SocketsKept'
<1>1. 0 \in 0..MaxRows /\ "idle" \in ForgetStages \ {"closing"}
  BY HouseholdAssumption DEF ForgetStages
<1> QED
  BY <1>1, RenewalMoves DEF Ends

LEMMA CheckCLIStep == ASSUME HomeInv, NEW s \in Sockets, CheckCLI(s) PROVE HomeInv'
<1>1. RegistryKept' /\ JoinsKept'
  BY DEF CheckCLI, HomeInv, registry, pairing, RegistryKept, ForgottenStaysGone, JoinsKept, JoinsAreBounded
<1>2. UNCHANGED <<socketOf, socketAt, forgotten, rows, cliFile, spoiled>> /\ doing[s] # "closing"
  BY DEF CheckCLI, registry, commandLine
<1>3. CASE cliFile \in rows
  <2>1. SocketsKept'
    BY <1>2, <1>3, EndsKeeps DEF CheckCLI, HomeInv
  <2>2. FileKept'
    BY <1>2, <1>3 DEF HomeInv, FileKept
  <2> QED
    BY <1>1, <2>1, <2>2 DEF HomeInv
<1>4. CASE cliFile \notin rows
  <2>1. target' = [target EXCEPT ![s] = target[s]] /\ target[s] \in 0..MaxRows
    BY <1>4 DEF CheckCLI, HomeInv, SocketsKept
  <2>2. SocketsKept' /\ doing'[s] = "minting"
    BY <1>2, <1>4, <2>1, RenewalMoves DEF CheckCLI, HomeInv, ForgetStages
  <2>3. FileKept'
    BY <1>2, <2>2 DEF HomeInv, FileKept, Renewing
  <2> QED
    BY <1>1, <2>2, <2>3 DEF HomeInv
<1> QED
  BY <1>3, <1>4

LEMMA MintCLIStep == ASSUME HomeInv, NEW s \in Sockets, MintCLI(s) PROVE HomeInv'
<1> PICK kept \in BOOLEAN :
        /\ Add(kept) /\ tools' = tools \cup {used'}
        /\ IF kept THEN /\ doing' = [doing EXCEPT ![s] = "writing"]
                         /\ target' = [target EXCEPT ![s] = used']
                    ELSE Ends(s)
        /\ spoiled' = (spoiled \/ ~kept)
  BY DEF MintCLI
<1>1. RegistryKept' /\ used' \in Rows /\ rows \subseteq rows'
  BY AddKeeps DEF MintCLI, HomeInv
<1>2. JoinsKept'
  BY DEF MintCLI, HomeInv, pairing, JoinsKept, JoinsAreBounded
<1>3. UNCHANGED <<socketOf, socketAt, forgotten, cliFile>> /\ doing[s] # "closing"
  BY DEF MintCLI
<1>4. CASE kept
  <2>1. used' \in 0..MaxRows
    BY <1>1 DEF Rows
  <2>2. SocketsKept' /\ doing'[s] = "writing"
    BY <1>1, <1>3, <1>4, <2>1, RenewalMoves DEF HomeInv, ForgetStages
  <2>3. FileKept'
    BY <1>3, <1>4, <2>2 DEF HomeInv, FileKept, Renewing
  <2> QED
    BY <1>1, <1>2, <2>2, <2>3 DEF HomeInv
<1>5. CASE ~kept
  <2>1. SocketsKept'
    BY <1>3, <1>5, EndsKeeps DEF HomeInv
  <2>2. FileKept'
    BY <1>3, <1>5 DEF HomeInv, FileKept
  <2> QED
    BY <1>1, <1>2, <2>1, <2>2 DEF HomeInv
<1> QED
  BY <1>4, <1>5

LEMMA WriteCLIStep == ASSUME HomeInv, NEW s \in Sockets, WriteCLI(s) PROVE HomeInv'
<1>1. RegistryKept' /\ JoinsKept'
  BY DEF WriteCLI, HomeInv, registry, pairing, RegistryKept, ForgottenStaysGone, JoinsKept, JoinsAreBounded
<1>2. SocketsKept'
  BY EndsKeeps DEF WriteCLI, HomeInv, registry
<1>3. FileKept'
  BY DEF WriteCLI, HomeInv, registry, SocketsKept, FileKept
<1> QED
  BY <1>1, <1>2, <1>3 DEF HomeInv

LEMMA ServeAgainStep == ASSUME HomeInv, ServeAgain PROVE HomeInv'
<1>1. RegistryKept' /\ cliFile' \in Rows /\ spoiled' \in BOOLEAN /\ (~spoiled' => cliFile' \in rows')
  <2>1. CASE cliFile \in disk
    <3>1. UNCHANGED registry /\ cliFile' = cliFile /\ spoiled' = FALSE
      BY <2>1 DEF ServeAgain, HomeInv, RegistryKept, ForgottenStaysGone, registry
    <3> QED
      BY <2>1, <3>1 DEF HomeInv, registry, RegistryKept, ForgottenStaysGone, FileKept
  <2>2. CASE cliFile \notin disk
    <3> PICK kept \in BOOLEAN, written \in BOOLEAN :
                /\ used < MaxRows /\ used' = used + 1 /\ tools' = tools \cup {used'}
                /\ rows' = IF kept THEN disk \cup {used'} ELSE disk
                /\ disk' = rows'
                /\ cliFile' = IF kept /\ written THEN used' ELSE cliFile
                /\ spoiled' = ~(kept /\ written)
      BY <2>2 DEF ServeAgain
    <3>1. Add(kept) /\ UNCHANGED forgotten
      BY DEF ServeAgain, Add, HomeInv, RegistryKept, ForgottenStaysGone
    <3>2. RegistryKept' /\ used' \in Rows /\ (kept => used' \in rows')
      BY <3>1, AddKeeps DEF HomeInv
    <3> QED
      BY <3>2 DEF HomeInv, FileKept
  <2> QED
    BY <2>1, <2>2
<1>2. JoinsKept'
  <2>1. code' \in 0..MaxTries /\ downs' \in 0..MaxDowns /\ callers' \in 0..MaxCallers
    BY HouseholdAssumption DEF ServeAgain, HomeInv, JoinsKept
  <2>2. joins' \in Seq(1..MaxTries) /\ Len(joins') = 0 /\ callers' = 0
    BY DEF ServeAgain
  <2>3. Len(joins') + callers' <= MaxPending - 1 + MaxCallers
    BY <2>2, HouseholdAssumption
  <2> QED
    BY <2>1, <2>2, <2>3 DEF JoinsKept, JoinsAreBounded
<1>3. SocketsKept'
  <2>1. 0 \in 0..MaxRows
    BY HouseholdAssumption
  <2>2. \A s \in Sockets : socketAt'[s] \in {"none", "closed"} /\ doing'[s] = "idle"
    BY DEF ServeAgain, Shut
  <2>3. /\ socketOf' \in [Sockets -> 0..MaxRows] /\ target' \in [Sockets -> 0..MaxRows]
        /\ doing' \in [Sockets -> ForgetStages]
    BY <2>1 DEF ServeAgain, Shut, HomeInv, SocketsKept, ForgetStages
  <2>4. socketAt' \in [Sockets -> {"none", "known", "open", "late", "closed"}]
    BY <2>1 DEF ServeAgain, Shut, HomeInv, SocketsKept
  <2> QED
    BY <2>2, <2>3, <2>4 DEF SocketsKept, ForgottenIsCutOff
<1>4. FileKept'
  BY <1>1 DEF FileKept
<1> QED
  BY <1>1, <1>2, <1>3, <1>4 DEF HomeInv

LEMMA HomeInitHolds == HomeInit => HomeInv
<1> SUFFICES ASSUME HomeInit PROVE HomeInv
  OBVIOUS
<1>1. 1 \in Rows /\ 1 \in 1..1 /\ 0 \in 0..MaxRows
  BY HouseholdAssumption DEF Rows
<1>2. RegistryKept
  BY <1>1 DEF HomeInit, RegistryKept, ForgottenStaysGone
<1>3. JoinsKept
  <2>1. joins \in Seq(1..MaxTries) /\ Len(joins) = 0
    BY DEF HomeInit
  <2> QED
    BY <2>1, HouseholdAssumption DEF HomeInit, JoinsKept, JoinsAreBounded
<1>4. SocketsKept
  BY <1>1 DEF HomeInit, SocketsKept, ForgetStages, ForgottenIsCutOff
<1>5. FileKept
  BY <1>1 DEF HomeInit, FileKept
<1> QED
  BY <1>2, <1>3, <1>4, <1>5 DEF HomeInv

LEMMA HomeStep == HomeInv /\ [HomeNext]_homeVars => HomeInv'
<1> SUFFICES ASSUME HomeInv, [HomeNext]_homeVars PROVE HomeInv'
  OBVIOUS
<1>1. CASE UNCHANGED homeVars
  BY <1>1 DEF homeVars, HomeInv, RegistryKept, ForgottenStaysGone, JoinsKept, JoinsAreBounded, SocketsKept,
     ForgottenIsCutOff, BeingClosed, FileKept, Renewing
<1>2. CASE HomeNext
  BY <1>2, PairStep, CapJoinsStep, JoinStep, ConfirmStep, SocketStep, ForgetStep, CloseDeviceStep, CheckCLIStep,
     MintCLIStep, WriteCLIStep, ServeAgainStep DEF HomeNext
<1> QED
  BY <1>1, <1>2

LEMMA HomeInvIsEnough == HomeInv => HouseholdHolds
<1>1. HomeInv => HomeTypeOK
  BY DEF HomeInv, RegistryKept, JoinsKept, SocketsKept, FileKept, ForgetStages, HomeTypeOK
<1>2. HomeInv => CommandLineIsKept
  BY DEF HomeInv, FileKept, Renewing, CommandLineIsKept
<1> QED
  BY <1>1, <1>2 DEF HomeInv, RegistryKept, JoinsKept, SocketsKept, HouseholdHolds

(* A revoked device stays revoked over failed saves and restarts, its sockets are closed    *)
(* but for one that entered late; requests to join stay bounded however their two locks     *)
(* interleave; and the command line keeps a credential, unless a renewal of it failed or    *)
(* met a forgetting: internal/auth, internal/serve and cmd/nocturn/enroll.go.               *)
THEOREM HouseholdAlwaysHolds == HomeSpec => []HouseholdHolds
<1>1. HomeInit => HomeInv
  BY HomeInitHolds
<1>2. HomeInv /\ [HomeNext]_homeVars => HomeInv'
  BY HomeStep
<1>3. HomeInv => HouseholdHolds
  BY HomeInvIsEnough
<1> QED
  BY <1>1, <1>2, <1>3, PTL DEF HomeSpec

-----------------------------------------------------------------------------
(*****************************************************************************)
(* The index over the documents.                                             *)
(*****************************************************************************)

(* A timestamp tells what a document says: no index has one of the future, and an entry    *)
(* with the timestamp of the document says what it says, though the entry was read after   *)
(* the walk that found the timestamp.                                                      *)
Timed(f) == \A d \in DOMAIN f : f[d].time \in 0..edits
Tells(f) == \A d \in DOMAIN f \cap DOMAIN folder : f[d].time = folder[d].time => f[d].says = folder[d].says
Told(f) == IsIndex(f) /\ Timed(f) /\ Tells(f)
FolderKept == IsIndex(folder) /\ Timed(folder) /\ edits \in 0..MaxEdits /\ reopens \in 0..MaxReopens
SeenKept == DOMAIN seen \subseteq Docs /\ \A d \in DOMAIN seen : seen[d] \in 0..edits
StoreKept ==
    /\ loaded \in BOOLEAN /\ dirty \in BOOLEAN /\ settled \in BOOLEAN /\ run \in 0..Documents + 1
    /\ loaded /\ ~dirty => cached = onDisk
    /\ (run = AtRest => ~dirty) /\ (run # AtRest => loaded)
(* What a run that nothing disturbed has come past is as the folder says. *)
RunFollows ==
    settled /\ run # AtRest =>
        /\ DOMAIN seen = DOMAIN folder /\ DOMAIN cached \subseteq DOMAIN folder
        /\ \A d \in DOMAIN folder : seen[d] = folder[d].time
        /\ \A d \in DOMAIN folder : d < run => d \in DOMAIN cached /\ cached[d].says = folder[d].says
KnowledgeInv ==
    /\ FolderKept /\ Told(cached) /\ Told(onDisk) /\ SeenKept
    /\ StoreKept /\ RunFollows /\ IndexFollowsFolder

LEMMA LessKeeps ==
  ASSUME NEW f, NEW D
  PROVE  DOMAIN Less(f, D) = DOMAIN f \ D /\ \A x \in DOMAIN f \ D : Less(f, D)[x] = f[x]
BY DEF Less

LEMMA EmptyIsTold == IsIndex(Empty) /\ Timed(Empty) /\ Tells(Empty)
BY DEF Empty, IsIndex, Timed, Tells

LEMMA IndexIsTold == ASSUME KnowledgeInv PROVE Told(Index) /\ (run = AtRest => Index = onDisk)
BY DEF KnowledgeInv, Index, StoreKept, AtRest


LEMMA KnowledgeInitHolds == KnowledgeInit => KnowledgeInv
<1> SUFFICES ASSUME KnowledgeInit PROVE KnowledgeInv
  OBVIOUS
<1>1. 0 \in 0..MaxEdits /\ 0 \in 0..MaxReopens /\ 0 \in 0..Documents + 1 /\ 0 \in 0..0
  BY KnowledgeAssumption
<1>2. DOMAIN folder \subseteq Docs /\ \A d \in DOMAIN folder : folder[d] \in [says : Contents, time : {0}]
  BY DEF KnowledgeInit
<1>3. FolderKept
  BY <1>1, <1>2 DEF KnowledgeInit, FolderKept, IsIndex, Timed, Entries
<1>4. Told(cached) /\ Told(onDisk)
  BY EmptyIsTold DEF KnowledgeInit, Told
<1>5. SeenKept
  BY DEF KnowledgeInit, SeenKept, Empty
<1>6. StoreKept /\ RunFollows /\ IndexFollowsFolder
  BY <1>1 DEF KnowledgeInit, StoreKept, RunFollows, IndexFollowsFolder, AtRest
<1> QED
  BY <1>3, <1>4, <1>5, <1>6 DEF KnowledgeInv

(* The folder changes: what is written has a timestamp no index has. *)
LEMMA ChangeStep ==
  ASSUME KnowledgeInv, NEW d \in Docs, WriteDoc(d) \/ RemoveDoc(d)
  PROVE  KnowledgeInv'
<1>1. edits \in Nat /\ edits' = edits + 1 /\ edits' \in 0..MaxEdits /\ 0..edits \subseteq 0..edits' /\ edits' \notin 0..edits
      /\ edits' \in 0..edits'
  BY KnowledgeAssumption DEF WriteDoc, RemoveDoc, Changed, KnowledgeInv, FolderKept
<1>2. settled' = FALSE /\ UNCHANGED <<cached, loaded, onDisk, dirty, run, seen, reopens>>
  BY DEF WriteDoc, RemoveDoc, Changed
<1>3. \A x \in DOMAIN folder' :
        \/ x \in DOMAIN folder /\ folder'[x] = folder[x]
        \/ x = d /\ folder'[x] \in Entries /\ folder'[x].time = edits'
  <2>1. CASE RemoveDoc(d)
    <3>1. folder' = Less(folder, {d})
      BY <2>1 DEF RemoveDoc
    <3>2. DOMAIN folder' = DOMAIN folder \ {d} /\ \A x \in DOMAIN folder \ {d} : folder'[x] = folder[x]
      BY <3>1, LessKeeps
    <3> QED
      BY <3>2
  <2>2. CASE WriteDoc(d)
    <3> PICK c \in Contents : folder' = With(folder, d, [says |-> c, time |-> edits + 1])
      BY <2>2 DEF WriteDoc
    <3>1. [says |-> c, time |-> edits + 1] \in Entries /\ [says |-> c, time |-> edits + 1].time = edits'
      BY <1>1 DEF Entries
    <3>2. DOMAIN folder' = DOMAIN folder \cup {d} /\ folder'[d] = [says |-> c, time |-> edits + 1]
          /\ \A x \in DOMAIN folder : x # d => folder'[x] = folder[x]
      BY DEF With
    <3> QED
      BY <3>1, <3>2
  <2> QED
    BY <2>1, <2>2
<1>4. FolderKept'
  BY <1>1, <1>2, <1>3 DEF KnowledgeInv, FolderKept, IsIndex, Timed
<1>5. Told(cached)' /\ Told(onDisk)'
  BY <1>1, <1>2, <1>3 DEF KnowledgeInv, Told, IsIndex, Timed, Tells
<1>6. SeenKept'
  BY <1>1, <1>2 DEF KnowledgeInv, SeenKept
<1>7. StoreKept' /\ RunFollows' /\ IndexFollowsFolder'
  BY <1>2 DEF KnowledgeInv, StoreKept, RunFollows, IndexFollowsFolder
<1> QED
  BY <1>4, <1>5, <1>6, <1>7 DEF KnowledgeInv

LEMMA GiveUpStep ==
  ASSUME KnowledgeInv, NEW ix, NEW changed \in BOOLEAN, GiveUp(ix, changed), Told(ix), ~changed => ix = onDisk
  PROVE  KnowledgeInv'
<1>1. UNCHANGED <<folder, onDisk, seen, edits, reopens>>
  BY DEF GiveUp
<1>2. FolderKept' /\ SeenKept' /\ Told(onDisk)'
  BY <1>1 DEF KnowledgeInv, FolderKept, SeenKept, Told, IsIndex, Timed, Tells
<1>3. Told(cached)'
  <2>1. CASE changed
    BY <2>1, EmptyIsTold, <1>1 DEF GiveUp, Told, IsIndex, Timed, Tells
  <2>2. CASE ~changed
    BY <2>2, <1>1 DEF GiveUp, Told, IsIndex, Timed, Tells
  <2> QED
    BY <2>1, <2>2
<1>4. run' = 0 /\ 0 \in 0..Documents + 1
  BY KnowledgeAssumption DEF GiveUp, AtRest
<1>5. StoreKept'
  BY <1>1, <1>4 DEF GiveUp, StoreKept, AtRest
<1>6. RunFollows' /\ IndexFollowsFolder'
  BY DEF GiveUp, RunFollows, IndexFollowsFolder
<1> QED
  BY <1>2, <1>3, <1>5, <1>6 DEF KnowledgeInv

LEMMA BeginIndexStep == ASSUME KnowledgeInv, Begin PROVE KnowledgeInv'
<1>1. UNCHANGED <<folder, onDisk, edits, reopens>> /\ run' = 1 /\ loaded' = TRUE /\ settled' = TRUE
      /\ dirty' = (cached' # Index)
  BY DEF Begin
<1>2. FolderKept' /\ Told(onDisk)'
  BY <1>1 DEF KnowledgeInv, FolderKept, Told, IsIndex, Timed, Tells
<1>3. DOMAIN seen' = DOMAIN folder /\ \A d \in DOMAIN folder : seen'[d] = folder[d].time
  BY DEF Begin
<1>4. SeenKept'
  BY <1>1, <1>3 DEF KnowledgeInv, FolderKept, IsIndex, Timed, SeenKept
<1>5. DOMAIN cached' = DOMAIN Index \ (Docs \ DOMAIN folder) /\ \A x \in DOMAIN cached' : cached'[x] = Index[x]
  <2>1. cached' = Less(Index, Docs \ DOMAIN folder)
    BY DEF Begin
  <2> QED
    BY <2>1 DEF Less
<1>6. Told(cached)'
  BY <1>1, <1>5, IndexIsTold DEF Told, IsIndex, Timed, Tells
<1>7. DOMAIN cached' \subseteq DOMAIN folder
  BY <1>5, IndexIsTold DEF Told, IsIndex
<1>8. StoreKept'
  <2>1. 1 \in 0..Documents + 1 /\ run' # AtRest
    BY <1>1, KnowledgeAssumption DEF AtRest
  <2>2. Index = onDisk
    BY IndexIsTold DEF Begin
  <2>3. dirty' \in BOOLEAN /\ settled' \in BOOLEAN /\ loaded' \in BOOLEAN
    BY DEF Begin
  <2> QED
    BY <1>1, <2>1, <2>2, <2>3 DEF StoreKept
<1>9. RunFollows'
  <2>1. \A d \in DOMAIN folder : ~(d < 1)
    BY KnowledgeAssumption DEF KnowledgeInv, FolderKept, IsIndex, Docs
  <2> QED
    BY <1>1, <1>3, <1>7, <2>1 DEF RunFollows
<1>10. IndexFollowsFolder'
  BY <1>1 DEF IndexFollowsFolder, AtRest
<1> QED
  BY <1>2, <1>4, <1>6, <1>8, <1>9, <1>10 DEF KnowledgeInv

(* The run comes past a document, with nothing, or with an entry for it. *)
LEMMA ComesPast ==
  ASSUME KnowledgeInv, NEW d \in Docs, Visit(d), ToNext
  PROVE  /\ FolderKept' /\ SeenKept' /\ Told(onDisk)'
         /\ run' \in 0..Documents + 1 /\ run' # AtRest /\ run # AtRest /\ loaded /\ loaded'
         /\ IndexFollowsFolder' /\ \A x \in Docs : x < run' => x < run \/ x = d
<1>1. UNCHANGED <<folder, loaded, onDisk, seen, edits, reopens>> /\ run = d /\ run' = d + 1
  BY DEF ToNext, Visit
<1>2. d \in 1..Documents /\ d + 1 \in 0..Documents + 1 /\ d # 0 /\ d + 1 # 0
  BY KnowledgeAssumption DEF Docs
<1>3. FolderKept' /\ SeenKept' /\ Told(onDisk)'
  BY <1>1 DEF KnowledgeInv, FolderKept, SeenKept, Told, IsIndex, Timed, Tells
<1>4. \A x \in Docs : x < d + 1 => x < d \/ x = d
  BY <1>2, KnowledgeAssumption DEF Docs
<1>5. loaded
  BY <1>1, <1>2 DEF KnowledgeInv, StoreKept, AtRest
<1> QED
  BY <1>1, <1>2, <1>3, <1>4, <1>5 DEF IndexFollowsFolder, AtRest

LEMMA PassedStep ==
  ASSUME KnowledgeInv, NEW d \in Docs, Skip(d) \/ Unreadable(d)
  PROVE  KnowledgeInv'
<1>1. Visit(d) /\ ToNext /\ UNCHANGED <<cached, dirty>>
  BY DEF Skip, Unreadable
<1>2. UNCHANGED <<folder, loaded, onDisk, seen, edits>>
  BY <1>1 DEF ToNext
<1>3. Told(cached)'
  BY <1>1, <1>2 DEF KnowledgeInv, Told, IsIndex, Timed, Tells
<1>4. StoreKept'
  BY <1>1, <1>2, ComesPast DEF Skip, Unreadable, KnowledgeInv, StoreKept
<1>5. RunFollows'
  <2> SUFFICES ASSUME settled' PROVE RunFollows'
    BY DEF RunFollows
  <2>1. settled /\ Skip(d)
    BY DEF Skip, Unreadable
  <2>2. /\ DOMAIN seen = DOMAIN folder /\ DOMAIN cached \subseteq DOMAIN folder
        /\ \A x \in DOMAIN folder : seen[x] = folder[x].time
        /\ \A x \in DOMAIN folder : x < run => x \in DOMAIN cached /\ cached[x].says = folder[x].says
    BY <1>1, <2>1, ComesPast DEF KnowledgeInv, RunFollows
  <2>3. d \in DOMAIN folder => d \in DOMAIN cached /\ cached[d].says = folder[d].says
    BY <2>1, <2>2 DEF Skip, AsSeen, Known, KnowledgeInv, Told, Tells
  <2>4. \A x \in DOMAIN folder : x < run' => x \in DOMAIN cached /\ cached[x].says = folder[x].says
    BY <1>1, <2>2, <2>3, ComesPast DEF KnowledgeInv, FolderKept, IsIndex
  <2> QED
    BY <1>1, <1>2, <2>2, <2>4 DEF RunFollows
<1> QED
  BY <1>1, <1>3, <1>4, <1>5, ComesPast DEF KnowledgeInv

LEMMA EnteredStep ==
  ASSUME KnowledgeInv, NEW d \in Docs, Touch(d) \/ Embed(d)
  PROVE  KnowledgeInv'
<1>1. Visit(d) /\ ToNext /\ d \in DOMAIN seen /\ d \in DOMAIN folder /\ cached' = Entered(d) /\ dirty' /\ settled' = settled
  BY DEF Touch, Embed, Reads
<1>2. UNCHANGED <<folder, loaded, onDisk, seen, edits>>
  BY <1>1 DEF ToNext
<1> DEFINE e == [says |-> folder[d].says, time |-> seen[d]]
<1>9. cached' = With(cached, d, e)
  BY <1>1 DEF Entered
<1>3. DOMAIN cached' = DOMAIN cached \cup {d} /\ \A x \in DOMAIN cached : x # d => cached'[x] = cached[x]
  BY <1>9 DEF With
<1>4. cached'[d] = e
  BY <1>9 DEF With
<1>5. cached'[d].says = folder[d].says /\ cached'[d].time = seen[d] /\ seen[d] \in 0..edits /\ cached'[d] \in Entries
  <2>1. folder[d] \in Entries /\ seen[d] \in 0..edits
    BY <1>1 DEF KnowledgeInv, FolderKept, IsIndex, SeenKept
  <2>2. seen[d] \in 0..MaxEdits
    BY <2>1, KnowledgeAssumption DEF KnowledgeInv, FolderKept
  <2> QED
    BY <1>4, <2>1, <2>2 DEF Entries
<1>6. Told(cached)'
  BY <1>2, <1>3, <1>5 DEF KnowledgeInv, Told, IsIndex, Timed, Tells
<1>7. StoreKept'
  BY <1>1, ComesPast DEF KnowledgeInv, StoreKept, Touch, Embed
<1>8. RunFollows'
  <2> SUFFICES ASSUME settled' PROVE RunFollows'
    BY DEF RunFollows
  <2>2. /\ DOMAIN seen = DOMAIN folder /\ DOMAIN cached \subseteq DOMAIN folder
        /\ \A x \in DOMAIN folder : seen[x] = folder[x].time
        /\ \A x \in DOMAIN folder : x < run => x \in DOMAIN cached /\ cached[x].says = folder[x].says
    BY <1>1, ComesPast DEF KnowledgeInv, RunFollows
  <2>3. \A x \in DOMAIN folder : x < run' => x < run \/ x = d
    BY <1>1, ComesPast DEF KnowledgeInv, FolderKept, IsIndex
  <2>4. \A x \in DOMAIN folder : x < run' => x \in DOMAIN cached' /\ cached'[x].says = folder[x].says
    BY <1>3, <1>5, <2>2, <2>3
  <2>5. DOMAIN cached' \subseteq DOMAIN folder
    BY <1>1, <1>3, <2>2
  <2> QED
    BY <1>2, <2>2, <2>4, <2>5 DEF RunFollows
<1> QED
  BY <1>1, <1>6, <1>7, <1>8, ComesPast DEF KnowledgeInv

LEMMA SaveStep == ASSUME KnowledgeInv, Save PROVE KnowledgeInv'
<1>1. UNCHANGED <<folder, cached, loaded, seen, settled, edits, reopens>> /\ run' = AtRest /\ dirty' = FALSE
      /\ run = Documents + 1
  BY DEF Save, Ending
<1>7. run # AtRest
  BY <1>1, KnowledgeAssumption DEF AtRest
<1>2. loaded /\ onDisk' = cached
  BY <1>1, <1>7 DEF Save, KnowledgeInv, StoreKept
<1>3. FolderKept' /\ SeenKept' /\ Told(cached)' /\ Told(onDisk)'
  BY <1>1, <1>2 DEF KnowledgeInv, FolderKept, SeenKept, Told, IsIndex, Timed, Tells
<1>4. StoreKept'
  <2>1. AtRest \in 0..Documents + 1
    BY KnowledgeAssumption DEF AtRest
  <2> QED
    BY <1>1, <1>2, <2>1 DEF KnowledgeInv, StoreKept
<1>5. RunFollows'
  BY <1>1 DEF RunFollows
<1>6. IndexFollowsFolder'
  <2> SUFFICES ASSUME settled PROVE DOMAIN cached = DOMAIN folder /\ \A d \in DOMAIN folder : cached[d].says = folder[d].says
    BY <1>1, <1>2 DEF IndexFollowsFolder
  <2>1. \A d \in DOMAIN folder : d < run
    BY <1>1, KnowledgeAssumption DEF KnowledgeInv, FolderKept, IsIndex, Docs
  <2> QED
    BY <1>1, <1>7, <2>1 DEF KnowledgeInv, RunFollows
<1> QED
  BY <1>3, <1>4, <1>5, <1>6 DEF KnowledgeInv

LEMMA SearchStep == ASSUME KnowledgeInv, Search PROVE KnowledgeInv'
<1>1. UNCHANGED <<folder, onDisk, dirty, run, seen, settled, edits, reopens>> /\ loaded' /\ loaded' \in BOOLEAN
      /\ cached' = Index /\ run = AtRest
  BY DEF Search
<1>2. FolderKept' /\ SeenKept' /\ Told(onDisk)'
  BY <1>1 DEF KnowledgeInv, FolderKept, SeenKept, Told, IsIndex, Timed, Tells
<1>3. Told(cached)'
  BY <1>1, IndexIsTold DEF Told, IsIndex, Timed, Tells
<1>4. StoreKept' /\ RunFollows' /\ IndexFollowsFolder'
  BY <1>1, IndexIsTold DEF KnowledgeInv, StoreKept, RunFollows, IndexFollowsFolder
<1> QED
  BY <1>2, <1>3, <1>4 DEF KnowledgeInv

LEMMA ReopenStep == ASSUME KnowledgeInv, Reopen PROVE KnowledgeInv'
<1>1. UNCHANGED <<folder, onDisk, seen, edits>> /\ cached' = Empty /\ run' = AtRest /\ reopens' \in 0..MaxReopens
  BY KnowledgeAssumption DEF Reopen, KnowledgeInv, FolderKept
<1>2. FolderKept' /\ SeenKept' /\ Told(onDisk)'
  BY <1>1 DEF KnowledgeInv, FolderKept, SeenKept, Told, IsIndex, Timed, Tells
<1>3. Told(cached)'
  BY <1>1, EmptyIsTold DEF Told, IsIndex, Timed, Tells
<1>4. StoreKept'
  <2>1. AtRest \in 0..Documents + 1
    BY KnowledgeAssumption DEF AtRest
  <2> QED
    BY <1>1, <2>1 DEF Reopen, KnowledgeInv, StoreKept
<1>5. RunFollows' /\ IndexFollowsFolder'
  BY <1>1 DEF Reopen, KnowledgeInv, RunFollows, IndexFollowsFolder
<1> QED
  BY <1>2, <1>3, <1>4, <1>5 DEF KnowledgeInv

LEMMA KnowledgeStep == KnowledgeInv /\ [KnowledgeNext]_knowledgeVars => KnowledgeInv'
<1> SUFFICES ASSUME KnowledgeInv, [KnowledgeNext]_knowledgeVars PROVE KnowledgeInv'
  OBVIOUS
<1>1. CASE UNCHANGED knowledgeVars
  BY <1>1 DEF knowledgeVars, indexVars, KnowledgeInv, FolderKept, Told, IsIndex, Timed, Tells, SeenKept, StoreKept,
     RunFollows, IndexFollowsFolder
<1>2. CASE BeginFails
  BY <1>2, GiveUpStep, IndexIsTold DEF BeginFails
<1>3. ASSUME NEW d \in Docs, EmbedFails(d) PROVE KnowledgeInv'
  <2>1. loaded /\ dirty \in BOOLEAN
    BY <1>3, KnowledgeAssumption DEF EmbedFails, Reads, Visit, Docs, KnowledgeInv, StoreKept, AtRest
  <2> QED
    BY <1>3, <2>1, GiveUpStep DEF EmbedFails, KnowledgeInv, StoreKept
<1>4. CASE SaveFails
  BY <1>4, GiveUpStep DEF SaveFails, KnowledgeInv, StoreKept
<1>5. CASE KnowledgeNext
  BY <1>2, <1>3, <1>4, <1>5, ChangeStep, BeginIndexStep, PassedStep, EnteredStep, SaveStep, SearchStep, ReopenStep
     DEF KnowledgeNext
<1> QED
  BY <1>1, <1>5

LEMMA KnowledgeInvIsEnough == KnowledgeInv => KnowledgeHolds
BY DEF KnowledgeInv, FolderKept, Told, SeenKept, StoreKept, KnowledgeHolds, KnowledgeTypeOK, CacheIsSaved

(* Whatever is written, touched or taken away while an index run is under way, and wherever *)
(* a run or the daemon stops: between runs the cache is the index on disk, and a run that   *)
(* met no change and passed nothing over leaves an index that says what the folder says:    *)
(* Store.Index, Search and save of internal/knowledge.                                      *)
THEOREM KnowledgeAlwaysHolds == KnowledgeSpec => []KnowledgeHolds
<1>1. KnowledgeInit => KnowledgeInv
  BY KnowledgeInitHolds
<1>2. KnowledgeInv /\ [KnowledgeNext]_knowledgeVars => KnowledgeInv'
  BY KnowledgeStep
<1>3. KnowledgeInv => KnowledgeHolds
  BY KnowledgeInvIsEnough
<1> QED
  BY <1>1, <1>2, <1>3, PTL DEF KnowledgeSpec

-----------------------------------------------------------------------------
(*****************************************************************************)
(* The catalog.                                                              *)
(*****************************************************************************)

(* What is taken, and what is in hand, was measured against the floor and against what this *)
(* build reads.                                                                             *)
LookupsChecked ==
    \A r \in Lookups :
        /\ stage[r] \in {"taking", "caching"} => got[r].serial <= floor
        /\ stage[r] \in {"raising", "taking", "caching"} => got[r].serial \notin Unfit
        /\ stage[r] = "raising" => got[r].serial # Bare
(* As long as it is calm there is one lookup, what it takes is the floor itself, and no     *)
(* answer was above the floor or above what is in hand.                                     *)
Top == Greater(answer.now, answer.most)
OneAtATime == \A r, q \in Lookups : stage[r] # "away" /\ stage[q] # "away" => r = q
LookupInOrder ==
    \A r \in Lookups :
        /\ stage[r] = "fetching" => copy[r] = held
        /\ stage[r] = "raising" => got[r].serial >= floor
        /\ stage[r] \in {"taking", "caching"} => got[r].serial = Bare \/ got[r].serial = floor
        /\ stage[r] = "caching" => held = {got[r].serial}
AnswersBelow == Top <= floor /\ \A c \in held : c = Bare \/ c >= Top
CalmOrder == calm => OneAtATime /\ floorOnDisk = floor /\ LookupInOrder /\ AnswersBelow /\ ShelfGoesForward
(* As long as all was saved, the shelf holds the last answer, unless a new one is on its    *)
(* way to it; a copy taken from the disk is that answer.                                    *)
Rest ==
    /\ held \subseteq {answer.now} /\ cache \subseteq {answer.now}
    /\ cache # {} => answer.now = Bare \/ (answer.now = floor /\ answer.now \notin Unfit)
Arriving(r) == stage[r] \in {"taking", "caching"} /\ got[r].from = "source"
LookupSaves ==
    \A r \in Lookups :
        /\ stage[r] \in {"checking", "raising", "taking"} /\ got[r].from = "disk" => got[r].serial = answer.now
        /\ stage[r] = "checking" /\ got[r].from = "disk" => cache # {}
        /\ stage[r] = "caching" => got[r].from = "source"
SavedRest == saved => calm /\ LookupSaves /\ OfflineIsTheLast /\ ((\E r \in Lookups : Arriving(r)) \/ Rest)
LibraryInv == LibraryTypeOK /\ HeldIsAccepted /\ LookupsChecked /\ CalmOrder /\ SavedRest

Parsed == [serial : Catalogs, from : Origins]
Answers == [now : Catalogs, before : Catalogs, from : Origins \cup {"hand"}, most : Catalogs]

LEMMA CopiesAreSmall ==
  /\ NoCopy \in Copies /\ \A c \in Catalogs : {c} \in Copies
  /\ \A C \in Copies : C \subseteq Catalogs /\ \A a, b \in C : a = b
<1>1. NoCopy \in Copies
  BY FS_EmptySet DEF NoCopy, Copies
<1>2. ASSUME NEW c \in Catalogs PROVE {c} \in Copies
  <2>1. Cardinality({c}) = 1
    BY FS_Singleton
  <2> QED
    BY <2>1 DEF Copies
<1>3. ASSUME NEW C \in Copies, NEW a \in C, NEW b \in C PROVE a = b
  <2>1. C \subseteq 0..MaxSerial /\ Cardinality(C) <= 1
    BY DEF Copies, Catalogs
  <2>2. IsFiniteSet(0..MaxSerial)
    BY LibraryAssumption, FS_Interval
  <2>3. IsFiniteSet(C)
    BY <2>1, <2>2, FS_Subset
  <2>4. IsFiniteSet({a}) /\ Cardinality({a}) = 1 /\ {a} \subseteq C
    BY FS_Singleton
  <2>5. Cardinality({a}) <= Cardinality(C) /\ (Cardinality({a}) = Cardinality(C) => {a} = C)
    BY <2>3, <2>4, FS_Subset
  <2>6. Cardinality(C) \in Nat
    BY <2>3, FS_CardinalityType
  <2>7. {a} = C
    BY <2>1, <2>4, <2>5, <2>6
  <2> QED
    BY <2>7
<1> QED
  BY <1>1, <1>2, <1>3 DEF Copies

LEMMA LookupFacts ==
  ASSUME LibraryTypeOK, NEW r \in Lookups
  PROVE  got[r] \in Parsed /\ got[r].serial \in Catalogs /\ got[r].from \in Origins /\ stage[r] \in Stages /\ copy[r] \in Copies
<1>1. got[r] \in Parsed /\ stage[r] \in Stages /\ copy[r] \in Copies
  BY DEF LibraryTypeOK, Parsed
<1> QED
  BY <1>1 DEF Parsed

LEMMA LibraryNumbers ==
  ASSUME LibraryTypeOK
  PROVE  /\ floor \in Nat /\ answer.now \in Catalogs /\ answer.most \in Catalogs /\ answer.before \in Catalogs
         /\ Top \in Catalogs /\ Catalogs \subseteq Nat /\ Bare \in Catalogs /\ Bare \notin Unfit
         /\ \A c \in held : c \in Catalogs
<1>1. Catalogs \subseteq Nat /\ Bare \in Catalogs /\ Bare \notin Unfit
  BY LibraryAssumption DEF Catalogs, Bare
<1>2. answer.now \in Catalogs /\ answer.most \in Catalogs /\ answer.before \in Catalogs /\ floor \in Catalogs
      /\ held \in Copies
  BY DEF LibraryTypeOK
<1>3. Top \in Catalogs
  BY <1>2 DEF Top, Greater
<1> QED
  BY <1>1, <1>2, <1>3, CopiesAreSmall

(* The steps' effects. *)
Moved(r, to) == /\ stage' \in [Lookups -> Stages] /\ stage'[r] = to
                /\ \A q \in Lookups : q # r => stage'[q] = stage[q]
LEMMA AdvancesTo ==
  ASSUME LibraryTypeOK, NEW r \in Lookups, NEW from, NEW to \in Stages, Advances(r, from, to)
  PROVE  stage[r] = from /\ Moved(r, to)
BY DEF LibraryTypeOK, Advances, Moved

Holding(r, s, from) ==
    /\ got' \in [Lookups -> Parsed] /\ got'[r].serial = s /\ got'[r].from = from
    /\ \A q \in Lookups : q # r => got'[q] = got[q]
LEMMA HoldsOn ==
  ASSUME LibraryTypeOK, NEW r \in Lookups, NEW s \in Catalogs, Hold(r, s)
  PROVE  Holding(r, s, got[r].from)
<1>1. got \in [Lookups -> Parsed] /\ got[r] \in Parsed
  BY DEF LibraryTypeOK, Parsed
<1>2. got' = [got EXCEPT ![r] = [got[r] EXCEPT !.serial = s]]
  BY <1>1 DEF Hold
<1>3. [got[r] EXCEPT !.serial = s] \in Parsed /\ [got[r] EXCEPT !.serial = s].serial = s
      /\ [got[r] EXCEPT !.serial = s].from = got[r].from
  BY <1>1 DEF Parsed
<1> QED
  BY <1>1, <1>2, <1>3 DEF Holding

LEMMA HoldsNew ==
  ASSUME LibraryTypeOK, NEW r \in Lookups, NEW s \in Catalogs, NEW from \in Origins,
         got' = [got EXCEPT ![r] = [serial |-> s, from |-> from]]
  PROVE  Holding(r, s, from)
<1>1. got \in [Lookups -> Parsed]
  BY DEF LibraryTypeOK, Parsed
<1>2. [serial |-> s, from |-> from] \in Parsed
  BY DEF Parsed
<1> QED
  BY <1>1, <1>2 DEF Holding

LEMMA AnswerIs ==
  ASSUME LibraryTypeOK, NEW c \in Catalogs, NEW from \in Origins \cup {"hand"}, Answered(c, from)
  PROVE  /\ answer' \in Answers
         /\ calm => answer'.now = c /\ answer'.before = answer.now /\ answer'.from = from /\ answer'.most = Top
<1>1. CASE calm
  <2>1. answer' = [now |-> c, before |-> answer.now, from |-> from, most |-> Top]
    BY <1>1 DEF Answered, Top
  <2>2. answer.now \in Catalogs /\ Top \in Catalogs
    BY LibraryNumbers
  <2> QED
    BY <2>1, <2>2 DEF Answers
<1>2. CASE ~calm
  BY <1>2, LibraryNumbers DEF Answered, NoAnswer, Answers, Origins
<1> QED
  BY <1>1, <1>2

(* An answer that is not below the ones before it, nor above the floor. *)
LEMMA AnswerGoesForward ==
  ASSUME LibraryTypeOK, calm, NEW c \in Catalogs, NEW from \in Origins \cup {"hand"}, Answered(c, from),
         Top <= floor, c <= floor, c = Bare \/ c >= Top
  PROVE  /\ Greater(answer'.now, answer'.most) <= floor
         /\ Greater(answer'.now, answer'.most) = (IF c = Bare THEN Top ELSE c)
         /\ answer'.now # Bare => answer'.now >= answer'.most
<1>1. answer'.now = c /\ answer'.most = Top
  BY AnswerIs
<1>2. c \in Nat /\ Top \in Nat /\ floor \in Nat
  BY LibraryNumbers
<1> QED
  BY <1>1, <1>2 DEF Greater, Bare

LEMMA PublishStep == ASSUME LibraryInv, Publish PROVE LibraryInv'
<1>1. UNCHANGED <<held, cache, floor, floorOnDisk, stage, copy, got, answer, calm, saved, restarts>>
      /\ published < MaxSerial /\ published' = published + 1
  BY DEF Publish, Shelf, Floors, History
<1>2. published' \in Catalogs
  BY <1>1, LibraryAssumption DEF LibraryInv, LibraryTypeOK, Catalogs
<1>3. LibraryTypeOK'
  BY <1>1, <1>2 DEF LibraryInv, LibraryTypeOK
<1>4. HeldIsAccepted' /\ LookupsChecked' /\ CalmOrder'
  BY <1>1 DEF LibraryInv, HeldIsAccepted, LookupsChecked, CalmOrder, OneAtATime, LookupInOrder, AnswersBelow, Top,
     ShelfGoesForward
<1>5. SavedRest'
  BY <1>1 DEF LibraryInv, SavedRest, LookupSaves, OfflineIsTheLast, Arriving, Rest
<1> QED
  BY <1>3, <1>4, <1>5 DEF LibraryInv

(* The catalog in hand is the answer, on the spot or because the source cannot be reached. *)
LEMMA HandAnswers ==
  ASSUME LibraryInv, NEW c \in held, Answered(c, "hand"), UNCHANGED <<Source, Shelf, Floors, got, calm>>
  PROVE  /\ answer' \in Answers /\ (calm => AnswersBelow' /\ ShelfGoesForward')
         /\ Rest /\ calm => Rest' /\ answer'.now = answer.now /\ answer'.before = answer.now
<1>1. c \in Catalogs /\ "hand" \in Origins \cup {"hand"} /\ c <= floor /\ \A b \in held : b = c
  BY LibraryNumbers, CopiesAreSmall DEF LibraryInv, HeldIsAccepted, LibraryTypeOK
<1>2. UNCHANGED <<held, cache, floor, calm>>
  BY DEF Shelf, Floors
<1>3. answer' \in Answers /\ (calm => answer'.now = c /\ answer'.before = answer.now)
  BY <1>1, AnswerIs DEF LibraryInv
<1>4. CASE calm
  <2>1. Top <= floor /\ (c = Bare \/ c >= Top)
    BY <1>4 DEF LibraryInv, CalmOrder, AnswersBelow
  <2>2. /\ Greater(answer'.now, answer'.most) <= floor
        /\ Greater(answer'.now, answer'.most) = (IF c = Bare THEN Top ELSE c)
        /\ answer'.now # Bare => answer'.now >= answer'.most
    BY <1>1, <1>4, <2>1, AnswerGoesForward DEF LibraryInv
  <2>3. c \in Nat /\ c >= c
    BY <1>1, LibraryNumbers DEF LibraryInv
  <2>4. \A b \in held : b = Bare \/ b >= (IF c = Bare THEN Top ELSE c)
    BY <1>1, <2>3
  <2>5. AnswersBelow' /\ ShelfGoesForward'
    BY <1>2, <2>2, <2>4 DEF AnswersBelow, Top, ShelfGoesForward
  <2>6. Rest => Rest' /\ answer'.now = answer.now
    <3>1. Rest => c = answer.now
      BY DEF Rest
    <3> QED
      BY <1>2, <1>3, <1>4, <3>1 DEF Rest
  <2> QED
    BY <1>3, <1>4, <2>5, <2>6
<1> QED
  BY <1>3, <1>4

LEMMA FromHandStep == ASSUME LibraryInv, NEW r \in Lookups, FromHand(r) PROVE LibraryInv'
<1> PICK c \in held : Answered(c, "hand")
  BY DEF FromHand
<1>1. UNCHANGED <<published, restarts, held, cache, floor, floorOnDisk, stage, copy, got, calm>>
      /\ saved' = (saved /\ Alone(r)) /\ stage[r] = "away"
  BY DEF FromHand, Source, Shelf, Floors
<1>2. /\ answer' \in Answers /\ (calm => AnswersBelow' /\ ShelfGoesForward')
      /\ Rest /\ calm => Rest' /\ answer'.now = answer.now /\ answer'.before = answer.now
  BY HandAnswers DEF FromHand
<1>3. LibraryTypeOK'
  <2>1. saved' \in BOOLEAN
    BY <1>1 DEF LibraryInv, LibraryTypeOK
  <2> QED
    BY <1>1, <1>2, <2>1 DEF LibraryInv, LibraryTypeOK, Answers
<1>4. HeldIsAccepted' /\ LookupsChecked' /\ CalmOrder'
  BY <1>1, <1>2 DEF LibraryInv, HeldIsAccepted, LookupsChecked, CalmOrder, OneAtATime, LookupInOrder
<1>5. SavedRest'
  <2> SUFFICES ASSUME saved' PROVE SavedRest'
    BY DEF SavedRest
  <2>1. saved /\ calm /\ \A q \in Lookups : stage[q] = "away"
    BY <1>1 DEF Alone, LibraryInv, SavedRest
  <2>2. Rest
    BY <2>1 DEF LibraryInv, SavedRest, Arriving
  <2> QED
    BY <1>1, <1>2, <2>1, <2>2 DEF SavedRest, LookupSaves, OfflineIsTheLast
<1> QED
  BY <1>3, <1>4, <1>5 DEF LibraryInv

LEMMA AskSourceStep == ASSUME LibraryInv, NEW r \in Lookups, AskSource(r) PROVE LibraryInv'
<1>1. UNCHANGED <<published, restarts, held, cache, floor, floorOnDisk, got, answer>>
      /\ calm' = (calm /\ Alone(r)) /\ saved' = (saved /\ Alone(r)) /\ copy' = [copy EXCEPT ![r] = held]
  BY DEF AskSource, Source, Shelf, Floors
<1>2. stage[r] = "away" /\ Moved(r, "fetching")
  BY AdvancesTo DEF AskSource, LibraryInv, Stages
<1>3. copy' \in [Lookups -> Copies] /\ copy'[r] = held /\ \A q \in Lookups : q # r => copy'[q] = copy[q]
  BY <1>1 DEF LibraryInv, LibraryTypeOK
<1>4. LibraryTypeOK'
  <2>1. calm' \in BOOLEAN /\ saved' \in BOOLEAN
    BY <1>1 DEF LibraryInv, LibraryTypeOK
  <2> QED
    BY <1>1, <1>2, <1>3, <2>1 DEF LibraryInv, LibraryTypeOK, Moved
<1>5. HeldIsAccepted' /\ LookupsChecked'
  BY <1>1, <1>2 DEF LibraryInv, HeldIsAccepted, LookupsChecked, Moved
<1>6. CalmOrder'
  <2> SUFFICES ASSUME calm' PROVE CalmOrder'
    BY DEF CalmOrder
  <2>1. calm /\ \A q \in Lookups : stage[q] = "away"
    BY <1>1, <1>2 DEF Alone
  <2>2. OneAtATime' /\ LookupInOrder'
    BY <1>1, <1>2, <1>3, <2>1 DEF OneAtATime, LookupInOrder, Moved
  <2> QED
    BY <1>1, <2>1, <2>2 DEF LibraryInv, CalmOrder, AnswersBelow, Top, ShelfGoesForward
<1>7. SavedRest'
  <2> SUFFICES ASSUME saved' PROVE SavedRest'
    BY DEF SavedRest
  <2>1. saved /\ calm' /\ \A q \in Lookups : stage[q] = "away"
    BY <1>1, <1>2 DEF Alone, LibraryInv, SavedRest
  <2>2. Rest'
    BY <1>1, <2>1 DEF LibraryInv, SavedRest, Arriving, Rest
  <2>3. LookupSaves'
    BY <1>2, <2>1 DEF LookupSaves, Moved
  <2> QED
    BY <1>1, <2>1, <2>2, <2>3 DEF LibraryInv, SavedRest, OfflineIsTheLast
<1> QED
  BY <1>4, <1>5, <1>6, <1>7 DEF LibraryInv

(* A lookup goes on, and nothing is answered. *)
Quiet == UNCHANGED <<published, restarts, held, cache, floor, floorOnDisk, answer, calm, saved>>

LEMMA QuietStep ==
  ASSUME LibraryInv, NEW r \in Lookups, Quiet, UNCHANGED copy, stage[r] # "away",
         NEW to \in {"away", "checking", "raising", "taking"}, Moved(r, to), ~Arriving(r),
         NEW s \in Catalogs, NEW from \in Origins, Holding(r, s, from),
         to \in {"raising", "taking"} => s \notin Unfit, to = "raising" => s # Bare /\ s >= floor,
         to = "taking" => s = Bare, to = "checking" /\ from = "disk" => cache # {},
         to # "away" /\ from = "disk" /\ saved => s = answer.now
  PROVE  LibraryInv'
<1>1. LibraryTypeOK' /\ HeldIsAccepted'
  BY DEF LibraryInv, LibraryTypeOK, HeldIsAccepted, Quiet, Moved, Holding, Parsed
<1>2. LookupsChecked'
  BY LibraryNumbers DEF LibraryInv, LookupsChecked, Quiet, Moved, Holding, Bare
<1>3. CalmOrder'
  <2> SUFFICES ASSUME calm PROVE CalmOrder'
    BY DEF CalmOrder, Quiet
  <2>1. OneAtATime' /\ LookupInOrder'
    BY DEF LibraryInv, CalmOrder, OneAtATime, LookupInOrder, Quiet, Moved, Holding
  <2> QED
    BY <2>1 DEF LibraryInv, CalmOrder, Quiet, AnswersBelow, Top, ShelfGoesForward
<1>4. SavedRest'
  <2> SUFFICES ASSUME saved PROVE SavedRest'
    BY DEF SavedRest, Quiet
  <2>1. calm /\ \A q \in Lookups : q # r => stage[q] = "away"
    BY DEF LibraryInv, SavedRest, CalmOrder, OneAtATime
  <2>2. Rest
    BY <2>1 DEF LibraryInv, SavedRest, Arriving
  <2>3. LookupSaves'
    BY <2>1 DEF LookupSaves, Moved, Holding, Quiet
  <2> QED
    BY <2>1, <2>2, <2>3 DEF LibraryInv, SavedRest, OfflineIsTheLast, Rest, Quiet
<1> QED
  BY <1>1, <1>2, <1>3, <1>4 DEF LibraryInv

LEMMA FetchedStep == ASSUME LibraryInv, NEW r \in Lookups, Fetched(r) PROVE LibraryInv'
<1> PICK s \in 0..published : got' = [got EXCEPT ![r] = [serial |-> s, from |-> "source"]]
  BY DEF Fetched
<1>1. s \in Catalogs /\ "source" \in Origins
  BY LibraryAssumption DEF LibraryInv, LibraryTypeOK, Catalogs, Origins
<1>2. Holding(r, s, "source") /\ stage[r] = "fetching" /\ Moved(r, "checking")
  BY <1>1, HoldsNew, AdvancesTo DEF Fetched, LibraryInv, Stages
<1>3. Quiet /\ UNCHANGED copy
  BY DEF Fetched, Quiet, Source, Shelf, Floors, History
<1> QED
  BY <1>1, <1>2, <1>3, QuietStep DEF Arriving

LEMMA LoadStep == ASSUME LibraryInv, NEW r \in Lookups, Load(r) PROVE LibraryInv'
<1> PICK c \in cache : got' = [got EXCEPT ![r] = [serial |-> c, from |-> "disk"]]
  BY DEF Load, FromDisk
<1>1. c \in Catalogs /\ "disk" \in Origins
  BY CopiesAreSmall DEF LibraryInv, LibraryTypeOK, Origins
<1>2. Holding(r, c, "disk") /\ stage[r] = "fetching" /\ Moved(r, "checking")
  BY <1>1, HoldsNew, AdvancesTo DEF Load, FromDisk, LibraryInv, Stages
<1>3. Quiet /\ UNCHANGED copy
  BY DEF Load, FromDisk, Quiet, Source, Shelf, Floors, History
<1>4. saved => c = answer.now
  <2> SUFFICES ASSUME saved PROVE c = answer.now
    OBVIOUS
  <2>1. \A q \in Lookups : ~Arriving(q)
    BY <1>2 DEF LibraryInv, SavedRest, CalmOrder, OneAtATime, Arriving
  <2> QED
    BY <2>1 DEF LibraryInv, SavedRest, Rest
<1> QED
  BY <1>1, <1>2, <1>3, <1>4, QuietStep DEF Arriving

LEMMA LoadFailsStep == ASSUME LibraryInv, NEW r \in Lookups, LoadFails(r) PROVE LibraryInv'
<1>1. got[r].serial \in Catalogs /\ got[r].from \in Origins
  BY LookupFacts DEF LibraryInv
<1>2. Holding(r, got[r].serial, got[r].from)
  BY DEF LoadFails, LibraryInv, LibraryTypeOK, Holding, Parsed
<1>3. stage[r] = "fetching" /\ Moved(r, "away")
  BY AdvancesTo DEF LoadFails, LibraryInv, Stages
<1>4. Quiet /\ UNCHANGED copy
  BY DEF LoadFails, Quiet, Source, Shelf, Floors, History
<1> QED
  BY <1>1, <1>2, <1>3, <1>4, QuietStep DEF Arriving

LEMMA ServeCopyStep == ASSUME LibraryInv, NEW r \in Lookups, ServeCopy(r) PROVE LibraryInv'
<1> PICK c \in copy[r] : Answered(c, "hand")
  BY DEF ServeCopy
<1>1. UNCHANGED <<published, restarts, held, cache, floor, floorOnDisk, got, calm, saved>>
      /\ copy' = [copy EXCEPT ![r] = NoCopy]
  BY DEF ServeCopy, Source, Shelf, Floors
<1>2. stage[r] = "fetching" /\ Moved(r, "away")
  BY AdvancesTo DEF ServeCopy, LibraryInv, Stages
<1>3. copy' \in [Lookups -> Copies] /\ \A q \in Lookups : q # r => copy'[q] = copy[q]
  BY <1>1, CopiesAreSmall DEF LibraryInv, LibraryTypeOK
<1>4. c \in Catalogs /\ "hand" \in Origins \cup {"hand"}
  BY LookupFacts, CopiesAreSmall DEF LibraryInv
<1>5. answer' \in Answers
  BY <1>4, AnswerIs DEF LibraryInv
<1>6. calm => c \in held
  BY <1>2 DEF LibraryInv, CalmOrder, LookupInOrder
<1>7. calm => /\ AnswersBelow' /\ ShelfGoesForward'
              /\ Rest => Rest' /\ answer'.now = answer.now /\ answer'.before = answer.now
  BY <1>6, HandAnswers DEF ServeCopy
<1>8. LibraryTypeOK'
  BY <1>1, <1>2, <1>3, <1>5 DEF LibraryInv, LibraryTypeOK, Answers, Moved
<1>9. HeldIsAccepted' /\ LookupsChecked'
  BY <1>1, <1>2 DEF LibraryInv, HeldIsAccepted, LookupsChecked, Moved
<1>10. CalmOrder'
  BY <1>1, <1>2, <1>3, <1>7 DEF LibraryInv, CalmOrder, OneAtATime, LookupInOrder, Moved
<1>11. SavedRest'
  <2> SUFFICES ASSUME saved PROVE SavedRest'
    BY <1>1 DEF SavedRest
  <2>1. calm /\ \A q \in Lookups : q # r => stage[q] = "away"
    BY <1>2 DEF LibraryInv, SavedRest, CalmOrder, OneAtATime
  <2>2. Rest
    BY <1>2, <2>1 DEF LibraryInv, SavedRest, Arriving
  <2>3. LookupSaves'
    BY <1>1, <1>2, <2>1 DEF LookupSaves, Moved
  <2> QED
    BY <1>1, <1>7, <2>1, <2>2, <2>3 DEF SavedRest, OfflineIsTheLast
<1> QED
  BY <1>8, <1>9, <1>10, <1>11 DEF LibraryInv

LEMMA CheckSerialStep == ASSUME LibraryInv, NEW r \in Lookups, CheckSerial(r) PROVE LibraryInv'
<1>1. Quiet /\ UNCHANGED copy /\ stage[r] = "checking"
  BY DEF CheckSerial, Quiet, Source, Shelf, Floors, History
<1>2. got[r].serial \in Catalogs /\ got[r].from \in Origins /\ Bare \in Catalogs /\ Bare \notin Unfit /\ floor \in Nat
      /\ Catalogs \subseteq Nat
  BY LookupFacts, LibraryNumbers DEF LibraryInv
<1>3. saved /\ got[r].from = "disk" => got[r].serial = answer.now
                                       /\ (answer.now = Bare \/ (answer.now = floor /\ answer.now \notin Unfit))
  <2> SUFFICES ASSUME saved, got[r].from = "disk"
               PROVE  got[r].serial = answer.now
                      /\ (answer.now = Bare \/ (answer.now = floor /\ answer.now \notin Unfit))
    OBVIOUS
  <2>1. got[r].serial = answer.now /\ cache # {}
    BY <1>1 DEF LibraryInv, SavedRest, LookupSaves
  <2>2. \A q \in Lookups : ~Arriving(q)
    BY <1>1 DEF LibraryInv, SavedRest, CalmOrder, OneAtATime, Arriving
  <2> QED
    BY <2>1, <2>2 DEF LibraryInv, SavedRest, Rest
<1>4. CASE Fresh(r)
  <2>1. Moved(r, "raising")
    BY <1>4 DEF CheckSerial, LibraryInv, LibraryTypeOK, Stages, Moved
  <2>2. Holding(r, got[r].serial, got[r].from)
    BY <1>2, <1>4, HoldsOn DEF CheckSerial, LibraryInv
  <2>3. got[r].serial \notin Unfit /\ got[r].serial # Bare /\ got[r].serial >= floor
    BY <1>4 DEF Fresh
  <2> QED
    BY <1>1, <1>2, <1>3, <2>1, <2>2, <2>3, QuietStep DEF Arriving
<1>5. CASE ~Fresh(r)
  <2>1. Moved(r, "taking")
    BY <1>5 DEF CheckSerial, LibraryInv, LibraryTypeOK, Stages, Moved
  <2>2. Holding(r, Bare, got[r].from)
    BY <1>2, <1>5, HoldsOn DEF CheckSerial, LibraryInv
  <2>3. saved /\ got[r].from = "disk" => answer.now = Bare
    BY <1>2, <1>3, <1>5 DEF Fresh
  <2> QED
    BY <1>1, <1>2, <2>1, <2>2, <2>3, QuietStep DEF Arriving
<1> QED
  BY <1>4, <1>5

LEMMA AcceptSerialStep == ASSUME LibraryInv, NEW r \in Lookups, AcceptSerial(r) PROVE LibraryInv'
<1>1. UNCHANGED <<published, restarts, held, cache, copy, got, answer>>
  BY DEF AcceptSerial, Source, Shelf
<1>2. stage[r] = "raising" /\ Moved(r, "taking")
  BY AdvancesTo DEF AcceptSerial, LibraryInv, Stages
<1> PICK s \in Catalogs : s = got[r].serial
  BY LookupFacts DEF LibraryInv
<1>3. s \in Nat /\ floor \in Nat /\ Top \in Nat /\ answer.now \in Nat /\ answer.most \in Nat /\ s # Bare /\ s \notin Unfit
  BY <1>2, LibraryNumbers DEF LibraryInv, LookupsChecked
<1>4. floor' = Greater(s, floor) /\ floor' \in Catalogs /\ floor <= floor' /\ s <= floor'
  <2>1. floor \in Catalogs
    BY DEF LibraryInv, LibraryTypeOK
  <2> QED
    BY <1>3, <2>1 DEF AcceptSerial, Greater, Floors
<1>5. /\ calm' \in BOOLEAN /\ saved' \in BOOLEAN /\ floorOnDisk' \in Catalogs
      /\ calm' => calm /\ (floorOnDisk = floor => floorOnDisk' = floor')
      /\ saved' => saved /\ calm' = calm
  BY <1>4 DEF AcceptSerial, Floors, LibraryInv, LibraryTypeOK
<1>6. LibraryTypeOK'
  BY <1>1, <1>2, <1>4, <1>5 DEF LibraryInv, LibraryTypeOK, Moved
<1>7. HeldIsAccepted' /\ LookupsChecked'
  <2>1. \A q \in Lookups : got[q].serial \in Nat
    BY LookupFacts, LibraryNumbers DEF LibraryInv
  <2>2. \A c \in held : c \in Nat
    BY LibraryNumbers DEF LibraryInv
  <2> QED
    BY <1>1, <1>2, <1>3, <1>4, <2>1, <2>2 DEF LibraryInv, HeldIsAccepted, LookupsChecked, Moved
<1>8. CalmOrder'
  <2> SUFFICES ASSUME calm' PROVE CalmOrder'
    BY DEF CalmOrder
  <2>1. s >= floor /\ floor' = s
    BY <1>2, <1>3, <1>4, <1>5 DEF LibraryInv, CalmOrder, LookupInOrder, Greater
  <2>2. \A q \in Lookups : q # r => stage[q] = "away"
    BY <1>2, <1>5 DEF LibraryInv, CalmOrder, OneAtATime
  <2>3. OneAtATime' /\ LookupInOrder'
    BY <1>1, <1>2, <2>1, <2>2 DEF OneAtATime, LookupInOrder, Moved
  <2>4. AnswersBelow'
    BY <1>1, <1>3, <1>4, <1>5 DEF LibraryInv, CalmOrder, AnswersBelow, Top
  <2> QED
    BY <1>1, <1>5, <2>3, <2>4 DEF LibraryInv, CalmOrder, ShelfGoesForward
<1>9. SavedRest'
  <2> SUFFICES ASSUME saved' PROVE SavedRest'
    BY DEF SavedRest
  <2>1. saved /\ calm /\ calm' /\ \A q \in Lookups : q # r => stage[q] = "away"
    BY <1>2, <1>5 DEF LibraryInv, SavedRest, CalmOrder, OneAtATime
  <2>2. LookupSaves'
    BY <1>1, <1>2, <2>1 DEF LibraryInv, SavedRest, LookupSaves, Moved
  <2>3. CASE got[r].from = "source"
    <3>1. Arriving(r)'
      BY <1>1, <1>2, <2>3 DEF Arriving, Moved
    <3> QED
      BY <1>1, <2>1, <2>2, <3>1 DEF LibraryInv, SavedRest, OfflineIsTheLast
  <2>4. CASE got[r].from = "disk"
    <3>1. s = answer.now /\ s >= floor /\ Top <= floor
      BY <1>2, <2>1, <2>4 DEF LibraryInv, SavedRest, LookupSaves, CalmOrder, LookupInOrder, AnswersBelow
    <3>2. floor' = floor
      BY <1>3, <1>4, <3>1 DEF Top, Greater
    <3>3. Rest
      BY <1>2, <2>1 DEF LibraryInv, SavedRest, Arriving
    <3> QED
      BY <1>1, <2>1, <2>2, <3>2, <3>3 DEF LibraryInv, SavedRest, OfflineIsTheLast, Rest
  <2> QED
    BY <2>3, <2>4, LookupFacts DEF LibraryInv, Origins
<1> QED
  BY <1>6, <1>7, <1>8, <1>9 DEF LibraryInv

LEMMA TakeNewStep ==
  ASSUME LibraryInv, NEW r \in Lookups, got[r].from = "source", Advances(r, "taking", "caching"),
         held' = {got[r].serial}, UNCHANGED <<Source, cache, Floors, calm, saved>>, UNCHANGED <<copy, got, answer>>
  PROVE  LibraryInv'
<1>1. UNCHANGED <<published, restarts, cache, floor, floorOnDisk, copy, got, answer, calm, saved>>
  BY DEF Source, Floors
<1>2. stage[r] = "taking" /\ Moved(r, "caching")
  BY AdvancesTo DEF LibraryInv, Stages
<1>3. got[r].serial \in Catalogs /\ held' \in Copies
  BY LookupFacts, CopiesAreSmall DEF LibraryInv
<1>4. LibraryTypeOK'
  BY <1>1, <1>2, <1>3 DEF LibraryInv, LibraryTypeOK, Moved
<1>5. HeldIsAccepted' /\ LookupsChecked'
  BY <1>1, <1>2 DEF LibraryInv, HeldIsAccepted, LookupsChecked, Moved
<1>6. CalmOrder'
  <2> SUFFICES ASSUME calm PROVE CalmOrder'
    BY <1>1 DEF CalmOrder
  <2>1. \A q \in Lookups : q # r => stage[q] = "away"
    BY <1>2 DEF LibraryInv, CalmOrder, OneAtATime
  <2>2. got[r].serial = Bare \/ got[r].serial = floor
    BY <1>2 DEF LibraryInv, CalmOrder, LookupInOrder
  <2>3. OneAtATime' /\ LookupInOrder'
    BY <1>1, <1>2, <2>1, <2>2 DEF OneAtATime, LookupInOrder, Moved
  <2>4. Top <= floor /\ Top \in Nat /\ floor \in Nat
    BY LibraryNumbers DEF LibraryInv, CalmOrder, AnswersBelow
  <2>5. AnswersBelow'
    BY <1>1, <2>2, <2>4 DEF AnswersBelow, Top
  <2> QED
    BY <1>1, <2>3, <2>5 DEF LibraryInv, CalmOrder, ShelfGoesForward
<1>7. SavedRest'
  <2> SUFFICES ASSUME saved PROVE SavedRest'
    BY <1>1 DEF SavedRest
  <2>1. calm /\ \A q \in Lookups : q # r => stage[q] = "away"
    BY <1>2 DEF LibraryInv, SavedRest, CalmOrder, OneAtATime
  <2>2. LookupSaves' /\ Arriving(r)'
    BY <1>1, <1>2, <2>1 DEF LookupSaves, Arriving, Moved
  <2> QED
    BY <1>1, <2>1, <2>2 DEF LibraryInv, SavedRest, OfflineIsTheLast
<1> QED
  BY <1>4, <1>5, <1>6, <1>7 DEF LibraryInv

(* A lookup ends with its answer: what it took is in hand. *)
LEMMA HandsOver ==
  ASSUME LibraryInv, NEW r \in Lookups, HandOver(r), stage[r] \in {"taking", "caching"}, Moved(r, "away"),
         UNCHANGED <<Source, Floors, calm>>, cache' \in Copies, saved' \in BOOLEAN, held' \in Copies,
         HeldIsAccepted', calm => held' = {got[r].serial}
  PROVE  /\ LibraryTypeOK' /\ LookupsChecked' /\ CalmOrder'
         /\ calm => /\ answer'.now = got[r].serial /\ answer'.before = answer.now /\ answer'.from = got[r].from
                    /\ \A q \in Lookups : stage'[q] = "away"
<1>1. UNCHANGED <<published, restarts, floor, floorOnDisk, calm>> /\ copy' = [copy EXCEPT ![r] = NoCopy]
  BY DEF HandOver, Source, Floors
<1> PICK s \in Catalogs, from \in Origins : s = got[r].serial /\ from = got[r].from
  BY LookupFacts DEF LibraryInv
<1>2. copy' \in [Lookups -> Copies] /\ \A q \in Lookups : q # r => copy'[q] = copy[q]
  BY <1>1, CopiesAreSmall DEF LibraryInv, LibraryTypeOK
<1>3. Holding(r, Bare, from)
  BY HoldsOn, LibraryNumbers DEF HandOver, LibraryInv
<1>4. answer' \in Answers /\ (calm => answer'.now = s /\ answer'.before = answer.now /\ answer'.from = from)
  BY AnswerIs DEF HandOver, LibraryInv
<1>5. LibraryTypeOK'
  BY <1>1, <1>2, <1>3, <1>4 DEF LibraryInv, LibraryTypeOK, Answers, Moved, Holding, Parsed
<1>6. LookupsChecked'
  BY <1>1, <1>3 DEF LibraryInv, LookupsChecked, Moved, Holding
<1>7. calm => \A q \in Lookups : stage'[q] = "away"
  BY DEF LibraryInv, CalmOrder, OneAtATime, Moved
<1>8. CalmOrder'
  <2> SUFFICES ASSUME calm PROVE CalmOrder'
    BY <1>1 DEF CalmOrder
  <2>1. OneAtATime' /\ LookupInOrder'
    BY <1>7 DEF OneAtATime, LookupInOrder
  <2>2. Top <= floor /\ Top \in Nat /\ floor \in Nat /\ s \in Nat /\ s <= floor /\ (s = Bare \/ s = floor)
    BY LibraryNumbers DEF LibraryInv, CalmOrder, AnswersBelow, LookupInOrder, LookupsChecked
  <2>3. Answered(s, from) /\ from \in Origins \cup {"hand"} /\ (s = Bare \/ s >= Top)
    BY <2>2 DEF HandOver
  <2>4. /\ Greater(answer'.now, answer'.most) <= floor
        /\ Greater(answer'.now, answer'.most) = (IF s = Bare THEN Top ELSE s)
        /\ answer'.now # Bare => answer'.now >= answer'.most
    BY <2>2, <2>3, AnswerGoesForward DEF LibraryInv
  <2>5. AnswersBelow' /\ ShelfGoesForward'
    BY <1>1, <2>2, <2>4 DEF AnswersBelow, Top, ShelfGoesForward
  <2> QED
    BY <1>1, <2>1, <2>5 DEF LibraryInv, CalmOrder
<1> QED
  BY <1>4, <1>5, <1>6, <1>7, <1>8

LEMMA TakeCopyStep ==
  ASSUME LibraryInv, NEW r \in Lookups, got[r].from = "disk", Advances(r, "taking", "away"), HandOver(r),
         held' = {got[r].serial}, UNCHANGED <<Source, cache, Floors, calm, saved>>
  PROVE  LibraryInv'
<1>1. UNCHANGED <<cache, floor, calm, saved>>
  BY DEF Floors
<1>2. stage[r] = "taking" /\ Moved(r, "away")
  BY AdvancesTo DEF LibraryInv, Stages
<1>3. cache' \in Copies /\ saved' \in BOOLEAN /\ held' \in Copies /\ HeldIsAccepted'
  BY <1>1, <1>2, LookupFacts, CopiesAreSmall DEF LibraryInv, LibraryTypeOK, HeldIsAccepted, LookupsChecked
<1>4. /\ LibraryTypeOK' /\ LookupsChecked' /\ CalmOrder'
      /\ calm => /\ answer'.now = got[r].serial /\ answer'.before = answer.now /\ answer'.from = got[r].from
                 /\ \A q \in Lookups : stage'[q] = "away"
  BY <1>2, <1>3, HandsOver
<1>5. SavedRest'
  <2> SUFFICES ASSUME saved PROVE SavedRest'
    BY <1>1 DEF SavedRest
  <2>1. calm /\ got[r].serial = answer.now
    BY <1>2 DEF LibraryInv, SavedRest, LookupSaves
  <2>2. Rest
    BY <1>2, <2>1 DEF LibraryInv, SavedRest, CalmOrder, OneAtATime, Arriving
  <2>3. Rest'
    BY <1>1, <1>4, <2>1, <2>2 DEF Rest
  <2>4. LookupSaves'
    BY <1>4, <2>1 DEF LookupSaves
  <2> QED
    BY <1>1, <1>4, <2>1, <2>3, <2>4 DEF SavedRest, OfflineIsTheLast
<1> QED
  BY <1>3, <1>4, <1>5 DEF LibraryInv

LEMMA CacheStep == ASSUME LibraryInv, NEW r \in Lookups, Cache(r) PROVE LibraryInv'
<1>1. UNCHANGED <<held, floor, calm>> /\ (saved' => saved /\ cache' = {got[r].serial})
  BY DEF Cache, Floors
<1>2. stage[r] = "caching" /\ Moved(r, "away")
  BY AdvancesTo DEF Cache, LibraryInv, Stages
<1>3. cache' \in Copies
  <2>1. \A q \in Lookups : {got[q].serial} \in Copies
    BY LookupFacts, CopiesAreSmall DEF LibraryInv
  <2> QED
    BY <2>1, CopiesAreSmall DEF Cache, LibraryInv, LibraryTypeOK
<1>4. saved' \in BOOLEAN /\ held' \in Copies /\ HeldIsAccepted' /\ (calm => held' = {got[r].serial})
  BY <1>1, <1>2 DEF Cache, LibraryInv, LibraryTypeOK, HeldIsAccepted, CalmOrder, LookupInOrder
<1>5. /\ LibraryTypeOK' /\ LookupsChecked' /\ CalmOrder'
      /\ calm => /\ answer'.now = got[r].serial /\ answer'.before = answer.now /\ answer'.from = got[r].from
                 /\ \A q \in Lookups : stage'[q] = "away"
  BY <1>2, <1>3, <1>4, HandsOver DEF Cache
<1>6. SavedRest'
  <2> SUFFICES ASSUME saved' PROVE SavedRest'
    BY DEF SavedRest
  <2>1. saved /\ calm /\ cache' = {got[r].serial} /\ got[r].from = "source"
    BY <1>1, <1>2 DEF LibraryInv, SavedRest, LookupSaves
  <2>2. (got[r].serial = Bare \/ got[r].serial = floor) /\ got[r].serial \notin Unfit
    BY <1>2, <2>1 DEF LibraryInv, CalmOrder, LookupInOrder, LookupsChecked
  <2>3. Rest'
    BY <1>1, <1>4, <1>5, <2>1, <2>2 DEF Rest
  <2>4. LookupSaves'
    BY <1>5, <2>1 DEF LookupSaves
  <2> QED
    BY <1>1, <1>5, <2>1, <2>3, <2>4 DEF SavedRest, OfflineIsTheLast
<1> QED
  BY <1>4, <1>5, <1>6 DEF LibraryInv

LEMMA RebootStep == ASSUME LibraryInv, Reboot PROVE LibraryInv'
<1>1. UNCHANGED <<published, cache, floorOnDisk, answer, calm>> /\ held' = NoCopy /\ floor' = floorOnDisk
      /\ saved' = (saved /\ stage = stage') /\ \A q \in Lookups : stage'[q] = "away"
  BY DEF Reboot
<1>2. LibraryTypeOK'
  <2>1. /\ stage' \in [Lookups -> Stages] /\ copy' \in [Lookups -> Copies] /\ held' \in Copies
        /\ got' \in [Lookups -> [serial : Catalogs, from : Origins]]
    BY CopiesAreSmall, LibraryNumbers DEF Reboot, LibraryInv, Stages, Origins
  <2>2. saved' \in BOOLEAN /\ restarts' \in 0..MaxRestarts
    BY LibraryAssumption DEF Reboot, LibraryInv, LibraryTypeOK
  <2> QED
    BY <1>1, <2>1, <2>2 DEF LibraryInv, LibraryTypeOK
<1>3. HeldIsAccepted' /\ LookupsChecked'
  BY <1>1 DEF HeldIsAccepted, LookupsChecked, NoCopy
<1>4. CalmOrder'
  BY <1>1 DEF LibraryInv, CalmOrder, OneAtATime, LookupInOrder, AnswersBelow, Top, ShelfGoesForward, NoCopy
<1>5. SavedRest'
  <2> SUFFICES ASSUME saved' PROVE SavedRest'
    BY DEF SavedRest
  <2>1. saved /\ calm /\ floor' = floor /\ \A q \in Lookups : stage[q] = "away"
    BY <1>1 DEF LibraryInv, SavedRest, CalmOrder
  <2>2. Rest
    BY <2>1 DEF LibraryInv, SavedRest, Arriving
  <2> QED
    BY <1>1, <2>1, <2>2 DEF LibraryInv, SavedRest, LookupSaves, OfflineIsTheLast, Rest, NoCopy
<1> QED
  BY <1>2, <1>3, <1>4, <1>5 DEF LibraryInv

LEMMA LibraryInitHolds == ASSUME LibraryInit PROVE LibraryInv
<1>1. 1 \in Catalogs /\ 0 \in Catalogs /\ Bare \in Catalogs /\ 0 \in 0..MaxRestarts /\ NoCopy \in Copies
  BY LibraryAssumption, CopiesAreSmall DEF Catalogs, Bare
<1>2. LibraryTypeOK
  BY <1>1 DEF LibraryInit, LibraryTypeOK, Stages, Origins, NoAnswer
<1>3. Top = 0
  BY DEF LibraryInit, NoAnswer, Top, Greater, Bare
<1>4. CalmOrder
  BY <1>3 DEF LibraryInit, CalmOrder, OneAtATime, LookupInOrder, AnswersBelow, ShelfGoesForward, NoAnswer, NoCopy, Bare
<1>5. SavedRest
  BY DEF LibraryInit, SavedRest, LookupSaves, OfflineIsTheLast, Rest, NoAnswer, NoCopy
<1> QED
  BY <1>2, <1>4, <1>5 DEF LibraryInit, LibraryInv, HeldIsAccepted, LookupsChecked, NoCopy

LEMMA LibraryStep == LibraryInv /\ [LibraryNext]_libraryVars => LibraryInv'
<1> SUFFICES ASSUME LibraryInv, [LibraryNext]_libraryVars PROVE LibraryInv'
  OBVIOUS
<1>1. CASE UNCHANGED libraryVars
  <2>1. UNCHANGED <<published, held, cache, floor, floorOnDisk, stage, copy, got, answer, calm, saved, restarts>>
    BY <1>1 DEF libraryVars
  <2>2. LibraryTypeOK' /\ HeldIsAccepted' /\ LookupsChecked'
    BY <2>1 DEF LibraryInv, LibraryTypeOK, HeldIsAccepted, LookupsChecked
  <2>3. CalmOrder'
    BY <2>1 DEF LibraryInv, CalmOrder, OneAtATime, LookupInOrder, AnswersBelow, Top, ShelfGoesForward
  <2>4. SavedRest'
    BY <2>1 DEF LibraryInv, SavedRest, LookupSaves, OfflineIsTheLast, Arriving, Rest
  <2> QED
    BY <2>2, <2>3, <2>4 DEF LibraryInv
<1>2. ASSUME NEW r \in Lookups, Take(r) PROVE LibraryInv'
  BY <1>2, TakeNewStep, TakeCopyStep DEF Take
<1>3. CASE LibraryNext
  BY <1>2, <1>3, PublishStep, RebootStep, FromHandStep, AskSourceStep, FetchedStep, ServeCopyStep, LoadStep,
     LoadFailsStep, CheckSerialStep, AcceptSerialStep, CacheStep DEF LibraryNext
<1> QED
  BY <1>1, <1>3

(* As long as lookups do not overlap and the memory of serials could be written, no answer  *)
(* offers an entry older than one before it, whatever the source serves, the cache holds or *)
(* a restart forgets; and offline the answer is the last one: Catalog, validItems and       *)
(* freshness of internal/library.                                                           *)
THEOREM LibraryAlwaysHolds == LibrarySpec => []LibraryHolds
<1>1. LibraryInit => LibraryInv
  BY LibraryInitHolds
<1>2. LibraryInv /\ [LibraryNext]_libraryVars => LibraryInv'
  BY LibraryStep
<1>3. LibraryInv => LibraryHolds
  BY DEF LibraryInv, CalmOrder, SavedRest, OfflineIsTheLast, ShelfGoesForward, LibraryHolds
<1> QED
  BY <1>1, <1>2, <1>3, PTL DEF LibrarySpec

=============================================================================
