---------------------------- MODULE Workspace_proofs --------------------------
(*****************************************************************************)
(* Proofs about one workspace: what Close and a reload bring to rest (its     *)
(* timers, its end, the generations of its scheduler), what is installed in  *)
(* it, and the credential of one extension.                                  *)
(*****************************************************************************)
EXTENDS Lifetime, SchedulerLoop, Extensions, Credentials, FiniteSetTheorems, SequenceTheorems, TLAPS

-----------------------------------------------------------------------------
(*****************************************************************************)
(* Timers and the end of a workspace, for any timers, caps and bounds.       *)
(*****************************************************************************)

(* Timers.  What the properties rest on: while every write succeeds the files *)
(* are the stores, and an entry is in one place only on its way from the     *)
(* store to its delivery.                                                    *)

\* The cap on wakes, in the store and in the file a restart would load.
Capped ==
  /\ IsFiniteSet(items \cap Wakes) /\ Cardinality(items \cap Wakes) <= MaxPending
  /\ IsFiniteSet(file \cap Wakes) /\ Cardinality(file \cap Wakes) <= MaxPending

\* A timer that went off does not run any more, and never runs again.
OffForGood == items \cup file \cup due \subseteq made /\ due \cap armed = {}

Pending(x) == x \in made /\ told[x] = 0 /\ x \notin called

OneWay ==
  /\ file = items
  /\ \A x \in Ids :
       /\ x \in items => Pending(x) /\ x \notin firing
       /\ x \in firing => Pending(x)
       /\ x \in called => x \in made /\ told[x] = 0
       /\ x \notin made => told[x] = 0
       /\ told[x] <= 1

TimersInv == TypeOK /\ Capped /\ OffForGood /\ (failed \/ OneWay)

\* A write puts the store on disk: with the files equal to the stores before a step
\* that changes one entry, they are equal after it.
LEMMA SaveKeeps ==
  ASSUME NEW x \in Ids, file = items, items' \in SUBSET Ids,
         items' \ {x} = items \ {x}, Save(x)
  PROVE  failed' \/ (file' = items' /\ failed' = failed)
  BY TimersAssumption DEF TimersAssumption, Save, Own, Reminders

\* After a write the cap holds for the file if it held for the stores.
LEMMA SaveCapped ==
  ASSUME NEW x \in Ids, Save(x),
         IsFiniteSet(items' \cap Wakes), Cardinality(items' \cap Wakes) <= MaxPending,
         IsFiniteSet(file \cap Wakes), Cardinality(file \cap Wakes) <= MaxPending
  PROVE  IsFiniteSet(file' \cap Wakes) /\ Cardinality(file' \cap Wakes) <= MaxPending
<1>1. file' \cap Wakes = items' \cap Wakes \/ file' \cap Wakes = file \cap Wakes
  BY DEF Save, Own, Reminders
<1> QED
  BY <1>1

LEMMA SaveType ==
  ASSUME NEW x \in Ids, Save(x), items' \in SUBSET Ids, file \in SUBSET Ids, failed \in BOOLEAN
  PROVE  /\ file' \in SUBSET Ids /\ failed' \in BOOLEAN
         /\ file' \subseteq file \cup items'
  BY DEF Save

\* Taking an entry out keeps the cap.
LEMMA RemoveCapped ==
  ASSUME NEW x, Capped, items' = items \ {x}
  PROVE  IsFiniteSet(items' \cap Wakes) /\ Cardinality(items' \cap Wakes) <= MaxPending
<1>1. items' \cap Wakes \in SUBSET (items \cap Wakes)
  OBVIOUS
<1>2. IsFiniteSet(items' \cap Wakes) /\ Cardinality(items' \cap Wakes) <= Cardinality(items \cap Wakes)
  BY <1>1, FS_Subset DEF Capped
<1>3. Cardinality(items \cap Wakes) \in Nat /\ Cardinality(items' \cap Wakes) \in Nat
  BY <1>2, FS_CardinalityType DEF Capped
<1> QED
  BY <1>2, <1>3, TimersAssumption DEF Capped, TimersAssumption

LEMMA ScheduleCapped ==
  ASSUME NEW x \in Ids, Capped, Schedule(x)
  PROVE  IsFiniteSet(items' \cap Wakes) /\ Cardinality(items' \cap Wakes) <= MaxPending
<1>1. CASE x \in Wakes
  <2>1. items' \cap Wakes = (items \cap Wakes) \cup {x}
    BY <1>1 DEF Schedule
  <2>2. Cardinality(items \cap Wakes) < MaxPending
    BY <1>1 DEF Schedule
  <2>3. Cardinality(items \cap Wakes) \in Nat
    BY FS_CardinalityType DEF Capped
  <2>4. Cardinality(items' \cap Wakes) <= Cardinality(items \cap Wakes) + 1
    <3>1. Cardinality((items \cap Wakes) \cup {x})
            = IF x \in items \cap Wakes THEN Cardinality(items \cap Wakes)
                                       ELSE Cardinality(items \cap Wakes) + 1
      BY FS_AddElement, Zenon DEF Capped
    <3>2. Cardinality(items' \cap Wakes) = Cardinality((items \cap Wakes) \cup {x})
      BY <2>1, Zenon
    <3>3. CASE x \in items \cap Wakes
      BY <2>3, <3>1, <3>2, <3>3
    <3>4. CASE x \notin items \cap Wakes
      BY <2>3, <3>1, <3>2, <3>4
    <3> QED
      BY <3>3, <3>4
  <2>5. IsFiniteSet(items' \cap Wakes)
    BY <2>1, FS_AddElement DEF Capped
  <2>6. Cardinality(items' \cap Wakes) \in Nat
    BY <2>5, FS_CardinalityType
  <2> QED
    BY <2>2, <2>3, <2>4, <2>5, <2>6, TimersAssumption DEF TimersAssumption
<1>2. CASE x \notin Wakes
  <2>1. items' \cap Wakes = items \cap Wakes
    BY <1>2 DEF Schedule
  <2> QED
    BY <2>1 DEF Capped
<1> QED
  BY <1>1, <1>2

LEMMA InitTimers == Init => TimersInv
<1> SUFFICES ASSUME Init PROVE TimersInv
  OBVIOUS
<1>1. Capped
  <2>1. items \cap Wakes = {} /\ file \cap Wakes = {}
    BY DEF Init
  <2> QED
    BY <2>1, FS_EmptySet, TimersAssumption DEF Capped, TimersAssumption
<1>2. failed \in BOOLEAN
  BY DEF Init
<1>5. restarts \in 0..MaxRestarts
  BY TimersAssumption DEF Init, TimersAssumption
<1>3. TypeOK
  BY <1>1, <1>2, <1>5 DEF Init, TypeOK, Capped
<1>4. OneWay /\ OffForGood
  BY DEF Init, OneWay, Pending, OffForGood
<1> QED
  BY <1>1, <1>3, <1>4 DEF TimersInv

LEMMA ScheduleTimers == ASSUME TimersInv, NEW x \in Ids, Schedule(x) PROVE TimersInv'
<1>1. Capped'
  BY ScheduleCapped, SaveCapped DEF Capped, TimersInv, Schedule
<1>2. items' \in SUBSET Ids
  BY DEF Schedule, TimersInv, TypeOK
<1>3. file' \in SUBSET Ids /\ failed' \in BOOLEAN /\ file' \subseteq file \cup items'
  BY <1>2, SaveType DEF Schedule, TimersInv, TypeOK
<1>4. TypeOK' /\ OffForGood'
  BY <1>1, <1>2, <1>3 DEF Schedule, TimersInv, TypeOK, Capped, OffForGood
<1>5. ASSUME OneWay, ~failed' PROVE OneWay'
  <2>1. file' = items'
    BY <1>2, <1>5, SaveKeeps DEF Schedule, OneWay
  <2> QED
    BY <2>1, <1>5 DEF Schedule, OneWay, Pending, TimersInv, TypeOK
<1>6. failed => failed'
  BY DEF Schedule, Save
<1> QED
  BY <1>1, <1>4, <1>5, <1>6 DEF TimersInv

LEMMA FireTimers == ASSUME TimersInv, NEW x \in Ids, Fire(x) PROVE TimersInv'
<1>1. CASE x \notin items
  <2>1. UNCHANGED <<items, file, armed, firing, made, told, called, failed, restarts>> /\ due' \subseteq due
    BY <1>1 DEF Fire
  <2>2. Capped' /\ TypeOK' /\ OffForGood'
    BY <2>1 DEF TimersInv, TypeOK, Capped, OffForGood
  <2>3. OneWay => OneWay'
    BY <2>1 DEF OneWay, Pending
  <2> QED
    BY <2>1, <2>2, <2>3 DEF TimersInv
<1>2. CASE x \in items
  <2>1. /\ items' = items \ {x} /\ Save(x) /\ firing' = firing \cup {x} /\ due' = due \ {x}
        /\ UNCHANGED <<armed, made, told, called, restarts>> /\ x \in due
    BY <1>2 DEF Fire
  <2>2. Capped'
    BY <2>1, RemoveCapped, SaveCapped DEF Capped, TimersInv
  <2>3. items' \in SUBSET Ids
    BY <2>1 DEF TimersInv, TypeOK
  <2>4. file' \in SUBSET Ids /\ failed' \in BOOLEAN /\ file' \subseteq file \cup items'
    BY <2>1, <2>3, SaveType DEF TimersInv, TypeOK
  <2>5. TypeOK' /\ OffForGood'
    BY <2>1, <2>2, <2>3, <2>4 DEF TimersInv, TypeOK, Capped, OffForGood
  <2>6. ASSUME OneWay, ~failed' PROVE OneWay'
    <3>1. file' = items'
      BY <2>1, <2>3, <2>6, SaveKeeps DEF OneWay
    <3> QED
      BY <3>1, <2>1, <2>6, <1>2 DEF OneWay, Pending
  <2>7. failed => failed'
    BY <2>1 DEF Save
  <2> QED
    BY <2>2, <2>5, <2>6, <2>7 DEF TimersInv
<1> QED
  BY <1>1, <1>2

LEMMA CancelByIDTimers == ASSUME TimersInv, NEW x \in Ids, CancelByID(x) PROVE TimersInv'
<1>1. /\ items' = items \ {x} /\ Save(x) /\ armed' = armed \ {x}
      /\ x \in items /\ x \in Reminders /\ called' = called \cup {x}
      /\ UNCHANGED <<due, firing, made, told, restarts>>
  BY DEF CancelByID
<1>2. Capped'
  BY <1>1, RemoveCapped, SaveCapped DEF Capped, TimersInv
<1>3. items' \in SUBSET Ids
  BY <1>1 DEF TimersInv, TypeOK
<1>4. file' \in SUBSET Ids /\ failed' \in BOOLEAN /\ file' \subseteq file \cup items'
  BY <1>1, <1>3, SaveType DEF TimersInv, TypeOK
<1>5. TypeOK' /\ OffForGood'
  BY <1>1, <1>2, <1>3, <1>4 DEF TimersInv, TypeOK, Capped, OffForGood
<1>6. ASSUME OneWay, ~failed' PROVE OneWay'
  <2>1. file' = items'
    BY <1>1, <1>3, <1>6, SaveKeeps DEF OneWay
  <2> QED
    BY <2>1, <1>1, <1>6 DEF OneWay, Pending
<1>7. failed => failed'
  BY <1>1 DEF Save
<1> QED
  BY <1>2, <1>5, <1>6, <1>7 DEF TimersInv

LEMMA GoesOffTimers == ASSUME TimersInv, NEW x \in Ids, GoesOff(x) PROVE TimersInv'
<1>1. TypeOK' /\ Capped' /\ OffForGood'
  BY DEF GoesOff, TimersInv, TypeOK, Capped, OffForGood
<1>2. OneWay => OneWay'
  BY DEF GoesOff, OneWay, Pending
<1> QED
  BY <1>1, <1>2 DEF GoesOff, TimersInv

LEMMA DeliverTimers == ASSUME TimersInv, NEW x \in Ids, Deliver(x) PROVE TimersInv'
<1>1. TypeOK' /\ Capped' /\ OffForGood'
  BY DEF Deliver, TimersInv, TypeOK, Capped, OffForGood
<1>2. OneWay => OneWay'
  BY DEF Deliver, TimersInv, TypeOK, OneWay, Pending
<1> QED
  BY <1>1, <1>2 DEF Deliver, TimersInv

LEMMA DropTimers == ASSUME TimersInv, NEW x \in Ids, Drop(x) PROVE TimersInv'
<1>1. TypeOK' /\ Capped' /\ OffForGood'
  BY DEF Drop, TimersInv, TypeOK, Capped, OffForGood
<1>2. OneWay => OneWay'
  BY DEF Drop, OneWay, Pending
<1> QED
  BY <1>1, <1>2 DEF Drop, TimersInv

LEMMA CancelTimersInv == ASSUME TimersInv, NEW store, Cancel(store) PROVE TimersInv'
<1>1. TypeOK' /\ Capped' /\ OffForGood'
  BY DEF Cancel, TimersInv, TypeOK, Capped, OffForGood
<1>2. OneWay => OneWay'
  BY DEF Cancel, OneWay, Pending
<1> QED
  BY <1>1, <1>2 DEF Cancel, TimersInv

LEMMA RestartTimers == ASSUME TimersInv, Restart PROVE TimersInv'
<1>1. TypeOK' /\ Capped' /\ OffForGood'
  BY TimersAssumption DEF Restart, TimersInv, TypeOK, Capped, OffForGood, TimersAssumption
<1>2. OneWay => OneWay'
  BY DEF Restart, OneWay, Pending
<1> QED
  BY <1>1, <1>2 DEF Restart, TimersInv

LEMMA StutterTimers == ASSUME TimersInv, UNCHANGED timerVars PROVE TimersInv'
  BY DEF timerVars, TimersInv, TypeOK, Capped, OffForGood, OneWay, Pending

-----------------------------------------------------------------------------
(* Close.  A manager that Close has left has no turn and starts none, plugins *)
(* are closed after the chats, and what is armed after a store's Cancel was    *)
(* made after it.                                                            *)

CloseInv ==
  /\ closed \in 0..6
  /\ closed >= Place["chats"] => "chats" \notin busy
  /\ released # {} => closed >= Place["plugins"]
  /\ closed >= Place["reminders"] => armed \cap Reminders \subseteq late
  /\ closed >= Place["wakes"] => armed \cap Wakes \subseteq late

LInv == TimersInv /\ CloseInv

LEMMA Places ==
  /\ Place["reminders"] = 1 /\ Place["wakes"] = 2 /\ Place["chats"] = 3
  /\ Place["agentChats"] = 4 /\ Place["plugins"] = 5 /\ Place["voice"] = 6
  /\ Place.voice = 6
  BY DEF Place

LEMMA InitLInv == LifetimeInit => LInv
<1>1. LifetimeInit => CloseInv
  BY Places DEF LifetimeInit, CloseInv
<1> QED
  BY <1>1, InitTimers DEF LifetimeInit, LInv

\* Of Close's own steps.
LEMMA CloseStepLInv == ASSUME LInv, CloseStep PROVE LInv'
<1> USE DEF LInv
<1>1. ASSUME CancelTimers("reminders", Reminders) PROVE LInv'
  <2>1. TimersInv'
    BY <1>1, CancelTimersInv DEF CancelTimers
  <2>2. CloseInv'
    BY <1>1, Places DEF CancelTimers, Closing, Done, Cancel, CloseInv, turnVars, reloadVars
  <2> QED
    BY <2>1, <2>2
<1>2. ASSUME CancelTimers("wakes", Wakes) PROVE LInv'
  <2>1. TimersInv'
    BY <1>2, CancelTimersInv DEF CancelTimers
  <2>2. CloseInv'
    BY <1>2, Places DEF CancelTimers, Closing, Done, Cancel, CloseInv, turnVars, reloadVars
  <2> QED
    BY <2>1, <2>2
<1>3. ASSUME NEW m \in Managers, Latch(m) PROVE LInv'
  BY <1>3, StutterTimers, Places DEF Latch, CloseInv, timerVars, turnVars, reloadVars
<1>4. ASSUME NEW m \in Managers, CloseAllReturns(m) PROVE LInv'
  <2>1. TimersInv'
    BY <1>4, StutterTimers DEF CloseAllReturns
  <2>2. CloseInv'
    BY <1>4, Places DEF CloseAllReturns, Closing, Done, CloseInv, Managers, timerVars, turnVars, reloadVars
  <2> QED
    BY <2>1, <2>2
<1>5. ASSUME ClosePlugins PROVE LInv'
  <2>1. TimersInv'
    BY <1>5, StutterTimers DEF ClosePlugins
  <2>2. CloseInv'
    BY <1>5, Places DEF ClosePlugins, Closing, Done, CloseInv, timerVars, turnVars, reloadVars
  <2> QED
    BY <2>1, <2>2
<1> QED
  BY <1>1, <1>2, <1>3, <1>4, <1>5 DEF CloseStep

\* Of turns and timers.
LEMMA TurnLInv == ASSUME LInv, NEW m \in Managers, StartTurn(m) \/ EndTurn(m) PROVE LInv'
<1> USE DEF LInv
<1>1. CASE StartTurn(m)
  BY <1>1, StutterTimers, Places
  DEF StartTurn, Begins, Refusing, CloseInv, timerVars, closeVars, reloadVars
<1>2. CASE EndTurn(m)
  BY <1>2, StutterTimers DEF EndTurn, CloseInv, timerVars, closeVars, reloadVars
<1> QED
  BY <1>1, <1>2

LEMMA SchedulesLInv ==
  ASSUME LInv, NEW m \in Managers, NEW x \in Ids, TurnSchedules(m, x) PROVE LInv'
<1> USE DEF LInv
<1>1. TimersInv'
  BY ScheduleTimers DEF TurnSchedules
<1>2. /\ armed' = armed \cup {x}
      /\ late' = IF closed >= Place[StoreOf(x)] THEN late \cup {x} ELSE late
      /\ UNCHANGED <<closed, latched, busy, released>>
  BY DEF TurnSchedules, Schedule, turnVars, reloadVars
<1>3. Place[StoreOf(x)] = IF x \in Wakes THEN Place["wakes"] ELSE Place["reminders"]
  BY DEF StoreOf
<1>4. CloseInv'
  BY <1>2, <1>3 DEF CloseInv, Reminders
<1> QED
  BY <1>1, <1>4

LEMMA DeliveryLInv ==
  ASSUME LInv, NEW x \in Ids, Remind(x) \/ WakeUp(x) \/ TimerStep(x)
  PROVE  LInv'
<1> USE DEF LInv
<1>1. CASE Remind(x)
  BY <1>1, DeliverTimers DEF Remind, Deliver, CloseInv, closeVars, turnVars, reloadVars
<1>2. CASE WakeUp(x)
  <2>1. TimersInv'
    BY <1>2, DeliverTimers DEF WakeUp
  <2>2. PICK m \in Talkers \ {"voice"} : Begins(m)
    BY <1>2 DEF WakeUp
  <2>3. CloseInv'
    BY <1>2, <2>2, Places DEF WakeUp, Deliver, Begins, Refusing, CloseInv, closeVars, reloadVars
  <2> QED
    BY <2>1, <2>3
<1>3. CASE TimerStep(x)
  <2>1. TimersInv'
    BY <1>3, GoesOffTimers, FireTimers, DropTimers, CancelByIDTimers DEF TimerStep
  <2>2. armed' \subseteq armed
    BY <1>3 DEF TimerStep, GoesOff, Fire, Drop, CancelByID
  <2>3. CloseInv'
    BY <1>3, <2>2 DEF TimerStep, CloseInv, closeVars, turnVars, reloadVars
  <2> QED
    BY <2>1, <2>3
<1> QED
  BY <1>1, <1>2, <1>3

LEMMA NextLInv == LInv /\ [LifetimeNext]_vars => LInv'
<1> SUFFICES ASSUME LInv, [LifetimeNext]_vars PROVE LInv'
  OBVIOUS
<1>1. CASE CloseStep
  BY <1>1, CloseStepLInv
<1>2. CASE \E m \in Talkers : StartTurn(m) \/ EndTurn(m) \/ \E x \in Ids : TurnSchedules(m, x)
  <2>1. PICK m \in Managers : StartTurn(m) \/ EndTurn(m) \/ \E x \in Ids : TurnSchedules(m, x)
    BY <1>2, LifetimeAssumption DEF LifetimeAssumption
  <2>2. CASE StartTurn(m) \/ EndTurn(m)
    BY <2>2, TurnLInv
  <2>3. CASE \E x \in Ids : TurnSchedules(m, x)
    BY <2>3, SchedulesLInv
  <2> QED
    BY <2>1, <2>2, <2>3
<1>3. CASE \E x \in Ids : Remind(x) \/ WakeUp(x) \/ TimerStep(x)
  BY <1>3, DeliveryLInv
<1>4. CASE Swap
  BY <1>4, StutterTimers DEF LInv, Swap, CloseInv, timerVars, closeVars, turnVars
<1>5. CASE Retire
  BY <1>5, StutterTimers DEF LInv, Retire, CloseInv, timerVars, closeVars, turnVars
<1>6. CASE Reopen
  <2>1. TimersInv'
    BY <1>6, RestartTimers DEF Reopen, LInv
  <2>2. CloseInv'
    BY <1>6, Places DEF Reopen, CloseInv
  <2> QED
    BY <2>1, <2>2 DEF LInv
<1>7. CASE UNCHANGED vars
  BY <1>7, StutterTimers DEF LInv, vars, CloseInv, timerVars, closeVars, turnVars, reloadVars
<1> QED
  BY <1>1, <1>2, <1>3, <1>4, <1>5, <1>6, <1>7 DEF LifetimeNext

-----------------------------------------------------------------------------
(* Types.  The snapshots in use, retired and released are ones that were      *)
(* published.                                                                 *)

Snapshots ==
  /\ published \in 0..MaxReloads /\ using \in 0..published
  /\ retired \subseteq 0..published /\ released \subseteq 0..published
  /\ reloading \in BOOLEAN /\ (reloading => published > 0)

TurnTypesOK == latched \in BOOLEAN /\ busy \subseteq Managers /\ late \subseteq made

\* The initial state has these types, and every step keeps them.
LEMMA InitTypes == LifetimeInit => Snapshots /\ TurnTypesOK
<1> SUFFICES ASSUME LifetimeInit PROVE Snapshots /\ TurnTypesOK
  OBVIOUS
<1>1. 0 \in 0..MaxReloads /\ 0 \in 0..0
  BY LifetimeAssumption DEF LifetimeAssumption
<1>2. Snapshots
  BY <1>1 DEF LifetimeInit, Snapshots
<1>3. TurnTypesOK
  BY DEF LifetimeInit, Init, TurnTypesOK
<1> QED
  BY <1>2, <1>3

\* A step that leaves the reloads and the snapshot in use alone.
LEMMA SameSnapshots == Snapshots /\ UNCHANGED <<reloadVars, using>> => Snapshots'
  BY DEF Snapshots, reloadVars

\* A step of Close leaves the turns alone and the timers that were made.
LEMMA CloseTypes ==
  ASSUME TurnTypesOK, UNCHANGED <<turnVars, made, late>>, latched' \in BOOLEAN
  PROVE  TurnTypesOK'
  BY DEF TurnTypesOK, turnVars

\* The turn that begins works with a snapshot that was published.
LEMMA TurnTypes ==
  ASSUME Snapshots, TurnTypesOK, NEW m \in Managers, Begins(m)
  PROVE  busy' \subseteq Managers /\ using' \in 0..published
  BY DEF Begins, Snapshots, TurnTypesOK

LEMMA NextTypes == TypeOK /\ Snapshots /\ TurnTypesOK /\ [LifetimeNext]_vars => Snapshots' /\ TurnTypesOK'
<1> SUFFICES ASSUME TypeOK, Snapshots, TurnTypesOK, [LifetimeNext]_vars PROVE Snapshots' /\ TurnTypesOK'
  OBVIOUS
<1>1. CASE CloseStep
  <2>1. ASSUME NEW step, NEW store, CancelTimers(step, store) PROVE Snapshots' /\ TurnTypesOK'
    <3>1. UNCHANGED <<turnVars, reloadVars, made, late>> /\ latched' = FALSE
      BY <2>1 DEF CancelTimers, Done, Cancel
    <3> QED
      BY <3>1, SameSnapshots, CloseTypes DEF turnVars
  <2>2. ASSUME NEW m \in Managers, Latch(m) \/ CloseAllReturns(m) PROVE Snapshots' /\ TurnTypesOK'
    <3>1. UNCHANGED <<turnVars, reloadVars, made, late>> /\ (latched' = TRUE \/ latched' = FALSE)
      BY <2>2 DEF Latch, CloseAllReturns, Done, timerVars
    <3> QED
      BY <3>1, SameSnapshots, CloseTypes DEF turnVars
  <2>3. CASE ClosePlugins
    <3>1. UNCHANGED <<turnVars, made, late>> /\ latched' = FALSE
      BY <2>3 DEF ClosePlugins, Done, timerVars
    <3>2. TurnTypesOK'
      BY <3>1, CloseTypes
    <3>3. published \in 0..published
      BY DEF Snapshots
    <3>4. Snapshots'
      BY <2>3, <3>3 DEF ClosePlugins, turnVars, Snapshots
    <3> QED
      BY <3>2, <3>4
  <2> QED
    BY <1>1, <2>1, <2>2, <2>3 DEF CloseStep
<1>2. ASSUME NEW m \in Talkers, StartTurn(m) PROVE Snapshots' /\ TurnTypesOK'
  BY <1>2, TurnTypes, LifetimeAssumption
  DEF LifetimeAssumption, StartTurn, timerVars, closeVars, reloadVars, Snapshots, TurnTypesOK
<1>3. ASSUME NEW m \in Talkers, EndTurn(m) PROVE Snapshots' /\ TurnTypesOK'
  BY <1>3 DEF EndTurn, timerVars, closeVars, reloadVars, Snapshots, TurnTypesOK
<1>4. ASSUME NEW m \in Talkers, NEW x \in Ids, TurnSchedules(m, x) PROVE Snapshots' /\ TurnTypesOK'
  <2>1. UNCHANGED <<turnVars, reloadVars, latched>> /\ made' = made \cup {x}
    BY <1>4 DEF TurnSchedules, Schedule
  <2>2. late' \subseteq late \cup {x}
    BY <1>4 DEF TurnSchedules
  <2>3. TurnTypesOK'
    BY <2>1, <2>2 DEF TurnTypesOK, turnVars
  <2> QED
    BY <2>1, <2>3, SameSnapshots DEF turnVars
<1>5. ASSUME NEW x \in Ids, Remind(x) \/ TimerStep(x) PROVE Snapshots' /\ TurnTypesOK'
  <2>1. UNCHANGED <<closeVars, turnVars, reloadVars, made>>
    BY <1>5 DEF Remind, Deliver, TimerStep, GoesOff, Fire, Drop, CancelByID
  <2> QED
    BY <2>1, SameSnapshots, CloseTypes DEF closeVars, turnVars, TurnTypesOK
<1>6. ASSUME NEW x \in Ids, WakeUp(x) PROVE Snapshots' /\ TurnTypesOK'
  <2>1. PICK m \in Talkers \ {"voice"} : Begins(m)
    BY <1>6 DEF WakeUp
  <2>2. m \in Managers
    BY LifetimeAssumption DEF LifetimeAssumption
  <2>3. busy' \subseteq Managers /\ using' \in 0..published
    BY <2>1, <2>2, TurnTypes
  <2> QED
    BY <1>6, <2>3 DEF WakeUp, Deliver, closeVars, reloadVars, Snapshots, TurnTypesOK
<1>7. CASE Swap
  <2>1. UNCHANGED <<closeVars, turnVars, made>>
    BY <1>7 DEF Swap, timerVars
  <2>2. TurnTypesOK'
    BY <2>1, CloseTypes DEF closeVars, turnVars, TurnTypesOK
  <2>3. published \in Nat /\ published' = published + 1 /\ published' \in 0..MaxReloads /\ published' > 0
    BY <1>7, LifetimeAssumption DEF LifetimeAssumption, Swap, Snapshots
  <2>4. 0..published \subseteq 0..published'
    BY <2>3
  <2>5. reloading' = TRUE /\ UNCHANGED <<using, retired, released>>
    BY <1>7 DEF Swap, turnVars
  <2>6. Snapshots'
    BY <2>3, <2>4, <2>5 DEF Snapshots
  <2> QED
    BY <2>2, <2>6
<1>8. CASE Retire
  <2>1. UNCHANGED <<closeVars, turnVars, made>>
    BY <1>8 DEF Retire, timerVars
  <2>2. TurnTypesOK'
    BY <2>1, CloseTypes DEF closeVars, turnVars, TurnTypesOK
  <2>3. published - 1 \in 0..published
    BY <1>8 DEF Retire, Snapshots
  <2>4. reloading' = FALSE /\ UNCHANGED <<using, published, released>> /\ retired' = retired \cup {published - 1}
    BY <1>8 DEF Retire, turnVars
  <2>5. Snapshots'
    BY <2>3, <2>4 DEF Snapshots
  <2> QED
    BY <2>2, <2>5
<1>9. CASE Reopen
  <2>1. 0 \in 0..MaxReloads /\ 0 \in 0..0
    BY LifetimeAssumption DEF LifetimeAssumption
  <2>2. Snapshots'
    BY <1>9, <2>1 DEF Reopen, Snapshots
  <2>3. TurnTypesOK'
    BY <1>9 DEF Reopen, TurnTypesOK
  <2> QED
    BY <2>2, <2>3
<1>10. CASE UNCHANGED vars
  BY <1>10, SameSnapshots, CloseTypes DEF vars, timerVars, closeVars, turnVars, TurnTypesOK
<1> QED
  BY <1>1, <1>2, <1>3, <1>4, <1>5, <1>6, <1>7, <1>8, <1>9, <1>10 DEF LifetimeNext

-----------------------------------------------------------------------------
\* The inductive invariant of the timers and of Close.
THEOREM LifetimeInvariant == LifetimeSpec => []LInv
  BY InitLInv, NextLInv, PTL DEF LifetimeSpec

\* Types, for any timers, managers and reloads: among them that no more wakes are
\* pending than the cap says, and that only snapshots that were published are in use.
THEOREM LifetimeTypeCorrect == LifetimeSpec => []LifetimeTypeOK
<1>1. LInv => TypeOK
  BY DEF LInv, TimersInv
<1>2. LInv /\ Snapshots /\ TurnTypesOK => LifetimeTypeOK
  BY <1>1 DEF LInv, CloseInv, Snapshots, TurnTypesOK, LifetimeTypeOK
<1> QED
  BY <1>1, <1>2, LifetimeInvariant, InitTypes, NextTypes, PTL DEF LifetimeSpec

\* fire "removes it": while writes succeed nothing is delivered twice, for any timers
\* and any number of restarts at any moment.
THEOREM TimersFireOnce == LifetimeSpec => []FiresOnce
<1>1. LInv => FiresOnce
  BY DEF LInv, TimersInv, OneWay, FiresOnce
<1> QED
  BY <1>1, LifetimeInvariant, PTL

\* CancelByID's answer holds: while writes succeed a reminder that was cancelled is
\* never delivered, through any number of restarts.
THEOREM CancelledStaysCancelled == LifetimeSpec => []CancelHolds
<1>1. LInv => CancelHolds
  BY DEF LInv, TimersInv, TypeOK, OneWay, Pending, CancelHolds, Reminders
<1> QED
  BY <1>1, LifetimeInvariant, PTL

\* Both, which is what a person who set a reminder relies on.
THEOREM TimersAreKept == LifetimeSpec => []TimersHold
BY TimersFireOnce, CancelledStaysCancelled, PTL DEF TimersHold

\* No turn of a chat works with plugins that are closed (Workspace.retired), for any
\* number of reloads and wherever Close lands.
THEOREM PluginsStayOpen == LifetimeSpec => []PluginsOutliveTurns
<1>1. LInv => PluginsOutliveTurns
  BY Places DEF LInv, CloseInv, PluginsOutliveTurns
<1> QED
  BY <1>1, LifetimeInvariant, PTL

\* What Close leaves running: timers made after their store's Cancel and no other.
THEOREM CloseStopsWhatItFinds == LifetimeSpec => []OnlyLateTimersRemain
<1>1. LInv => OnlyLateTimersRemain
  BY Places DEF LInv, TimersInv, TypeOK, CloseInv, OnlyLateTimersRemain, Closed, Reminders
<1> QED
  BY <1>1, LifetimeInvariant, PTL

-----------------------------------------------------------------------------
(*****************************************************************************)
(* No two schedulers overlap, for any number of reloads.                     *)
(*****************************************************************************)

\* The scheduler that runs is the one of the pass the loop is in, and the loop is in
\* no pass before it has started one or after it has seen it return.
OnlyThisPass ==
  /\ gens \subseteq {held}
  /\ starter \in {"away", "new", "take", "read", "over"} => gens = {}

IInv == SchedTypeOK /\ OnlyThisPass

LEMMA InitIInv == SchedInit => IInv
<1> SUFFICES ASSUME SchedInit PROVE IInv
  OBVIOUS
<1> USE DEF SchedInit
<1>1. bgClosed \in BOOLEAN /\ stopBg \in BOOLEAN /\ stopped \in BOOLEAN /\ watching \in BOOLEAN
  OBVIOUS
<1>2. 0 \in 0..MaxSwaps /\ 0 \in 0..0
  BY SchedulerAssumption DEF SchedulerAssumption
<1>3. SchedTypeOK
  BY <1>1, <1>2 DEF SchedTypeOK
<1> QED
  BY <1>3 DEF IInv, OnlyThisPass

LEMMA NextIInv == IInv /\ [SchedNext]_schedVars => IInv'
<1> SUFFICES ASSUME IInv, [SchedNext]_schedVars PROVE IInv'
  OBVIOUS
<1> USE SchedulerAssumption DEF SchedulerAssumption, IInv, SchedTypeOK, OnlyThisPass, loopVars, stopVars
<1>0. CASE Attach
  BY <1>0 DEF Attach
<1>1. CASE StartAgents
  BY <1>1 DEF StartAgents
<1>2. CASE NextGeneration
  <2>1. CASE starter = "take"
    <3>1. gens' = gens /\ held' = signal /\ reading' = reading /\ starter' = "read"
      BY <1>2, <2>1 DEF NextGeneration, Take
    <3>2. UNCHANGED <<watching, bgClosed, stopBg, stopped, current, signal>>
      BY <1>2 DEF NextGeneration
    <3>3. gens = {} /\ signal \in 0..signal
      BY <2>1
    <3> QED
      BY <3>1, <3>2, <3>3
  <2>2. CASE starter = "read"
    <3>1. gens' = {held} /\ held' = held /\ reading' = current /\ starter' = "wait"
      BY <1>2, <2>2 DEF NextGeneration, Read, Begin
    <3>2. UNCHANGED <<watching, bgClosed, stopBg, stopped, current, signal>>
      BY <1>2 DEF NextGeneration
    <3> QED
      BY <3>1, <3>2
  <2> QED
    BY <1>2, <2>1, <2>2 DEF NextGeneration
<1>3. CASE Awaken
  BY <1>3 DEF Awaken
<1>4. CASE Drained
  BY <1>4 DEF Drained
<1>5. CASE WatchReturns
  BY <1>5 DEF WatchReturns
<1>6. CASE \E g \in gens : SchedulerReturns(g)
  BY <1>6 DEF SchedulerReturns
<1>7. CASE SwapAgents
  BY <1>7 DEF SwapAgents
<1>8. CASE RestartScheduler
  BY <1>8 DEF RestartScheduler
<1>9. CASE StopBackground
  BY <1>9 DEF StopBackground
<1>10. CASE Shutdown
  BY <1>10 DEF Shutdown
<1>11. CASE UNCHANGED schedVars
  BY <1>11 DEF schedVars
<1> QED
  BY <1>0, <1>1, <1>2, <1>3, <1>4, <1>5, <1>6, <1>7, <1>8, <1>9, <1>10, <1>11
  DEF SchedNext, LoopStep

\* A subset of one element has at most one.
LEMMA OneGenerationFollows == IInv => OneGeneration
<1> SUFFICES ASSUME IInv PROVE Cardinality(gens) <= 1
  BY DEF OneGeneration
<1>1. IsFiniteSet({held}) /\ Cardinality({held}) = 1
  BY FS_Singleton
<1>2. Cardinality(gens) <= Cardinality({held})
  BY <1>1, FS_Subset DEF IInv, OnlyThisPass
<1> QED
  BY <1>1, <1>2

\* The variables of the loop keep their types, and the reloads are single-flight:
\* the snapshot is never more than one ahead of the signal.
THEOREM LoopTypeCorrect == SchedSpec => []SchedTypeOK
<1>1. IInv => SchedTypeOK
  BY DEF IInv
<1> QED
  BY InitIInv, NextIInv, <1>1, PTL DEF SchedSpec

\* "Exactly one generation runs at a time" (runScheduler), for any number of reloads
\* and wherever they and Close land.
THEOREM GenerationsNeverOverlap == SchedSpec => []OneGeneration
  BY InitIInv, NextIInv, OneGenerationFollows, PTL DEF SchedSpec

-----------------------------------------------------------------------------
(*****************************************************************************)
(* What is installed, for any extensions, packages and devices.              *)
(*****************************************************************************)

-----------------------------------------------------------------------------
(* The inductive invariant of Extensions, part by part.                     *)

Steps == {"idle", "claim", "write", "delete", "forget"}
Command == [at : Steps, name : Installable \cup {""}, rest : Seq(FileKinds), hosts : SUBSET Hosts,
            asked : Announcing \cup {"none"}]
LastAnnounce(q) == \A i, j \in DOMAIN q : i < j /\ q[i] \in Announcing => q[j] \in Announcing

\* Of the commands: what a removal takes along is what it was asked for.
CommandOK(cmd) ==
    /\ cmd \in Command
    /\ cmd.at # "idle" => cmd.name \in Installable
    /\ cmd.at = "write" => cmd.rest # <<>> /\ cmd.asked = "none"
    /\ cmd.hosts \subseteq {<<cmd.name, cmd.asked>>}
CommandsOK == handling \in [Conns -> Command] /\ \A c \in Conns : CommandOK(handling[c])

FilesOK ==
    /\ tree \in [Installable -> {Unmade} \cup SUBSET FileKinds]
    /\ wanted \in [Installable -> SUBSET FileKinds]
    /\ inventory \in [Installable -> SUBSET Announcing]
    /\ granted \subseteq Hosts /\ excused \subseteq Hosts /\ met \subseteq Hosts
    /\ shared \subseteq Installable /\ torn \subseteq Installable /\ staying \subseteq Installable

ScanOK ==
    /\ scan.at \in {"none", "servers", "payloads", "publish"}
    /\ scan.seen \in [Installable -> SUBSET Announcing]

\* A command ends in one reload at the most.
Busy == {c \in Conns : handling[c].at # "idle"}
CountOK ==
    /\ IsFiniteSet(Busy) /\ commands \in Nat /\ waiting \in Nat
    /\ Cardinality(Busy) + waiting <= commands /\ commands <= MaxCommands

\* A folder nobody made twice and nothing takes apart has one writer, who
\* has in hand what it lacks, and what announces comes last.
Writes(c, n) == handling[c].at = "write" /\ handling[c].name = n
Deletes(c, n) == handling[c].at = "delete" /\ handling[c].name = n
WriterOK(n, q) ==
    /\ Made(n) /\ wanted[n] = tree[n] \cup Range(q) /\ LastAnnounce(q)
    /\ Payloads(n) # {} => Range(q) \subseteq Announcing
FolderOK(n) ==
    /\ \A c \in Conns : Deletes(c, n) => n \in torn
    /\ n \notin shared \cup torn =>
          /\ \A c, d \in Conns : Writes(c, n) /\ Writes(d, n) => c = d
          /\ \A c \in Conns : Writes(c, n) => WriterOK(n, handling[c].rest)
          /\ Payloads(n) # {} => wanted[n] \ Announcing \subseteq tree[n]
    /\ n \in staying => /\ n \notin shared \cup torn /\ Made(n) /\ tree[n] = wanted[n]
                        /\ \A c \in Conns : ~Writes(c, n)
FoldersOK == \A n \in Installable : FolderOK(n)

\* What a reload has read of a folder no command is about is what is there,
\* when no other reload waits.
Untouched(n) == \A c \in Conns : handling[c].name = n => handling[c].at = "idle"
FreshOK(n) ==
    ~missed /\ waiting = 0 /\ Untouched(n) =>
        /\ scan.at = "none" => inventory[n] = Payloads(n)
        /\ scan.at = "payloads" => (n \in scan.servers <=> "mcp" \in tree[n])
        /\ scan.at = "publish" => scan.seen[n] = Payloads(n)
AllFresh == \A n \in Installable : FreshOK(n)

\* A grant whose payload is going, or is gone, is in the hands of a removal.
Doomed(h) == \E c \in Conns : Deletes(c, h[1]) /\ handling[c].asked = h[2]
Covered(h) == \E c \in Conns : handling[c].at \in {"delete", "forget"} /\ h \in handling[c].hosts
GrantOK(h) == h \in granted \ excused => Covered(h) \/ (h[2] \in tree[h[1]] /\ ~Doomed(h))
GrantsOK == \A h \in Hosts : GrantOK(h)

ExtensionInv == CommandsOK /\ FilesOK /\ ScanOK /\ CountOK /\ FoldersOK /\ AllFresh /\ GrantsOK

-----------------------------------------------------------------------------
LEMMA KindsApart == Announcing \subseteq FileKinds /\ "none" \notin FileKinds /\ Unmade \notin SUBSET FileKinds
BY DEF Announcing, FileKinds, Unmade

LEMMA UnoccupiedOK == CommandOK(Unoccupied)
<1>1. <<>> \in Seq(FileKinds)
  BY EmptySeq
<1> QED
  BY <1>1 DEF CommandOK, Unoccupied, Command, Steps

LEMMA WritingOK ==
  ASSUME NEW n \in Installable, NEW q \in Seq(FileKinds), q # <<>>
  PROVE  CommandOK(WritingParts(n, q)) /\ WritingParts(n, q).at = "write" /\ WritingParts(n, q).name = n
         /\ WritingParts(n, q).rest = q /\ WritingParts(n, q).hosts = {} /\ WritingParts(n, q).asked = "none"
BY DEF CommandOK, WritingParts, Unoccupied, Command, Steps

\* One device's command changes.
LEMMA TakesEffect ==
  ASSUME CommandsOK, NEW c \in Conns, NEW cmd, CommandOK(cmd), Takes(c, cmd)
  PROVE  /\ CommandsOK' /\ handling'[c] = cmd
         /\ \A d \in Conns \ {c} : handling'[d] = handling[d]
<1>1. cmd \in Command
  BY DEF CommandOK
<1>2. handling' \in [Conns -> Command] /\ handling'[c] = cmd /\ \A d \in Conns \ {c} : handling'[d] = handling[d]
  BY <1>1 DEF CommandsOK, Takes
<1>3. \A d \in Conns : CommandOK(handling'[d])
  BY <1>2 DEF CommandsOK
<1> QED
  BY <1>2, <1>3 DEF CommandsOK, CommandOK

LEMMA CountBegins ==
  ASSUME CountOK, NEW c \in Conns, handling[c].at = "idle", handling'[c].at # "idle",
         \A d \in Conns \ {c} : handling'[d] = handling[d],
         commands < MaxCommands, commands' = commands + 1, UNCHANGED waiting
  PROVE  CountOK'
<1>1. Busy' = Busy \cup {c} /\ c \notin Busy
  BY DEF Busy
<1>2. IsFiniteSet(Busy \cup {c}) /\ Cardinality(Busy \cup {c}) = Cardinality(Busy) + 1
  BY <1>1, FS_AddElement DEF CountOK
<1>3. Cardinality(Busy) \in Nat
  BY FS_CardinalityType DEF CountOK
<1>4. IsFiniteSet(Busy') /\ Cardinality(Busy') = Cardinality(Busy) + 1
  BY <1>1, <1>2
<1>5. MaxCommands \in Nat
  BY ExtensionAssumption
<1> QED
  BY <1>3, <1>4, <1>5 DEF CountOK

LEMMA CountGoesOn ==
  ASSUME CountOK, NEW c \in Conns, handling[c].at # "idle", handling'[c].at # "idle",
         \A d \in Conns \ {c} : handling'[d] = handling[d], UNCHANGED <<commands, waiting>>
  PROVE  CountOK'
<1>1. Busy' = Busy
  BY DEF Busy
<1> QED
  BY <1>1 DEF CountOK

LEMMA CountEnds ==
  ASSUME CountOK, NEW c \in Conns, handling[c].at # "idle", handling'[c].at = "idle",
         \A d \in Conns \ {c} : handling'[d] = handling[d],
         UNCHANGED commands, waiting' \in {waiting, waiting + 1}
  PROVE  CountOK'
<1>1. Busy' = Busy \ {c} /\ c \in Busy
  BY DEF Busy
<1>2. IsFiniteSet(Busy \ {c}) /\ Cardinality(Busy \ {c}) = Cardinality(Busy) - 1
  BY <1>1, FS_RemoveElement DEF CountOK
<1>3. Cardinality(Busy) \in Nat /\ Cardinality(Busy \ {c}) \in Nat
  BY <1>2, FS_CardinalityType DEF CountOK
<1>4. IsFiniteSet(Busy') /\ Cardinality(Busy') = Cardinality(Busy) - 1
  BY <1>1, <1>2
<1> QED
  BY <1>3, <1>4 DEF CountOK

\* The folders a step is not about.
LEMMA OtherFolder ==
  ASSUME NEW n \in Installable, FolderOK(n), tree'[n] = tree[n], wanted'[n] = wanted[n],
         n \in shared' <=> n \in shared, n \in torn' <=> n \in torn, n \in staying' <=> n \in staying,
         \A c \in Conns : \/ handling'[c] = handling[c]
                          \/ ~Writes(c, n)' /\ ~Deletes(c, n)'
  PROVE  FolderOK(n)'
<1>1. /\ \A c \in Conns : Writes(c, n)' => Writes(c, n) /\ handling'[c] = handling[c]
      /\ \A c \in Conns : Deletes(c, n)' => Deletes(c, n)
  BY DEF Writes, Deletes
<1>2. Made(n)' = Made(n) /\ Payloads(n)' = Payloads(n)
  BY DEF Made, Payloads
<1>3. \A c \in Conns : Writes(c, n)' /\ n \notin shared \cup torn => WriterOK(n, handling[c].rest)'
  BY <1>1, <1>2 DEF FolderOK, WriterOK
<1>4. \A c \in Conns : Writes(c, n)' /\ n \notin shared \cup torn => WriterOK(n, handling'[c].rest)
  BY <1>1 DEF FolderOK
<1> QED
  BY <1>1, <1>2, <1>3, <1>4 DEF FolderOK, WriterOK

\* A step of a device that makes, or keeps, a folder its own, or that leaves
\* a reload or a miss behind.
LEMMA FreshStep ==
  ASSUME AllFresh, NEW c \in Conns, NEW n \in Installable,
         UNCHANGED <<scan, inventory>>,
         \A m \in Installable \ {n} : tree'[m] = tree[m],
         \A d \in Conns \ {c} : handling'[d] = handling[d],
         handling[c].at = "idle" \/ handling[c].name = n,
         missed' \/ waiting' # 0 \/ (handling'[c].at # "idle" /\ handling'[c].name = n),
         missed => missed', waiting' = 0 => waiting = 0
  PROVE  AllFresh'
<1> SUFFICES ASSUME NEW m \in Installable, (~missed /\ waiting = 0 /\ Untouched(m))'
             PROVE  /\ scan.at = "none" => inventory[m] = Payloads(m)'
                    /\ scan.at = "payloads" => (m \in scan.servers <=> "mcp" \in tree'[m])
                    /\ scan.at = "publish" => scan.seen[m] = Payloads(m)'
  BY DEF AllFresh, FreshOK
<1>1. m # n
  BY DEF Untouched
<1>2. Untouched(m)
  BY <1>1 DEF Untouched
<1> QED
  BY <1>1, <1>2 DEF AllFresh, FreshOK, Payloads

\* A grant a step has nothing to do with: what covers it stays, or nobody
\* begins to take its payload away.
LEMMA GrantKept ==
  ASSUME NEW h \in Hosts, GrantOK(h), h \in granted' \ excused' => h \in granted \ excused,
         h[2] \in tree[h[1]] => h[2] \in tree'[h[1]],
         \A c \in Conns : \/ handling'[c] = handling[c]
                          \/ /\ h \in handling[c].hosts /\ handling[c].at \in {"delete", "forget"}
                                  => h \in handling'[c].hosts /\ handling'[c].at \in {"delete", "forget"}
                             /\ ~(Deletes(c, h[1])' /\ handling'[c].asked = h[2])
  PROVE  GrantOK(h)'
<1>1. Covered(h) => Covered(h)'
  BY DEF Covered
<1>2. Doomed(h)' => Doomed(h)
  BY DEF Doomed, Deletes
<1> QED
  BY <1>1, <1>2 DEF GrantOK

-----------------------------------------------------------------------------
(* The steps.                                                               *)

LEMMA StatInstallStep ==
  ASSUME ExtensionInv, NEW c \in Conns, NEW n \in Installable, StatInstall(c, n)
  PROVE  ExtensionInv'
<1> DEFINE cmd == [Unoccupied EXCEPT !.at = "claim", !.name = n]
<1>1. CommandOK(cmd) /\ cmd.at = "claim" /\ cmd.name = n
  BY UnoccupiedOK DEF CommandOK, Command, Unoccupied, Steps
<1>2. /\ handling[c].at = "idle" /\ commands < MaxCommands /\ commands' = commands + 1 /\ Takes(c, cmd)
      /\ UNCHANGED <<tree, wanted, waiting, scan, inventory, met, granted, excused, missed, shared, torn, staying>>
  BY DEF StatInstall, Ordered, rebuilding, grants
<1>3. /\ CommandsOK' /\ handling'[c] = cmd /\ \A d \in Conns \ {c} : handling'[d] = handling[d]
  BY <1>1, <1>2, TakesEffect DEF ExtensionInv
<1>4. FilesOK' /\ ScanOK'
  BY <1>2 DEF ExtensionInv, FilesOK, ScanOK
<1>5. CountOK'
  BY <1>1, <1>2, <1>3, CountBegins DEF ExtensionInv
<1>6. \A d \in Conns, m \in Installable : handling'[d] = handling[d] \/ (~Writes(d, m)' /\ ~Deletes(d, m)')
  BY <1>1, <1>3 DEF Writes, Deletes
<1>7. FoldersOK'
  BY <1>2, <1>6, OtherFolder DEF ExtensionInv, FoldersOK
<1>8. AllFresh'
  BY <1>1, <1>2, <1>3, FreshStep DEF ExtensionInv
<1>9. GrantsOK'
  BY <1>1, <1>2, <1>3, <1>6, GrantKept DEF ExtensionInv, GrantsOK, Deletes
<1> QED
  BY <1>3, <1>4, <1>5, <1>7, <1>8, <1>9 DEF ExtensionInv

\* A writer that begins at a folder that was not there, or of which it is
\* one of several from now on.
LEMMA FolderBegun ==
  ASSUME NEW n \in Installable, FolderOK(n), NEW c \in Conns,
         handling[c].at \in {"idle", "claim"}, Writes(c, n)',
         \A d \in Conns \ {c} : handling'[d] = handling[d],
         ~Made(n), tree'[n] = {}, wanted'[n] = Range(handling'[c].rest), LastAnnounce(handling'[c].rest),
         UNCHANGED <<shared, torn, staying>>
  PROVE  FolderOK(n)'
<1>1. \A d \in Conns : Deletes(d, n)' => Deletes(d, n)
  BY DEF Deletes, Writes
<1>2. n \notin staying
  BY DEF FolderOK
<1>3. Payloads(n)' = {} /\ Made(n)'
  BY DEF Payloads, Made, Unmade
<1>4. n \notin shared \cup torn => \A d \in Conns : ~Writes(d, n)
  BY DEF FolderOK, WriterOK
<1>5. n \notin shared \cup torn => \A d \in Conns : Writes(d, n)' => d = c
  BY <1>4 DEF Writes
<1>6. WriterOK(n, handling[c].rest)'
  BY <1>3 DEF WriterOK
<1> QED
  BY <1>1, <1>2, <1>3, <1>5, <1>6 DEF FolderOK

LEMMA ClaimStep ==
  ASSUME ExtensionInv, NEW c \in Conns, Claim(c)
  PROVE  ExtensionInv'
<1> PICK n \in Installable : n = handling[c].name
  BY DEF Claim, Stands, ExtensionInv, CommandsOK, CommandOK
<1> DEFINE cmd == WritingParts(n, Package[n])
<1>1. CommandOK(cmd) /\ cmd.at = "write" /\ cmd.name = n /\ cmd.rest = Package[n] /\ cmd.hosts = {} /\ cmd.asked = "none"
  BY WritingOK, ExtensionAssumption
<1>2. /\ handling[c].at = "claim" /\ Takes(c, cmd)
      /\ tree' = [tree EXCEPT ![n] = IF Made(n) THEN @ ELSE {}]
      /\ wanted' = [wanted EXCEPT ![n] = Range(Package[n])]
      /\ shared' = IF Made(n) THEN shared \cup {n} ELSE shared
      /\ staying' = IF Made(n) THEN staying \ {n} ELSE staying
      /\ UNCHANGED <<commands, waiting, scan, inventory, met, granted, excused, missed, torn>>
  BY DEF Claim, Stands, rebuilding, grants
<1>3. /\ CommandsOK' /\ handling'[c] = cmd /\ \A d \in Conns \ {c} : handling'[d] = handling[d]
  BY <1>1, <1>2, TakesEffect DEF ExtensionInv
<1>4. Range(Package[n]) \subseteq FileKinds
  BY ExtensionAssumption, ElementOfSeq DEF Range
<1>5. /\ tree' \in [Installable -> {Unmade} \cup SUBSET FileKinds] /\ wanted' \in [Installable -> SUBSET FileKinds]
      /\ tree'[n] = (IF Made(n) THEN tree[n] ELSE {}) /\ wanted'[n] = Range(Package[n])
      /\ \A m \in Installable \ {n} : tree'[m] = tree[m] /\ wanted'[m] = wanted[m]
  BY <1>2, <1>4 DEF ExtensionInv, FilesOK
<1>6. FilesOK' /\ ScanOK'
  BY <1>2, <1>5 DEF ExtensionInv, FilesOK, ScanOK
<1>7. CountOK'
  BY <1>1, <1>2, <1>3, CountGoesOn DEF ExtensionInv
<1>8. FolderOK(n)'
  <2>1. CASE ~Made(n)
    BY <1>1, <1>2, <1>3, <1>5, <2>1, FolderBegun, ExtensionAssumption DEF ExtensionInv, FoldersOK, Writes, LastAnnounce
  <2>2. CASE Made(n)
    BY <1>1, <1>2, <1>3, <2>2 DEF ExtensionInv, FoldersOK, FolderOK, Deletes
  <2> QED
    BY <2>1, <2>2
<1>9. \A d \in Conns, m \in Installable \ {n} : handling'[d] = handling[d] \/ (~Writes(d, m)' /\ ~Deletes(d, m)')
  BY <1>1, <1>3 DEF Writes, Deletes
<1>10. \A m \in Installable \ {n} : FolderOK(m)'
  BY <1>2, <1>5, <1>9, OtherFolder DEF ExtensionInv, FoldersOK
<1>11. FoldersOK'
  BY <1>8, <1>10 DEF FoldersOK
<1>12. AllFresh'
  BY <1>1, <1>2, <1>3, <1>5, FreshStep DEF ExtensionInv
<1>13. \A m \in Installable : tree[m] \subseteq tree'[m] \/ tree[m] = Unmade
  BY <1>5 DEF Made
<1>14. ASSUME NEW h \in Hosts PROVE GrantOK(h)'
  <2>1. h[1] \in Installable /\ h[2] \in Announcing /\ h[2] \notin Unmade
    BY DEF Hosts, Announcing, Unmade
  <2>2. h[2] \in tree[h[1]] => h[2] \in tree'[h[1]]
    BY <1>13, <2>1
  <2> QED
    BY <1>1, <1>2, <1>3, <2>2, GrantKept DEF ExtensionInv, GrantsOK, Deletes
<1> QED
  BY <1>3, <1>6, <1>7, <1>11, <1>12, <1>14 DEF ExtensionInv, GrantsOK

LEMMA AddServerStep ==
  ASSUME ExtensionInv, NEW c \in Conns, NEW n \in Installable, AddServer(c, n)
  PROVE  ExtensionInv'
<1>a. <<"mcp">> \in Seq(FileKinds)
  BY DEF FileKinds, Announcing
<1>b. PICK q \in Seq(FileKinds) : q = <<"mcp">>
  BY <1>a
<1>c. Len(q) = 1 /\ DOMAIN q = {1} /\ q[1] = "mcp"
  BY <1>b
<1>0. Range(q) = {"mcp"} /\ LastAnnounce(q) /\ q # <<>>
  <2>1. Range(q) = {"mcp"}
    BY <1>c DEF Range
  <2>2. LastAnnounce(q)
    BY <1>c DEF LastAnnounce
  <2>3. q # <<>>
    BY <1>c, EmptySeq
  <2> QED
    BY <2>1, <2>2, <2>3
<1> DEFINE cmd == WritingParts(n, q)
<1>1. CommandOK(cmd) /\ cmd.at = "write" /\ cmd.name = n /\ cmd.rest = q /\ cmd.hosts = {} /\ cmd.asked = "none"
  BY <1>0, WritingOK
<1>2. /\ handling[c].at = "idle" /\ commands < MaxCommands /\ commands' = commands + 1 /\ Takes(c, cmd) /\ ~Made(n)
      /\ tree' = [tree EXCEPT ![n] = {}] /\ wanted' = [wanted EXCEPT ![n] = {"mcp"}]
      /\ UNCHANGED <<waiting, scan, inventory, met, granted, excused, missed, shared, torn, staying>>
  BY <1>b DEF AddServer, Ordered, rebuilding, grants
<1>3. /\ CommandsOK' /\ handling'[c] = cmd /\ \A d \in Conns \ {c} : handling'[d] = handling[d]
  BY <1>1, <1>2, TakesEffect DEF ExtensionInv
<1>5. /\ tree' \in [Installable -> {Unmade} \cup SUBSET FileKinds] /\ wanted' \in [Installable -> SUBSET FileKinds]
      /\ tree'[n] = {} /\ wanted'[n] = {"mcp"}
      /\ \A m \in Installable \ {n} : tree'[m] = tree[m] /\ wanted'[m] = wanted[m]
  BY <1>2 DEF ExtensionInv, FilesOK, FileKinds, Announcing
<1>6. FilesOK' /\ ScanOK'
  BY <1>2, <1>5 DEF ExtensionInv, FilesOK, ScanOK
<1>7. CountOK'
  BY <1>1, <1>2, <1>3, CountBegins DEF ExtensionInv
<1>8. FolderOK(n)'
  <2>1. handling'[c].rest = q /\ Writes(c, n)'
    BY <1>1, <1>3 DEF Writes
  <2>2. LastAnnounce(handling'[c].rest) /\ wanted'[n] = Range(handling'[c].rest)
    BY <1>0, <1>5, <2>1
  <2>3. FolderOK(n)
    BY DEF ExtensionInv, FoldersOK
  <2> QED
    BY <1>2, <1>3, <1>5, <2>1, <2>2, <2>3, FolderBegun
<1>9. \A d \in Conns, m \in Installable \ {n} : handling'[d] = handling[d] \/ (~Writes(d, m)' /\ ~Deletes(d, m)')
  BY <1>1, <1>3 DEF Writes, Deletes
<1>10. \A m \in Installable \ {n} : FolderOK(m)'
  BY <1>2, <1>5, <1>9, OtherFolder DEF ExtensionInv, FoldersOK
<1>11. FoldersOK'
  BY <1>8, <1>10 DEF FoldersOK
<1>12. AllFresh'
  BY <1>1, <1>2, <1>3, <1>5, FreshStep DEF ExtensionInv
<1>14. ASSUME NEW h \in Hosts PROVE GrantOK(h)'
  <2>1. h[1] \in Installable /\ h[2] \in Announcing /\ h[2] \notin Unmade
    BY DEF Hosts, Announcing, Unmade
  <2>2. h[2] \in tree[h[1]] => h[2] \in tree'[h[1]]
    BY <1>2, <1>5, <2>1 DEF Made
  <2> QED
    BY <1>1, <1>2, <1>3, <2>2, GrantKept DEF ExtensionInv, GrantsOK, Deletes
<1> QED
  BY <1>3, <1>6, <1>7, <1>11, <1>12, <1>14 DEF ExtensionInv, GrantsOK

\* What a part leaves to be written, of a sequence in order.
LEMMA TailInOrder ==
  ASSUME NEW q \in Seq(FileKinds), q # <<>>
  PROVE  /\ Head(q) \in FileKinds /\ Tail(q) \in Seq(FileKinds)
         /\ Range(q) = {Head(q)} \cup Range(Tail(q))
         /\ Tail(q) = <<>> => Range(q) = {Head(q)}
         /\ LastAnnounce(q) => LastAnnounce(Tail(q))
         /\ LastAnnounce(q) /\ Head(q) \in Announcing => Range(q) \subseteq Announcing
<1> DEFINE k == Len(q)
<1>1. /\ k \in Nat /\ k > 0 /\ DOMAIN q = 1..k /\ Head(q) = q[1] /\ \A i \in 1..k : q[i] \in FileKinds
      /\ Tail(q) \in Seq(FileKinds) /\ Len(Tail(q)) = k - 1 /\ DOMAIN Tail(q) = 1..(k - 1)
      /\ \A i \in 1..(k - 1) : Tail(q)[i] = q[i + 1]
  BY HeadTailProperties, LenProperties, ElementOfSeq
<1>2. /\ 1 \in 1..k /\ \A i \in 1..(k - 1) : i + 1 \in 1..k
      /\ \A i \in 1..k : i = 1 \/ (i - 1 \in 1..(k - 1) /\ (i - 1) + 1 = i /\ 1 < i)
  BY <1>1
<1>3. \A i \in 1..k : i = 1 \/ \E j \in 1..(k - 1) : q[i] = Tail(q)[j]
  BY <1>1, <1>2
<1>4. Range(q) = {Head(q)} \cup Range(Tail(q))
  <2>1. Range(q) = {q[i] : i \in 1..k} /\ Range(Tail(q)) = {Tail(q)[i] : i \in 1..(k - 1)}
    BY <1>1 DEF Range
  <2>2. ASSUME NEW x \in Range(q) PROVE x \in {Head(q)} \cup Range(Tail(q))
    BY <1>1, <1>3, <2>1, <2>2
  <2>3. Head(q) \in Range(q)
    BY <1>1, <1>2, <2>1
  <2>4. ASSUME NEW x \in Range(Tail(q)) PROVE x \in Range(q)
    BY <1>1, <1>2, <2>1, <2>4
  <2> QED
    BY <2>2, <2>3, <2>4
<1>5. ASSUME LastAnnounce(q) PROVE LastAnnounce(Tail(q))
  <2> SUFFICES ASSUME NEW i \in 1..(k - 1), NEW j \in 1..(k - 1), i < j, Tail(q)[i] \in Announcing
               PROVE  Tail(q)[j] \in Announcing
    BY <1>1 DEF LastAnnounce
  <2>1. i + 1 \in 1..k /\ j + 1 \in 1..k /\ i + 1 < j + 1
    BY <1>1
  <2>2. q[i + 1] \in Announcing
    BY <1>1
  <2>3. q[j + 1] \in Announcing
    BY <1>1, <1>5, <2>1, <2>2 DEF LastAnnounce
  <2> QED
    BY <1>1, <2>3
<1>6. ASSUME LastAnnounce(q), Head(q) \in Announcing PROVE Range(q) \subseteq Announcing
  <2>1. \A i \in 1..k : q[i] \in Announcing
    BY <1>1, <1>2, <1>6 DEF LastAnnounce
  <2> QED
    BY <1>1, <2>1 DEF Range
<1>7. Tail(q) = <<>> => Range(Tail(q)) = {}
  BY DEF Range
<1> QED
  BY <1>1, <1>2, <1>4, <1>5, <1>6, <1>7

LEMMA WritePartStep ==
  ASSUME ExtensionInv, NEW c \in Conns, WritePart(c)
  PROVE  ExtensionInv'
<1> PICK n \in Installable : n = handling[c].name
  BY DEF WritePart, Stands, ExtensionInv, CommandsOK, CommandOK
<1> PICK q \in Seq(FileKinds) : q = handling[c].rest /\ q # <<>>
  BY DEF WritePart, Stands, ExtensionInv, CommandsOK, CommandOK, Command
<1>0. /\ Head(q) \in FileKinds /\ Tail(q) \in Seq(FileKinds)
      /\ Range(q) = {Head(q)} \cup Range(Tail(q)) /\ (Tail(q) = <<>> => Range(q) = {Head(q)})
      /\ LastAnnounce(q) => LastAnnounce(Tail(q))
      /\ LastAnnounce(q) /\ Head(q) \in Announcing => Range(q) \subseteq Announcing
  BY TailInOrder
<1>1. /\ handling[c].at = "write" /\ Made(n) /\ tree' = [tree EXCEPT ![n] = @ \cup {Head(q)}]
      /\ UNCHANGED <<commands, wanted, scan, inventory, met, granted, excused, missed, shared, torn>>
  BY DEF WritePart, Stands, grants
<1>2. tree[n] \subseteq FileKinds
  BY <1>1 DEF Made, ExtensionInv, FilesOK
<1>3. /\ tree' \in [Installable -> {Unmade} \cup SUBSET FileKinds]
      /\ tree'[n] = tree[n] \cup {Head(q)}
      /\ \A m \in Installable \ {n} : tree'[m] = tree[m]
  <2>1. tree[n] \cup {Head(q)} \in {Unmade} \cup SUBSET FileKinds
    BY <1>0, <1>2
  <2> QED
    BY <1>1, <2>1 DEF ExtensionInv, FilesOK
<1>4. \/ /\ Tail(q) # <<>> /\ Takes(c, WritingParts(n, Tail(q))) /\ UNCHANGED <<waiting, staying>>
      \/ /\ Tail(q) = <<>> /\ Takes(c, Unoccupied) /\ waiting' = waiting + 1
         /\ staying' = IF n \in shared \cup torn THEN staying ELSE staying \cup {n}
  BY DEF WritePart, Finishes
<1>5. \E cmd : /\ CommandOK(cmd) /\ Takes(c, cmd) /\ cmd.at \in {"write", "idle"}
               /\ cmd.at = "write" => cmd.name = n /\ cmd.rest = Tail(q) /\ Tail(q) # <<>> /\ UNCHANGED <<waiting, staying>>
               /\ cmd.at = "idle" => Tail(q) = <<>> /\ waiting' = waiting + 1
                                     /\ staying' = IF n \in shared \cup torn THEN staying ELSE staying \cup {n}
  <2>1. CASE Tail(q) # <<>>
    BY <1>0, <1>4, <2>1, WritingOK
  <2>2. CASE Tail(q) = <<>>
    <3>1. Unoccupied.at = "idle"
      BY DEF Unoccupied
    <3> QED
      BY <1>4, <2>2, <3>1, UnoccupiedOK
  <2> QED
    BY <2>1, <2>2
<1>6. PICK cmd : /\ CommandOK(cmd) /\ Takes(c, cmd) /\ cmd.at \in {"write", "idle"}
                 /\ cmd.at = "write" => cmd.name = n /\ cmd.rest = Tail(q) /\ Tail(q) # <<>> /\ UNCHANGED <<waiting, staying>>
                 /\ cmd.at = "idle" => Tail(q) = <<>> /\ waiting' = waiting + 1
                                       /\ staying' = IF n \in shared \cup torn THEN staying ELSE staying \cup {n}
  BY <1>5
<1>7. /\ CommandsOK' /\ handling'[c] = cmd /\ \A d \in Conns \ {c} : handling'[d] = handling[d]
  BY <1>6, TakesEffect DEF ExtensionInv
<1>8. FilesOK' /\ ScanOK'
  BY <1>1, <1>3, <1>6 DEF ExtensionInv, FilesOK, ScanOK
<1>9. CountOK'
  <2>1. CASE cmd.at = "write"
    BY <1>1, <1>6, <1>7, <2>1, CountGoesOn DEF ExtensionInv
  <2>2. CASE cmd.at = "idle"
    BY <1>1, <1>6, <1>7, <2>2, CountEnds DEF ExtensionInv
  <2> QED
    BY <1>6, <2>1, <2>2
<1>10. \A d \in Conns, m \in Installable \ {n} : handling'[d] = handling[d] \/ (~Writes(d, m)' /\ ~Deletes(d, m)')
  BY <1>6, <1>7 DEF Writes, Deletes
<1>11. \A m \in Installable \ {n} : FolderOK(m)'
  <2>1. \A m \in Installable \ {n} : m \in staying' <=> m \in staying
    BY <1>6
  <2> QED
    BY <1>1, <1>3, <1>10, <2>1, OtherFolder DEF ExtensionInv, FoldersOK
<1>12. FolderOK(n)'
  <2>0. FolderOK(n) /\ Writes(c, n)
    BY <1>1 DEF ExtensionInv, FoldersOK, Writes
  <2>1. \A d \in Conns : (Deletes(d, n)' => Deletes(d, n)) /\ (Writes(d, n)' => Writes(d, n))
    BY <1>1, <1>6, <1>7 DEF Deletes, Writes
  <2>2. Made(n)'
    <3>1. "none" \notin tree'[n]
      BY <1>0, <1>2, <1>3, KindsApart
    <3> QED
      BY <3>1 DEF Made, Unmade
  <2>3. n \notin staying
    BY <2>0 DEF FolderOK
  <2>4. CASE n \in shared \cup torn
    <3>1. n \notin staying'
      BY <1>6, <2>3, <2>4
    <3>2. n \in shared' \cup torn' /\ \A d \in Conns : Deletes(d, n)' => n \in torn'
      BY <1>1, <2>0, <2>1, <2>4 DEF FolderOK
    <3> QED
      BY <3>1, <3>2 DEF FolderOK
  <2>5. CASE n \notin shared \cup torn
    <3>1. WriterOK(n, q) /\ \A d \in Conns : Writes(d, n) => d = c
      BY <2>0, <2>5 DEF FolderOK
    <3>2. Payloads(n)' \subseteq Payloads(n) \cup ({Head(q)} \cap Announcing) /\ Payloads(n) \subseteq Payloads(n)'
      BY <1>3 DEF Payloads
    <3>3. Payloads(n)' # {} => Range(q) \subseteq Announcing
      BY <1>0, <3>1, <3>2 DEF WriterOK
    <3>4. wanted'[n] = tree'[n] \cup Range(Tail(q))
      BY <1>0, <1>1, <1>3, <3>1 DEF WriterOK
    <3>5. Payloads(n)' # {} => wanted'[n] \ Announcing \subseteq tree'[n]
      BY <1>0, <3>3, <3>4
    <3>6. \A d \in Conns : Writes(d, n)' => d = c
      BY <2>1, <3>1
    <3>7. Writes(c, n)' => WriterOK(n, Tail(q))' /\ handling'[c].rest = Tail(q)
      BY <1>0, <1>6, <1>7, <2>2, <3>1, <3>3, <3>4 DEF WriterOK, Writes
    <3>8. n \notin shared' \cup torn' /\ \A d \in Conns : Deletes(d, n)' => n \in torn'
      BY <1>1, <2>0, <2>1, <2>5 DEF FolderOK
    <3>9. n \in staying' => tree'[n] = wanted'[n] /\ \A d \in Conns : ~Writes(d, n)'
      <4>1. CASE cmd.at = "write"
        BY <1>6, <2>3, <4>1
      <4>2. CASE cmd.at = "idle"
        <5>1. tree'[n] = wanted'[n]
          BY <1>0, <1>1, <1>3, <1>6, <3>1, <4>2 DEF WriterOK
        <5>2. ~Writes(c, n)'
          BY <1>7, <4>2 DEF Writes
        <5> QED
          BY <3>6, <5>1, <5>2
      <4> QED
        BY <1>6, <4>1, <4>2
    <3>10. \A d \in Conns : Writes(d, n)' => WriterOK(n, handling[d].rest)'
      <4> SUFFICES ASSUME Writes(c, n)' PROVE WriterOK(n, handling[c].rest)'
        BY <3>6
      <4> QED
        BY <3>7 DEF WriterOK
    <3> QED
      BY <2>2, <3>5, <3>6, <3>8, <3>9, <3>10 DEF FolderOK
  <2> QED
    BY <2>4, <2>5
<1>13. FoldersOK'
  BY <1>11, <1>12 DEF FoldersOK
<1>14. AllFresh'
  <2>1. waiting \in Nat
    BY DEF ExtensionInv, CountOK
  <2>2. CASE cmd.at = "write"
    BY <1>1, <1>3, <1>6, <1>7, <2>2, FreshStep DEF ExtensionInv
  <2>3. CASE cmd.at = "idle"
    <3>1. waiting' # 0
      BY <1>6, <2>1, <2>3
    <3> QED
      BY <1>1, <1>3, <1>6, <1>7, <3>1, FreshStep DEF ExtensionInv
  <2> QED
    BY <1>6, <2>2, <2>3
<1>15. ASSUME NEW h \in Hosts PROVE GrantOK(h)'
  <2>1. h[1] \in Installable
    BY DEF Hosts
  <2>2. h[2] \in tree[h[1]] => h[2] \in tree'[h[1]]
    BY <1>3, <2>1
  <2>3. handling'[c] = handling[c] \/ ~Deletes(c, h[1])'
    BY <1>6, <1>7 DEF Deletes
  <2> QED
    BY <1>1, <1>7, <2>2, <2>3, GrantKept DEF ExtensionInv, GrantsOK
<1> QED
  BY <1>7, <1>8, <1>9, <1>13, <1>14, <1>15 DEF ExtensionInv, GrantsOK

LEMMA WriteFailsStep ==
  ASSUME ExtensionInv, NEW c \in Conns, WriteFails(c)
  PROVE  ExtensionInv'
<1> PICK n \in Installable : n = handling[c].name
  BY DEF WriteFails, Stands, ExtensionInv, CommandsOK, CommandOK
<1> DEFINE cmd == [handling[c] EXCEPT !.at = "delete"]
<1>1. /\ handling[c].at = "write" /\ Takes(c, cmd) /\ torn' = torn \cup {n}
      /\ UNCHANGED <<commands, tree, wanted, waiting, scan, inventory, met, granted, excused, missed, shared, staying>>
  BY DEF WriteFails, Stands, rebuilding, grants
<1>2. /\ CommandOK(cmd) /\ cmd.at = "delete" /\ cmd.name = n /\ cmd.asked = "none"
  <2>1. CommandOK(handling[c]) /\ handling[c] \in Command
    BY DEF ExtensionInv, CommandsOK, CommandOK
  <2>2. cmd \in Command /\ cmd.at = "delete" /\ cmd.name = n /\ cmd.asked = handling[c].asked /\ cmd.hosts = handling[c].hosts
    BY <2>1 DEF Command, Steps
  <2> QED
    BY <1>1, <2>1, <2>2 DEF CommandOK
<1>3. /\ CommandsOK' /\ handling'[c] = cmd /\ \A d \in Conns \ {c} : handling'[d] = handling[d]
  BY <1>1, <1>2, TakesEffect DEF ExtensionInv
<1>4. FilesOK' /\ ScanOK'
  BY <1>1 DEF ExtensionInv, FilesOK, ScanOK
<1>5. CountOK'
  BY <1>1, <1>2, <1>3, CountGoesOn DEF ExtensionInv
<1>6. \A d \in Conns, m \in Installable \ {n} : handling'[d] = handling[d] \/ (~Writes(d, m)' /\ ~Deletes(d, m)')
  BY <1>2, <1>3 DEF Writes, Deletes
<1>7. \A m \in Installable \ {n} : FolderOK(m)'
  BY <1>1, <1>6, OtherFolder DEF ExtensionInv, FoldersOK
<1>8. FolderOK(n)'
  <2>1. FolderOK(n) /\ Writes(c, n)
    BY <1>1 DEF ExtensionInv, FoldersOK, Writes
  <2>2. n \notin staying' /\ n \in torn'
    BY <1>1, <2>1 DEF FolderOK
  <2> QED
    BY <2>2 DEF FolderOK
<1>9. FoldersOK'
  BY <1>7, <1>8 DEF FoldersOK
<1>10. AllFresh'
  BY <1>1, <1>2, <1>3, FreshStep DEF ExtensionInv
<1>11. ASSUME NEW h \in Hosts PROVE GrantOK(h)'
  <2>1. h[2] # "none"
    BY DEF Hosts, Announcing
  <2> QED
    BY <1>1, <1>2, <1>3, <2>1, GrantKept DEF ExtensionInv, GrantsOK, Deletes
<1> QED
  BY <1>3, <1>4, <1>5, <1>9, <1>10, <1>11 DEF ExtensionInv, GrantsOK

LEMMA RemoveExtStep ==
  ASSUME ExtensionInv, NEW c \in Conns, NEW n \in Installable, NEW p \in Announcing, RemoveExt(c, n, p)
  PROVE  ExtensionInv'
<1> DEFINE gone == {<<n, p>>} \cap ({n} \X tree[n])
<1> DEFINE cmd == [at |-> "delete", name |-> n, rest |-> <<>>, asked |-> p, hosts |-> gone]
<1>1. /\ handling[c].at = "idle" /\ commands < MaxCommands /\ commands' = commands + 1 /\ Takes(c, cmd)
      /\ torn' = torn \cup {n} /\ staying' = staying \ {n}
      /\ UNCHANGED <<tree, wanted, waiting, scan, inventory, met, granted, excused, missed, shared>>
  BY DEF RemoveExt, Ordered, rebuilding, grants
<1>2. /\ CommandOK(cmd) /\ cmd.at = "delete" /\ cmd.name = n /\ cmd.asked = p /\ cmd.hosts = gone
  <2>1. <<>> \in Seq(FileKinds)
    BY EmptySeq
  <2>2. gone \in SUBSET Hosts
    BY DEF Hosts
  <2>3. cmd \in Command
    BY <2>1, <2>2 DEF Command, Steps
  <2> QED
    BY <2>3 DEF CommandOK
<1>3. /\ CommandsOK' /\ handling'[c] = cmd /\ \A d \in Conns \ {c} : handling'[d] = handling[d]
  BY <1>1, <1>2, TakesEffect DEF ExtensionInv
<1>4. FilesOK' /\ ScanOK'
  BY <1>1 DEF ExtensionInv, FilesOK, ScanOK
<1>5. CountOK'
  BY <1>1, <1>2, <1>3, CountBegins DEF ExtensionInv
<1>6. \A d \in Conns, m \in Installable \ {n} : handling'[d] = handling[d] \/ (~Writes(d, m)' /\ ~Deletes(d, m)')
  BY <1>2, <1>3 DEF Writes, Deletes
<1>7. \A m \in Installable \ {n} : FolderOK(m)'
  BY <1>1, <1>6, OtherFolder DEF ExtensionInv, FoldersOK
<1>8. FolderOK(n)'
  BY <1>1 DEF FolderOK
<1>9. FoldersOK'
  BY <1>7, <1>8 DEF FoldersOK
<1>10. AllFresh'
  BY <1>1, <1>2, <1>3, FreshStep DEF ExtensionInv
<1>11. ASSUME NEW h \in Hosts PROVE GrantOK(h)'
  <2>1. h = <<h[1], h[2]>>
    BY DEF Hosts
  <2>2. CASE h # <<n, p>>
    <3>1. ~(n = h[1] /\ p = h[2])
      BY <2>1, <2>2
    <3>2. ~(Deletes(c, h[1])' /\ handling'[c].asked = h[2])
      BY <1>2, <1>3, <3>1 DEF Deletes
    <3> QED
      BY <1>1, <1>3, <3>2, GrantKept DEF ExtensionInv, GrantsOK
  <2>3. CASE h = <<n, p>>
    <3>1. Covered(h) => Covered(h)'
      BY <1>1, <1>3 DEF Covered
    <3>2. h[2] \in tree[h[1]] => h \in handling'[c].hosts
      BY <1>2, <1>3, <2>3
    <3>3. h[2] \in tree[h[1]] => Covered(h)'
      BY <1>2, <1>3, <3>2 DEF Covered
    <3> QED
      BY <1>1, <3>1, <3>3 DEF ExtensionInv, GrantsOK, GrantOK
  <2> QED
    BY <2>2, <2>3
<1> QED
  BY <1>3, <1>4, <1>5, <1>9, <1>10, <1>11 DEF ExtensionInv, GrantsOK

LEMMA DeleteFileStep ==
  ASSUME ExtensionInv, NEW c \in Conns, DeleteFile(c)
  PROVE  ExtensionInv'
<1> PICK n \in Installable : n = handling[c].name
  BY DEF DeleteFile, Stands, ExtensionInv, CommandsOK, CommandOK
<1>1. PICK f \in tree[n] :
         /\ handling[c].at = "delete" /\ Made(n) /\ tree' = [tree EXCEPT ![n] = @ \ {f}]
         /\ excused' = IF f = handling[c].asked THEN excused ELSE excused \cup ({<<n, f>>} \cap granted)
         /\ UNCHANGED <<handling, commands, wanted, waiting, scan, inventory, met, granted, missed, shared, torn, staying>>
  BY DEF DeleteFile, Stands, rebuilding
<1>2. /\ tree' \in [Installable -> {Unmade} \cup SUBSET FileKinds]
      /\ tree'[n] = tree[n] \ {f} /\ \A m \in Installable \ {n} : tree'[m] = tree[m]
  <2>1. tree[n] \ {f} \in {Unmade} \cup SUBSET FileKinds
    BY <1>1 DEF Made, ExtensionInv, FilesOK
  <2> QED
    BY <1>1, <2>1 DEF ExtensionInv, FilesOK
<1>3. FilesOK' /\ ScanOK' /\ CountOK' /\ CommandsOK'
  BY <1>1, <1>2 DEF ExtensionInv, FilesOK, ScanOK, CountOK, Busy, CommandsOK
<1>4. \A m \in Installable \ {n} : FolderOK(m)'
  BY <1>1, <1>2, OtherFolder DEF ExtensionInv, FoldersOK
<1>5. FolderOK(n)'
  <2>1. FolderOK(n) /\ Deletes(c, n)
    BY <1>1 DEF ExtensionInv, FoldersOK, Deletes
  <2>2. n \in torn' /\ n \notin staying'
    BY <1>1, <2>1 DEF FolderOK
  <2> QED
    BY <2>2 DEF FolderOK
<1>6. FoldersOK'
  BY <1>4, <1>5 DEF FoldersOK
<1>7. AllFresh'
  BY <1>1, <1>2, FreshStep DEF ExtensionInv
<1>8. ASSUME NEW h \in Hosts PROVE GrantOK(h)'
  <2>1. /\ h = <<h[1], h[2]>> /\ h[1] \in Installable /\ GrantOK(h)
        /\ h \in granted' \ excused' => h \in granted \ excused
    BY <1>1 DEF Hosts, ExtensionInv, GrantsOK
  <2>2. CASE h # <<n, f>>
    <3>1. h[2] \in tree[h[1]] => h[2] \in tree'[h[1]]
      BY <1>2, <2>1, <2>2
    <3> QED
      BY <1>1, <2>1, <3>1, GrantKept
  <2>3. CASE h = <<n, f>> /\ f # handling[c].asked
    BY <1>1, <2>3 DEF GrantOK
  <2>4. CASE h = <<n, f>> /\ f = handling[c].asked
    <3>1. h[1] = n /\ h[2] = f
      BY <2>4
    <3>2. Doomed(h)
      BY <1>1, <2>4, <3>1 DEF Doomed, Deletes
    <3>3. Covered(h) => Covered(h)'
      BY <1>1 DEF Covered
    <3> QED
      BY <2>1, <3>2, <3>3 DEF GrantOK
  <2> QED
    BY <2>2, <2>3, <2>4
<1> QED
  BY <1>3, <1>6, <1>7, <1>8 DEF ExtensionInv, GrantsOK

LEMMA DeleteFolderStep ==
  ASSUME ExtensionInv, NEW c \in Conns, DeleteFolder(c)
  PROVE  ExtensionInv'
<1> PICK n \in Installable : n = handling[c].name
  BY DEF DeleteFolder, Stands, ExtensionInv, CommandsOK, CommandOK
<1>1. /\ handling[c].at = "delete" /\ tree[n] \in {Unmade, {}} /\ tree' = [tree EXCEPT ![n] = Unmade]
      /\ \/ UNCHANGED <<shared, torn>>
         \/ shared' = shared \ {n} /\ torn' = torn \ {n} /\ Touching(n, {"write", "delete"}) = {c}
      /\ \/ Takes(c, [handling[c] EXCEPT !.at = "forget"]) /\ UNCHANGED missed /\ handling[c].asked # "none"
         \/ Takes(c, Unoccupied) /\ missed' = TRUE /\ handling[c].asked = "none"
      /\ UNCHANGED <<commands, wanted, waiting, scan, inventory, met, granted, excused, staying>>
  BY DEF DeleteFolder, Stands, rebuilding, grants, Finishes
<1>2. \E cmd : /\ CommandOK(cmd) /\ Takes(c, cmd)
               /\ \/ cmd.at = "forget" /\ cmd.name = n /\ cmd.hosts = handling[c].hosts /\ UNCHANGED missed
                  \/ cmd.at = "idle" /\ missed' = TRUE /\ handling[c].asked = "none"
  <2>1. CommandOK(handling[c]) /\ handling[c] \in Command
    BY DEF ExtensionInv, CommandsOK, CommandOK
  <2> DEFINE cmd == [handling[c] EXCEPT !.at = "forget"]
  <2>2. cmd \in Command /\ cmd.at = "forget" /\ cmd.name = n /\ cmd.asked = handling[c].asked /\ cmd.hosts = handling[c].hosts
    BY <2>1 DEF Command, Steps
  <2>3. CommandOK(cmd)
    BY <1>1, <2>1, <2>2 DEF CommandOK
  <2>4. CommandOK(Unoccupied) /\ Unoccupied.at = "idle"
    BY UnoccupiedOK DEF Unoccupied
  <2> HIDE DEF cmd
  <2>5. \/ Takes(c, cmd) /\ UNCHANGED missed
        \/ Takes(c, Unoccupied) /\ missed' = TRUE /\ handling[c].asked = "none"
    BY <1>1 DEF cmd
  <2> QED
    BY <2>2, <2>3, <2>4, <2>5
<1>3. PICK cmd : /\ CommandOK(cmd) /\ Takes(c, cmd)
                 /\ \/ cmd.at = "forget" /\ cmd.name = n /\ cmd.hosts = handling[c].hosts /\ UNCHANGED missed
                    \/ cmd.at = "idle" /\ missed' = TRUE /\ handling[c].asked = "none"
  BY <1>2
<1>4. /\ CommandsOK' /\ handling'[c] = cmd /\ \A d \in Conns \ {c} : handling'[d] = handling[d]
  BY <1>3, TakesEffect DEF ExtensionInv
<1>5. /\ tree' \in [Installable -> {Unmade} \cup SUBSET FileKinds]
      /\ tree'[n] = Unmade /\ \A m \in Installable \ {n} : tree'[m] = tree[m]
  BY <1>1 DEF ExtensionInv, FilesOK
<1>6. shared' \subseteq shared /\ torn' \subseteq torn
  BY <1>1
<1>7. FilesOK' /\ ScanOK'
  BY <1>1, <1>5, <1>6 DEF ExtensionInv, FilesOK, ScanOK
<1>8. CountOK'
  <2>1. CASE cmd.at = "forget"
    BY <1>1, <1>4, <2>1, CountGoesOn DEF ExtensionInv
  <2>2. CASE cmd.at = "idle"
    BY <1>1, <1>4, <2>2, CountEnds DEF ExtensionInv
  <2> QED
    BY <1>3, <2>1, <2>2
<1>9. \A d \in Conns, m \in Installable : handling'[d] = handling[d] \/ (~Writes(d, m)' /\ ~Deletes(d, m)')
  BY <1>3, <1>4 DEF Writes, Deletes
<1>10. \A m \in Installable \ {n} : FolderOK(m)'
  BY <1>1, <1>5, <1>9, OtherFolder DEF ExtensionInv, FoldersOK
<1>11. FolderOK(n)'
  <2>1. FolderOK(n) /\ Deletes(c, n)
    BY <1>1 DEF ExtensionInv, FoldersOK, Deletes
  <2>2. n \in torn /\ n \notin staying'
    BY <1>1, <2>1 DEF FolderOK
  <2>3. CASE UNCHANGED <<shared, torn>>
    BY <2>2, <2>3 DEF FolderOK
  <2>4. CASE Touching(n, {"write", "delete"}) = {c}
    <3>1. \A d \in Conns \ {c} : ~Writes(d, n) /\ ~Deletes(d, n)
      BY <2>4 DEF Touching, Writes, Deletes
    <3>2. \A d \in Conns : ~Writes(d, n)' /\ ~Deletes(d, n)'
      BY <1>3, <1>4, <3>1 DEF Writes, Deletes
    <3>3. Payloads(n)' = {}
      BY <1>5 DEF Payloads, Unmade, Announcing
    <3> QED
      BY <2>2, <3>2, <3>3 DEF FolderOK
  <2> QED
    BY <1>1, <2>3, <2>4
<1>12. FoldersOK'
  BY <1>10, <1>11 DEF FoldersOK
<1>13. AllFresh'
  BY <1>1, <1>3, <1>4, <1>5, FreshStep DEF ExtensionInv
<1>14. ASSUME NEW h \in Hosts PROVE GrantOK(h)'
  <2>1. h[1] \in Installable /\ h[2] \in Announcing /\ h[2] \notin Unmade /\ h[2] # "none" /\ h = <<h[1], h[2]>>
    BY DEF Hosts, Announcing, Unmade
  <2>2. h[2] \in tree[h[1]] => h[2] \in tree'[h[1]]
    BY <1>1, <1>5, <2>1
  <2>3. handling[c].asked = "none" => h \notin handling[c].hosts
    BY <2>1 DEF ExtensionInv, CommandsOK, CommandOK
  <2>4. ~Deletes(c, h[1])'
    BY <1>3, <1>4 DEF Deletes
  <2>5. h \in handling[c].hosts => h \in handling'[c].hosts /\ handling'[c].at = "forget"
    BY <1>3, <1>4, <2>3
  <2> QED
    BY <1>1, <1>4, <2>2, <2>4, <2>5, GrantKept DEF ExtensionInv, GrantsOK
<1> QED
  BY <1>4, <1>7, <1>8, <1>12, <1>13, <1>14 DEF ExtensionInv, GrantsOK

\* A command ends: a removal that fails in the middle, or one that has taken
\* the hosts along.
LEMMA EndsStep ==
  ASSUME ExtensionInv, NEW c \in Conns, DeleteFails(c) \/ ForgetHosts(c)
  PROVE  ExtensionInv'
<1> PICK n \in Installable : n = handling[c].name
  BY DEF DeleteFails, ForgetHosts, Stands, ExtensionInv, CommandsOK, CommandOK
<1>1. /\ handling[c].at # "idle" /\ Takes(c, Unoccupied)
      /\ waiting' \in {waiting, waiting + 1} /\ granted' \subseteq granted
      /\ missed => missed'
      /\ missed' \/ waiting' = waiting + 1
      /\ UNCHANGED <<commands, tree, wanted, scan, inventory, met, shared, torn, staying>>
  BY DEF DeleteFails, ForgetHosts, Stands, rebuilding, Finishes
<1>2. /\ excused' \subseteq Hosts
      /\ \A h \in Hosts : h \in granted' \ excused' => h \in granted \ excused /\ h \notin handling[c].hosts
  BY DEF DeleteFails, ForgetHosts, Stands, ExtensionInv, FilesOK
<1>3. /\ CommandsOK' /\ handling'[c] = Unoccupied /\ Unoccupied.at = "idle"
      /\ \A d \in Conns \ {c} : handling'[d] = handling[d]
  BY <1>1, UnoccupiedOK, TakesEffect DEF ExtensionInv, Unoccupied
<1>4. FilesOK' /\ ScanOK'
  BY <1>1, <1>2 DEF ExtensionInv, FilesOK, ScanOK
<1>5. CountOK'
  BY <1>1, <1>3, CountEnds DEF ExtensionInv
<1>6. \A d \in Conns, m \in Installable : handling'[d] = handling[d] \/ (~Writes(d, m)' /\ ~Deletes(d, m)')
  BY <1>3 DEF Writes, Deletes
<1>7. FoldersOK'
  BY <1>1, <1>6, OtherFolder DEF ExtensionInv, FoldersOK
<1>8. AllFresh'
  <2>1. waiting \in Nat
    BY DEF ExtensionInv, CountOK
  <2>2. missed' \/ waiting' # 0
    BY <1>1, <2>1
  <2>3. waiting' = 0 => waiting = 0
    BY <1>1, <2>1
  <2> QED
    BY <1>1, <1>3, <2>2, <2>3, FreshStep DEF ExtensionInv
<1>9. ASSUME NEW h \in Hosts PROVE GrantOK(h)'
  <2>1. CASE h \in granted' \ excused'
    <3>1. h \in granted \ excused /\ h \notin handling[c].hosts
      BY <1>2, <2>1
    <3> QED
      BY <1>1, <1>3, <3>1, GrantKept DEF ExtensionInv, GrantsOK, Deletes
  <2> QED
    BY <2>1 DEF GrantOK
<1> QED
  BY <1>3, <1>4, <1>5, <1>7, <1>8, <1>9 DEF ExtensionInv, GrantsOK

LEMMA SayYesStep ==
  ASSUME ExtensionInv, NEW h \in Hosts, SayYes(h)
  PROVE  ExtensionInv'
<1>1. /\ granted' = granted \cup {h}
      /\ \/ excused' = excused \cup {h}
         \/ excused' = excused \ {h} /\ h[2] \in tree[h[1]] /\ Touching(h[1], {"delete", "forget"}) = {}
      /\ UNCHANGED <<handling, commands, tree, wanted, waiting, scan, inventory, met, missed, shared, torn, staying>>
  BY DEF SayYes, rebuilding
<1>2. CommandsOK' /\ ScanOK' /\ CountOK' /\ AllFresh'
  BY <1>1 DEF ExtensionInv, CommandsOK, ScanOK, CountOK, Busy, AllFresh, FreshOK, Untouched, Payloads
<1>3. FilesOK'
  BY <1>1 DEF ExtensionInv, FilesOK
<1>4. FoldersOK'
  BY <1>1, OtherFolder DEF ExtensionInv, FoldersOK
<1>5. ASSUME NEW k \in Hosts PROVE GrantOK(k)'
  <2>1. CASE k # h
    <3>1. k \in granted' \ excused' => k \in granted \ excused
      BY <1>1, <2>1
    <3> QED
      BY <1>1, <3>1, GrantKept DEF ExtensionInv, GrantsOK
  <2>2. CASE k = h /\ excused' = excused \cup {h}
    BY <2>2 DEF GrantOK
  <2>3. CASE k = h /\ h[2] \in tree[h[1]] /\ Touching(h[1], {"delete", "forget"}) = {}
    <3>1. ~Doomed(k)'
      BY <1>1, <2>3 DEF Doomed, Deletes, Touching
    <3> QED
      BY <1>1, <2>3, <3>1 DEF GrantOK
  <2> QED
    BY <1>1, <2>1, <2>2, <2>3
<1> QED
  BY <1>2, <1>3, <1>4, <1>5 DEF ExtensionInv, GrantsOK

\* A reload moves on: of what is on disk it changes nothing.
LEMMA ScanMoves ==
  ASSUME ExtensionInv, UNCHANGED <<tree, wanted, handling, commands, granted, excused, shared, torn, staying>>
  PROVE  CommandsOK' /\ FoldersOK' /\ GrantsOK'
<1>1. CommandsOK'
  BY DEF ExtensionInv, CommandsOK
<1>2. FoldersOK'
  BY OtherFolder DEF ExtensionInv, FoldersOK
<1>3. GrantsOK'
  BY GrantKept DEF ExtensionInv, GrantsOK
<1> QED
  BY <1>1, <1>2, <1>3

LEMMA PublishesOK ==
  ASSUME ExtensionInv, NEW view \in [Installable -> SUBSET Announcing], Publishes(view)
  PROVE  inventory' \in [Installable -> SUBSET Announcing] /\ met' \subseteq Hosts /\ ScanOK' /\ scan'.at = "none"
BY DEF Publishes, ExtensionInv, FilesOK, ScanOK, NoReload, Unread

LEMMA ReloadStep ==
  ASSUME ExtensionInv, BeginReload \/ ReadServers \/ ReadPayloads \/ PublishSnapshot
  PROVE  ExtensionInv'
<1>1. CommandsOK' /\ FoldersOK' /\ GrantsOK'
  BY ScanMoves DEF BeginReload, TakeReload, ReadServers, ReadPayloads, PublishSnapshot, grants
<1>2. CASE BeginReload
  <2>1. /\ waiting > 0 /\ waiting' = waiting - 1 /\ scan'.at = "servers" /\ scan'.seen = Unread
        /\ UNCHANGED <<tree, wanted, handling, commands, inventory, met, granted, excused, shared, torn, staying>>
    BY <1>2 DEF BeginReload, TakeReload, NoReload, grants
  <2>2. FilesOK' /\ ScanOK'
    BY <2>1 DEF ExtensionInv, FilesOK, ScanOK, Unread
  <2>3. CountOK'
    <3>1. Busy' = Busy /\ Cardinality(Busy) \in Nat
      BY <2>1, FS_CardinalityType DEF Busy, ExtensionInv, CountOK
    <3>2. MaxCommands \in Nat
      BY ExtensionAssumption
    <3> QED
      BY <2>1, <3>1, <3>2 DEF ExtensionInv, CountOK
  <2>4. AllFresh'
    BY <2>1 DEF AllFresh, FreshOK
  <2> QED
    BY <1>1, <2>2, <2>3, <2>4 DEF ExtensionInv
<1>3. CASE ReadServers \/ ReadPayloads
  <2>1. /\ UNCHANGED <<tree, wanted, handling, commands, waiting, inventory, met, granted, excused, missed,
                       shared, torn, staying>>
    BY <1>3 DEF ReadServers, ReadPayloads, grants
  <2>2. CountOK' /\ FilesOK'
    BY <2>1 DEF ExtensionInv, FilesOK, CountOK, Busy
  <2>3. CASE ReadServers
    <3>1. /\ scan'.at = "payloads" /\ scan'.servers = {n \in Installable : "mcp" \in tree[n]}
          /\ scan'.seen \in [Installable -> SUBSET Announcing]
      BY <2>3 DEF ReadServers, ExtensionInv, ScanOK
    <3>2. ScanOK' /\ AllFresh'
      BY <2>1, <3>1 DEF ScanOK, AllFresh, FreshOK
    <3> QED
      BY <1>1, <2>2, <3>2 DEF ExtensionInv
  <2>4. CASE ReadPayloads
    <3> DEFINE seen == [n \in Installable |-> {p \in Announcing : IF p = "mcp" THEN n \in scan.servers ELSE p \in tree[n]}]
    <3>1. scan.at = "payloads" /\ scan'.at = "publish" /\ scan'.seen = seen
      BY <2>4 DEF ReadPayloads, ExtensionInv, ScanOK
    <3>2. seen \in [Installable -> SUBSET Announcing]
      OBVIOUS
    <3>3. ASSUME NEW n \in Installable, (~missed /\ waiting = 0 /\ Untouched(n))'
          PROVE  scan'.seen[n] = Payloads(n)'
      <4>1. n \in scan.servers <=> "mcp" \in tree[n]
        BY <2>1, <3>1, <3>3 DEF ExtensionInv, AllFresh, FreshOK, Untouched
      <4>2. seen[n] = tree[n] \cap Announcing
        BY <4>1
      <4> QED
        BY <2>1, <3>1, <4>2 DEF Payloads
    <3>4. ScanOK' /\ AllFresh'
      BY <3>1, <3>2, <3>3 DEF ScanOK, AllFresh, FreshOK
    <3> QED
      BY <1>1, <2>2, <3>4 DEF ExtensionInv
  <2> QED
    BY <1>3, <2>3, <2>4
<1>4. CASE PublishSnapshot
  <2>1. /\ UNCHANGED <<tree, wanted, handling, commands, waiting, granted, excused, shared, torn, staying>>
        /\ scan.at = "publish"
        /\ \/ Publishes(scan.seen) /\ UNCHANGED missed
           \/ scan' = NoReload /\ missed' = TRUE /\ UNCHANGED <<inventory, met>>
    BY <1>4 DEF PublishSnapshot, grants
  <2>2. CountOK'
    BY <2>1 DEF ExtensionInv, CountOK, Busy
  <2>3. CASE Publishes(scan.seen) /\ UNCHANGED missed
    <3>1. inventory' \in [Installable -> SUBSET Announcing] /\ met' \subseteq Hosts /\ ScanOK' /\ scan'.at = "none"
      BY <2>3, PublishesOK DEF ExtensionInv, ScanOK
    <3>2. inventory' = scan.seen
      BY <2>3 DEF Publishes
    <3>3. FilesOK' /\ AllFresh'
      BY <2>1, <2>3, <3>1, <3>2 DEF ExtensionInv, FilesOK, AllFresh, FreshOK, Untouched, Payloads
    <3> QED
      BY <1>1, <2>2, <3>1, <3>3 DEF ExtensionInv
  <2>4. CASE scan' = NoReload /\ missed' = TRUE /\ UNCHANGED <<inventory, met>>
    <3>1. FilesOK' /\ ScanOK' /\ AllFresh'
      BY <2>1, <2>4 DEF ExtensionInv, FilesOK, ScanOK, NoReload, Unread, AllFresh, FreshOK
    <3> QED
      BY <1>1, <2>2, <3>1 DEF ExtensionInv
  <2> QED
    BY <2>1, <2>3, <2>4
<1> QED
  BY <1>2, <1>3, <1>4

LEMMA OpenAgainStep == ASSUME ExtensionInv, OpenAgain PROVE ExtensionInv'
<1> DEFINE view == [n \in Installable |-> Payloads(n)]
<1>1. /\ handling' = [c \in Conns |-> Unoccupied] /\ waiting' = 0 /\ missed' = FALSE /\ Publishes(view)
      /\ excused' = excused \cup (granted \cap UNION {handling[c].hosts : c \in Conns})
      /\ UNCHANGED <<tree, wanted, commands, granted, shared, torn, staying>>
  BY DEF OpenAgain
<1>2. view \in [Installable -> SUBSET Announcing]
  BY DEF Payloads
<1>3. inventory' \in [Installable -> SUBSET Announcing] /\ met' \subseteq Hosts /\ ScanOK' /\ scan'.at = "none"
  BY <1>1, <1>2, PublishesOK
<1>4. inventory' = view
  BY <1>1 DEF Publishes
<1>5. FilesOK'
  BY <1>1, <1>3 DEF ExtensionInv, FilesOK
<1>6. \A c \in Conns : handling'[c] = Unoccupied /\ handling'[c].at = "idle"
  BY <1>1 DEF Unoccupied
<1>7. CommandsOK'
  <2>1. Unoccupied \in Command
    BY UnoccupiedOK DEF CommandOK
  <2>2. handling' \in [Conns -> Command]
    BY <1>1, <2>1
  <2> QED
    BY <1>6, <2>2, UnoccupiedOK DEF CommandsOK
<1>8. CountOK'
  <2>1. Busy' = {}
    BY <1>6 DEF Busy
  <2>2. Cardinality(Busy) \in Nat /\ commands \in Nat /\ commands <= MaxCommands
    BY FS_CardinalityType DEF ExtensionInv, CountOK
  <2> QED
    BY <1>1, <2>1, <2>2, FS_EmptySet DEF CountOK
<1>9. FoldersOK'
  <2>1. \A d \in Conns, m \in Installable : ~Writes(d, m)' /\ ~Deletes(d, m)'
    BY <1>6 DEF Writes, Deletes
  <2> QED
    BY <1>1, <2>1, OtherFolder DEF ExtensionInv, FoldersOK
<1>10. AllFresh'
  BY <1>1, <1>3, <1>4 DEF AllFresh, FreshOK, Payloads
<1>11. ASSUME NEW h \in Hosts PROVE GrantOK(h)'
  <2>1. CASE h \in granted' \ excused'
    <3>1. ~Covered(h) /\ h \in granted \ excused
      BY <1>1, <2>1 DEF Covered
    <3>2. h[2] \in tree[h[1]]
      BY <3>1 DEF ExtensionInv, GrantsOK, GrantOK
    <3>3. ~Doomed(h)'
      BY <1>6 DEF Doomed, Deletes
    <3> QED
      BY <1>1, <3>2, <3>3 DEF GrantOK
  <2> QED
    BY <2>1 DEF GrantOK
<1> QED
  BY <1>3, <1>5, <1>7, <1>8, <1>9, <1>10, <1>11 DEF ExtensionInv, GrantsOK

LEMMA ExtensionStep == ASSUME ExtensionInv, [ExtensionNext]_extensionVars PROVE ExtensionInv'
<1>1. CASE UNCHANGED extensionVars
  <2>1. CommandsOK' /\ FoldersOK' /\ GrantsOK'
    BY <1>1, ScanMoves DEF extensionVars
  <2>2. FilesOK' /\ ScanOK' /\ CountOK'
    BY <1>1 DEF extensionVars, ExtensionInv, FilesOK, ScanOK, CountOK, Busy
  <2>3. AllFresh'
    BY <1>1 DEF extensionVars, ExtensionInv, AllFresh, FreshOK, Untouched, Payloads
  <2> QED
    BY <2>1, <2>2, <2>3 DEF ExtensionInv
<1> QED
  BY <1>1, StatInstallStep, ClaimStep, AddServerStep, WritePartStep, WriteFailsStep, RemoveExtStep, DeleteFileStep,
     DeleteFolderStep, EndsStep, SayYesStep, ReloadStep, OpenAgainStep DEF ExtensionNext

LEMMA ExtensionInitHolds == ExtensionInit => ExtensionInv
<1> SUFFICES ASSUME ExtensionInit PROVE ExtensionInv
  OBVIOUS
<1>1. \A c \in Conns : handling[c] = Unoccupied /\ handling[c].at = "idle"
  BY DEF ExtensionInit, Unoccupied
<1>2. CommandsOK
  <2>1. Unoccupied \in Command
    BY UnoccupiedOK DEF CommandOK
  <2> QED
    BY <1>1, <2>1, UnoccupiedOK DEF ExtensionInit, CommandsOK
<1>3. FilesOK /\ ScanOK
  BY DEF ExtensionInit, FilesOK, ScanOK, Unread, NoReload
<1>4. CountOK
  <2>1. Busy = {}
    BY <1>1 DEF Busy
  <2>2. 0 \in Nat /\ 0 <= MaxCommands
    BY ExtensionAssumption
  <2> QED
    BY <2>1, <2>2, FS_EmptySet DEF ExtensionInit, CountOK
<1>5. \A n \in Installable : ~Made(n) /\ Payloads(n) = {}
  BY DEF ExtensionInit, Made, Payloads, Unmade, Announcing
<1>6. FoldersOK
  BY <1>1, <1>5 DEF ExtensionInit, FoldersOK, FolderOK, Writes, Deletes
<1>7. AllFresh
  BY <1>5 DEF ExtensionInit, AllFresh, FreshOK, NoReload, Unread
<1>8. GrantsOK
  BY DEF ExtensionInit, GrantsOK, GrantOK
<1> QED
  BY <1>2, <1>3, <1>4, <1>6, <1>7, <1>8 DEF ExtensionInv

\* Whatever devices install and remove at once, and wherever the daemon
\* stops: at rest the snapshot is what is on disk, a folder that announces a
\* payload is whole, what was installed stays, and no grant outlives what it
\* was given for, with the exceptions the model counts.
THEOREM ExtensionsAlwaysHold == ExtensionSpec => []ExtensionsHold
<1>1. ExtensionInv => ExtensionsHold
  <2> SUFFICES ASSUME ExtensionInv PROVE ExtensionsHold
    OBVIOUS
  <2>1. ExtensionTypeOK
    <3>1. waiting \in 0..MaxCommands
      <4>1. Cardinality(Busy) \in Nat /\ waiting \in Nat /\ commands \in Nat /\ MaxCommands \in Nat
        BY FS_CardinalityType, ExtensionAssumption DEF ExtensionInv, CountOK
      <4> QED
        BY <4>1 DEF ExtensionInv, CountOK
    <3>2. \A c \in Conns : handling[c].at \in Steps
      BY DEF ExtensionInv, CommandsOK, Command
    <3> QED
      BY <3>1, <3>2 DEF ExtensionInv, FilesOK, ScanOK, ExtensionTypeOK, Steps
  <2>2. SnapshotIsDisk
    BY DEF SnapshotIsDisk, Settled, ExtensionInv, AllFresh, FreshOK, Untouched
  <2>3. AnnouncedIsWhole /\ InstalledStays
    BY DEF AnnouncedIsWhole, InstalledStays, ExtensionInv, FoldersOK, FolderOK, FilesOK
  <2>4. GrantsGoAlong
    BY DEF GrantsGoAlong, Settled, ExtensionInv, FilesOK, GrantsOK, GrantOK, Covered
  <2> QED
    BY <2>1, <2>2, <2>3, <2>4 DEF ExtensionsHold
<1> QED
  BY <1>1, ExtensionInitHolds, ExtensionStep, PTL DEF ExtensionSpec

-----------------------------------------------------------------------------
(*****************************************************************************)
(* The credential of an extension, for any callbacks, requests and bounds.   *)
(*****************************************************************************)

-----------------------------------------------------------------------------
(* The inductive invariant of Credentials, part by part.                    *)

AtMostOne(S) == {{}} \cup {{x} : x \in S}
Shards == [token : AtMostOne(Tokens), record : AtMostOne(Consents)]
Writers == Callbacks \cup Requests
WriterPlaces == {"away", "exchange", "token", "compare", "open", "write", "openRecord", "writeRecord"}
InHand == [at : WriterPlaces, of : Nat, token : AtMostOne(Tokens), copy : Shards]
Refreshing == [record : Consents, token : Tokens, last : Tokens, held : SUBSET Requests]

\* What holds of the steps by their shape.
ShapesOK ==
    /\ {declared, owed, unmixed} \subseteq BOOLEAN
    /\ asked \in 0..MaxConsents /\ pending \subseteq Consents /\ expired \subseteq Consents
    /\ exchanged \in [Consents -> Nat] /\ newest \in [Consents -> 0..MaxTurns]
    /\ shard \in Shards
    /\ source \in Seq(Refreshing) /\ DOMAIN source \subseteq Sources /\ wired \in {0} \cup DOMAIN source
    /\ pass.at \in {"none", "record", "token", "bind"} /\ pass.record \in AtMostOne(Consents)
    /\ writer \in [Writers -> InHand]

\* A code belongs to one callback from the moment it takes the session, and
\* a consent has no token before its code is exchanged.
Exchanging(c, n) == writer[c].at = "exchange" /\ writer[c].of = n
CodesOK ==
    \A n \in Consents :
        /\ exchanged[n] <= 1 /\ (exchanged[n] = 0 => newest[n] = 0)
        /\ n \in expired => newest[n] \in 1..(MaxTurns - 1)
        /\ n \in pending => n <= asked /\ exchanged[n] = 0
        /\ n > asked => exchanged[n] = 0
        /\ \A c \in Callbacks : Exchanging(c, n) =>
              /\ n <= asked /\ n \notin pending /\ exchanged[n] = 0
              /\ \A d \in Callbacks : Exchanging(d, n) => d = c

\* No token is newer than the newest of its consent.
Issued(t) == t[2] <= newest[t[1]]
IssuedOK ==
    /\ \A t \in shard.token : Issued(t)
    /\ \A w \in Writers : \A t \in writer[w].token \cup writer[w].copy.token : Issued(t)
    /\ \A g \in DOMAIN source : Issued(source[g].token) /\ Issued(source[g].last)

CallbackOK(c) ==
    /\ writer[c].at \in {"away", "exchange", "open", "write", "openRecord", "writeRecord"}
    /\ writer[c].at # "away" => writer[c].of \in Consents
    /\ writer[c].at \in {"open", "write"} => writer[c].token = {<<writer[c].of, 1>>}

\* A request holds mu of its source while it persists, and what it persists
\* is the last token of that source.
RequestOK(r) ==
    /\ writer[r].at \in {"away", "token", "compare", "open", "write"}
    /\ writer[r].at # "away" => writer[r].of \in DOMAIN source
    /\ writer[r].at = "compare" => \E t \in Tokens : writer[r].token = {t} /\ t[1] = source[writer[r].of].token[1]
    /\ writer[r].at \in {"open", "write"} => /\ writer[r].token = {source[writer[r].of].last}
                                             /\ source[writer[r].of].held = {r}
WritersOK ==
    /\ \A c \in Callbacks : CallbackOK(c)
    /\ \A r \in Requests : RequestOK(r)
    /\ \A g \in DOMAIN source : source[g].last[1] = source[g].token[1]

\* A pass that an extension has outlived takes its source out of use.
PassOK ==
    /\ declared /\ pass.at # "none" => pass.saw
    /\ declared /\ wired = 0 => \A r \in Requests : writer[r].at = "away"
    /\ ~declared /\ ~owed => IF pass.at = "none" THEN wired = 0 ELSE ~pass.saw

\* While nothing comes between: a callback stores alone, with no source in
\* use; nobody writes a shard another has changed since it read it; and of
\* the source in use the newest token is on disk, or a request is at it.
Stores(c) == writer[c].at \in {"open", "write", "openRecord", "writeRecord"}
StoringOK ==
    \A c \in Callbacks : Stores(c) =>
        /\ wired = 0 /\ newest[writer[c].of] = 1
        /\ writer[c].at \in {"openRecord", "writeRecord"} => shard.token = {<<writer[c].of, 1>>}
        /\ \A d \in Callbacks : Stores(d) => d = c
WritesOK ==
    \A w \in Writers : Writing(w) => writer[w].copy = shard /\ \A v \in Writers : Writing(v) => v = w
AtRestOK ==
    (\A c \in Callbacks : ~Stores(c)) =>
        \A t \in shard.token : shard.record = {t[1]} /\ (wired = 0 => t[2] = newest[t[1]])
Persisting(r) == writer[r].at \in {"open", "write"} /\ writer[r].of = wired
InUseOK ==
    /\ \A r \in Requests : writer[r].at \in {"open", "write"} => writer[r].of = wired
    /\ wired # 0 =>
        LET s == source[wired]
        IN  /\ s.token[2] = newest[s.token[1]]
            /\ \E t \in Tokens : shard.token = {t} /\ t[1] = s.token[1]
            /\ s.last # s.token => \E r \in Requests : /\ writer[r].at = "compare" /\ writer[r].of = wired
                                                       /\ writer[r].token = {s.token}
            /\ s.last = s.token => shard.token = {s.token} \/ \E r \in Requests : Persisting(r)
KeptOK ==
    unmixed => IF declared THEN StoringOK /\ WritesOK /\ AtRestOK /\ InUseOK
                           ELSE shard = BareShard

CredentialInv == ShapesOK /\ CodesOK /\ IssuedOK /\ WritersOK /\ PassOK /\ KeptOK

-----------------------------------------------------------------------------
LEMMA OneOf == ASSUME NEW S, NEW x \in S PROVE {x} \in AtMostOne(S) /\ {} \in AtMostOne(S)
BY DEF AtMostOne

LEMMA FewSubsets == ASSUME NEW S, NEW T \in AtMostOne(S) PROVE T \subseteq S
BY DEF AtMostOne

LEMMA AwayShape == Away \in InHand /\ BareShard \in Shards /\ Away.at = "away" /\ Away.token = {} /\ Away.copy.token = {}
<1>1. BareShard \in Shards
  BY DEF BareShard, Shards, AtMostOne, Missing
<1> QED
  BY <1>1 DEF Away, InHand, WriterPlaces, AtMostOne, Missing, BareShard

LEMMA SourceShape ==
  ASSUME ShapesOK
  PROVE  /\ Len(source) \in Nat /\ DOMAIN source = 1..Len(source) /\ source \in [DOMAIN source -> Refreshing]
         /\ \A g \in DOMAIN source : source[g] \in Refreshing /\ source[g].token \in Tokens /\ source[g].last \in Tokens
<1>1. Len(source) \in Nat /\ DOMAIN source = 1..Len(source) /\ source \in [DOMAIN source -> Refreshing]
  BY LenProperties DEF ShapesOK
<1> QED
  BY <1>1 DEF Refreshing

\* At rest the account is kept.
LEMMA InvImpliesHolds == CredentialInv => CredentialHolds
<1> SUFFICES ASSUME CredentialInv PROVE CredentialHolds
  OBVIOUS
<1>1. CredentialTypeOK
  <2>1. shard.token \subseteq Tokens /\ shard.record \subseteq Consents
    BY DEF CredentialInv, ShapesOK, Shards, AtMostOne
  <2>3. DOMAIN source \subseteq Sources
    BY DEF CredentialInv, ShapesOK
  <2>4. \A g \in DOMAIN source : source[g].held \subseteq Requests
    BY SourceShape DEF CredentialInv, Refreshing
  <2>5. \A w \in Requests \cup Callbacks : writer[w].at \in WriterPlaces
    BY DEF CredentialInv, ShapesOK, InHand, Writers
  <2> QED
    BY <2>1, <2>3, <2>4, <2>5 DEF CredentialInv, ShapesOK, CredentialTypeOK, WriterPlaces
<1>2. CodesAreUsedOnce
  BY DEF CodesAreUsedOnce, CredentialInv, CodesOK
<1>3. AccountIsKept
  <2> SUFFICES ASSUME unmixed, \A w \in DOMAIN writer : writer[w] = Away
               PROVE  /\ \A t \in shard.token : t[2] = newest[t[1]] /\ shard.record = {t[1]}
                      /\ wired # 0 /\ declared => shard.token = {source[wired].token}
    BY DEF AccountIsKept
  <2>1. \A w \in Callbacks \cup Requests : writer[w].at = "away"
    BY AwayShape DEF CredentialInv, ShapesOK, Writers
  <2>2. CASE ~declared
    BY <2>2 DEF CredentialInv, KeptOK, BareShard, Missing
  <2>3. CASE declared
    <3>1. \A c \in Callbacks : ~Stores(c)
      BY <2>1 DEF Stores
    <3>2. \A r \in Requests : ~Persisting(r)
      BY <2>1 DEF Persisting
    <3>3. CASE wired = 0
      BY <2>3, <3>1, <3>3 DEF CredentialInv, KeptOK, AtRestOK
    <3>4. CASE wired # 0
      <4>1. shard.token = {source[wired].token} /\ source[wired].token[2] = newest[source[wired].token[1]]
        BY <2>1, <2>3, <3>2, <3>4 DEF CredentialInv, KeptOK, InUseOK
      <4> QED
        BY <2>3, <3>1, <4>1 DEF CredentialInv, KeptOK, AtRestOK
    <3> QED
      BY <3>3, <3>4
  <2> QED
    BY <2>2, <2>3
<1>4. RemovalForgets
  BY DEF RemovalForgets, CredentialInv, PassOK, NoScan
<1> QED
  BY <1>1, <1>2, <1>3, <1>4 DEF CredentialHolds

-----------------------------------------------------------------------------
(* What the steps' effects have in common.                                  *)

LEMMA SourceChanges ==
  ASSUME ShapesOK, source' \in [DOMAIN source -> Refreshing]
  PROVE  source' \in Seq(Refreshing) /\ DOMAIN source' = DOMAIN source
<1>1. DOMAIN source' = DOMAIN source
  OBVIOUS
<1>2. source' \in [1..Len(source) -> Refreshing] /\ Len(source) \in Nat
  BY SourceShape
<1>3. source' \in Seq(Refreshing)
  BY <1>2, SeqDef
<1> QED
  BY <1>1, <1>3

\* One writer is where it was not.
LEMMA WriterChanges ==
  ASSUME writer \in [Writers -> InHand], NEW w \in Writers, NEW x \in InHand, writer' = [writer EXCEPT ![w] = x]
  PROVE  /\ writer' \in [Writers -> InHand] /\ writer'[w] = x
         /\ \A v \in Writers \ {w} : writer'[v] = writer[v]
OBVIOUS

LEMMA HandShape ==
  ASSUME ShapesOK, NEW w \in Writers
  PROVE  /\ writer[w] \in InHand /\ writer[w].at \in WriterPlaces /\ writer[w].of \in Nat
         /\ writer[w].token \in AtMostOne(Tokens) /\ writer[w].copy \in Shards
         /\ writer[w].copy.token \in AtMostOne(Tokens) /\ writer[w].copy.record \in AtMostOne(Consents)
BY DEF ShapesOK, InHand, Shards

LEMMA InTokens ==
  ASSUME ShapesOK
  PROVE  /\ shard.token \subseteq Tokens
         /\ \A v \in Writers : writer[v].token \subseteq Tokens /\ writer[v].copy.token \subseteq Tokens
<1>1. shard.token \in AtMostOne(Tokens)
  BY DEF ShapesOK, Shards
<1> QED
  BY <1>1, HandShape, FewSubsets

LEMMA SidesApart == \A c \in Callbacks : c \in Writers /\ c \notin Requests
BY CredentialAssumption DEF Writers

LEMMA IsWriter == \A v \in Callbacks \cup Requests : v \in Writers
BY DEF Writers

\* The newest token of a consent only gets newer.
LEMMA IssuedStays ==
  ASSUME ShapesOK, ShapesOK', \A n \in Consents : newest[n] <= newest'[n], NEW t \in Tokens, Issued(t)
  PROVE  Issued(t)'
<1>1. t[1] \in Consents /\ t[2] \in Nat
  BY DEF Tokens
<1>2. newest[t[1]] \in Nat /\ newest'[t[1]] \in Nat
  BY <1>1, CredentialAssumption DEF ShapesOK
<1> QED
  BY <1>1, <1>2 DEF Issued

\* A step that touches neither shard nor source, no writer and no token.
LEMMA NothingStored ==
  ASSUME CredentialInv, UNCHANGED <<declared, shard, newest, source, wired, writer, unmixed>>
  PROVE  IssuedOK' /\ WritersOK' /\ KeptOK'
<1>1. IssuedOK'
  BY DEF CredentialInv, IssuedOK, Issued
<1>2. WritersOK'
  BY DEF CredentialInv, WritersOK, CallbackOK, RequestOK
<1>3. KeptOK'
  BY DEF CredentialInv, KeptOK, StoringOK, WritesOK, AtRestOK, InUseOK, Stores, Writing, Persisting
<1> QED
  BY <1>1, <1>2, <1>3

LEMMA BeginConsentStep == ASSUME CredentialInv, BeginConsent PROVE CredentialInv'
<1>1. /\ asked < MaxConsents /\ asked' = asked + 1 /\ pending' = pending \cup {asked + 1}
      /\ UNCHANGED <<declared, shard, exchanged, newest, expired, source, wired, pass, writer, owed, unmixed>>
  BY DEF BeginConsent, Wiring
<1>2. asked \in Nat /\ MaxConsents \in Nat
  BY CredentialAssumption DEF CredentialInv, ShapesOK
<1>3. asked + 1 \in Consents /\ asked' \in 0..MaxConsents
  BY <1>1, <1>2 DEF Consents
<1>4. ShapesOK'
  BY <1>1, <1>3 DEF CredentialInv, ShapesOK
<1>5. CodesOK'
  <2> SUFFICES ASSUME NEW n \in Consents
               PROVE  /\ exchanged[n] <= 1 /\ (exchanged[n] = 0 => newest[n] = 0)
                      /\ n \in expired => newest[n] \in 1..(MaxTurns - 1)
                      /\ n \in pending' => n <= asked' /\ exchanged[n] = 0
                      /\ n > asked' => exchanged[n] = 0
                      /\ \A c \in Callbacks : Exchanging(c, n) =>
                            /\ n <= asked' /\ n \notin pending' /\ exchanged[n] = 0
                            /\ \A d \in Callbacks : Exchanging(d, n) => d = c
    BY <1>1 DEF CodesOK, Exchanging
  <2>1. n \in Nat
    BY DEF Consents
  <2> QED
    BY <1>1, <1>2, <2>1 DEF CredentialInv, CodesOK
<1>6. PassOK'
  BY <1>1 DEF CredentialInv, PassOK
<1> QED
  BY <1>1, <1>4, <1>5, <1>6, NothingStored DEF CredentialInv

LEMMA ExpireStep == ASSUME CredentialInv, NEW n \in Consents, Expire(n) PROVE CredentialInv'
<1>1. /\ newest[n] \in 1..(MaxTurns - 1) /\ expired' = expired \cup {n}
      /\ UNCHANGED <<declared, shard, asked, pending, exchanged, newest, source, wired, pass, writer, owed, unmixed>>
  BY DEF Expire, Wiring
<1>2. ShapesOK' /\ PassOK'
  BY <1>1 DEF CredentialInv, ShapesOK, PassOK
<1>3. CodesOK'
  BY <1>1 DEF CredentialInv, CodesOK, Exchanging
<1> QED
  BY <1>1, <1>2, <1>3, NothingStored DEF CredentialInv

LEMMA PassMoves ==
  ASSUME CredentialInv, Discover \/ ReadRecord
  PROVE  CredentialInv'
<1>1. /\ UNCHANGED <<declared, shard, asked, pending, exchanged, newest, expired, source, wired, writer, unmixed>>
      /\ owed' \in BOOLEAN
  BY DEF Discover, ReadRecord, Server, CredentialInv, ShapesOK
<1>2. pass'.at \in {"none", "record", "token", "bind"} /\ pass'.record \in AtMostOne(Consents)
  <2>1. CASE Discover
    BY <2>1 DEF Discover, AtMostOne, Missing
  <2>2. CASE ReadRecord
    BY <2>2 DEF ReadRecord, CredentialInv, ShapesOK, Shards
  <2> QED
    BY <2>1, <2>2
<1>3. ShapesOK'
  BY <1>1, <1>2 DEF CredentialInv, ShapesOK
<1>4. CodesOK'
  BY <1>1 DEF CredentialInv, CodesOK, Exchanging
<1>5. PassOK'
  <2>1. CASE Discover
    BY <2>1, <1>1 DEF Discover, CredentialInv, PassOK
  <2>2. CASE ReadRecord
    <3>1. pass'.saw = pass.saw /\ pass.at # "none" /\ pass'.at # "none" /\ owed' = owed
      BY <2>2 DEF ReadRecord
    <3> QED
      BY <1>1, <3>1 DEF CredentialInv, PassOK
  <2> QED
    BY <2>1, <2>2
<1> QED
  BY <1>1, <1>3, <1>4, <1>5, NothingStored DEF CredentialInv

LEMMA BindStep == ASSUME CredentialInv, Bind PROVE CredentialInv'
<1>1. /\ pass.at = "bind" /\ pass' = NoScan /\ wired' = (IF pass.saw THEN wired ELSE 0)
      /\ UNCHANGED <<declared, shard, asked, pending, exchanged, newest, expired, source, writer, owed, unmixed>>
  BY DEF Bind, Server
<1>2. ShapesOK' /\ CodesOK'
  BY <1>1 DEF CredentialInv, ShapesOK, CodesOK, Exchanging, NoScan, AtMostOne, Missing
<1>3. declared => wired' = wired
  BY <1>1 DEF CredentialInv, PassOK
<1>4. PassOK'
  BY <1>1, <1>3 DEF CredentialInv, PassOK, NoScan
<1>5. CASE declared
  BY <1>1, <1>2, <1>3, <1>4, <1>5, NothingStored DEF CredentialInv
<1>6. CASE ~declared
  <2>1. IssuedOK'
    BY <1>1 DEF CredentialInv, IssuedOK, Issued
  <2>2. WritersOK'
    BY <1>1 DEF CredentialInv, WritersOK, CallbackOK, RequestOK
  <2>3. KeptOK'
    BY <1>1, <1>6 DEF CredentialInv, KeptOK
  <2> QED
    BY <1>2, <1>4, <2>1, <2>2, <2>3 DEF CredentialInv
<1> QED
  BY <1>5, <1>6

\* A callback takes a session, or gives it up; a request asks for a token,
\* or leaves with none: nothing is stored by it.
LEMMA WriterMovesAside ==
  ASSUME CredentialInv, NEW w \in Writers, NEW x \in InHand, writer' = [writer EXCEPT ![w] = x],
         x.at \in {"away", "exchange", "token"}, writer[w].at \in {"away", "exchange", "token"},
         x.token \subseteq writer[w].token, x.copy.token \subseteq writer[w].copy.token,
         w \in Callbacks => x.at \in {"away", "exchange"} /\ (x.at = "exchange" => x.of \in Consents),
         w \in Requests => x.at \in {"away", "token"} /\ (x.at = "token" => x.of \in DOMAIN source),
         UNCHANGED <<declared, shard, newest, source, wired, unmixed>>
  PROVE  IssuedOK' /\ WritersOK' /\ KeptOK'
<1>0. writer \in [Writers -> InHand]
  BY DEF CredentialInv, ShapesOK
<1>1. /\ writer' \in [Writers -> InHand] /\ writer'[w] = x
      /\ \A v \in Writers \ {w} : writer'[v] = writer[v]
  BY <1>0, WriterChanges
<1>2. IssuedOK'
  BY <1>1 DEF CredentialInv, IssuedOK, Issued
<1>3. WritersOK'
  <2>1. \A c \in Callbacks : CallbackOK(c)'
    BY <1>1, IsWriter DEF CredentialInv, WritersOK, CallbackOK
  <2>2. \A q \in Requests : RequestOK(q)'
    BY <1>1, IsWriter DEF CredentialInv, WritersOK, RequestOK
  <2> QED
    BY <2>1, <2>2 DEF CredentialInv, WritersOK
<1>4. KeptOK'
  <2>1. \A c \in Callbacks : (Stores(c)' <=> Stores(c)) /\ (Stores(c) => writer'[c] = writer[c])
    BY <1>1, IsWriter DEF Stores
  <2>2. \A v \in Writers : (Writing(v)' <=> Writing(v)) /\ (Writing(v) => writer'[v] = writer[v])
    BY <1>1 DEF Writing
  <2>3. \A q \in Requests : writer[q].at \in {"open", "write", "compare"} \/ writer'[q].at \in {"open", "write", "compare"}
                               => writer'[q] = writer[q]
    BY <1>1, IsWriter
  <2>4. (unmixed /\ declared) => StoringOK'
    BY <2>1 DEF CredentialInv, KeptOK, StoringOK
  <2>5. (unmixed /\ declared) => WritesOK'
    BY <2>2 DEF CredentialInv, KeptOK, WritesOK
  <2>6. (unmixed /\ declared) => AtRestOK'
    BY <2>1 DEF CredentialInv, KeptOK, AtRestOK
  <2>7. (unmixed /\ declared) => InUseOK'
    BY <2>3 DEF CredentialInv, KeptOK, InUseOK, Persisting
  <2> QED
    BY <2>4, <2>5, <2>6, <2>7 DEF CredentialInv, KeptOK
<1> QED
  BY <1>2, <1>3, <1>4

LEMMA TakeSessionStep ==
  ASSUME CredentialInv, NEW c \in Callbacks, NEW n \in Consents, TakeSession(c, n)
  PROVE  CredentialInv'
<1> DEFINE x == [writer[c] EXCEPT !.at = "exchange", !.of = n]
<1>0. c \in Writers /\ c \notin Requests /\ ShapesOK
  BY SidesApart DEF CredentialInv
<1>1. /\ writer[c].at = "away" /\ n \in pending /\ pending' = pending \ {n} /\ writer' = [writer EXCEPT ![c] = x]
      /\ UNCHANGED <<declared, shard, asked, exchanged, newest, expired, source, wired, pass, owed, unmixed>>
  BY DEF TakeSession, Wiring
<1>2. /\ x \in InHand /\ x.at = "exchange" /\ x.of = n /\ x.token = writer[c].token /\ x.copy = writer[c].copy
  <2>1. n \in Nat /\ "exchange" \in WriterPlaces
    BY DEF Consents, WriterPlaces
  <2>2. writer[c] \in InHand
    BY <1>0, HandShape
  <2> QED
    BY <2>1, <2>2 DEF InHand
<1>3. /\ writer' \in [Writers -> InHand] /\ writer'[c] = x
      /\ \A v \in Writers \ {c} : writer'[v] = writer[v]
  BY <1>0, <1>1, <1>2, WriterChanges DEF ShapesOK
<1>4. ShapesOK'
  BY <1>0, <1>1, <1>3 DEF ShapesOK
<1>5. CodesOK'
  <2>1. \A d \in Callbacks, m \in Consents : Exchanging(d, m)' <=> IF d = c THEN m = n ELSE Exchanging(d, m)
    BY <1>2, <1>3, SidesApart DEF Exchanging
  <2>2. \A d \in Callbacks : ~Exchanging(d, n)
    BY <1>1 DEF CredentialInv, CodesOK
  <2>3. \A m \in Consents : ~Exchanging(c, m)
    BY <1>1 DEF Exchanging
  <2> QED
    BY <1>1, <2>1, <2>2, <2>3 DEF CredentialInv, CodesOK
<1>6. PassOK'
  BY <1>0, <1>1, <1>3, IsWriter DEF CredentialInv, PassOK
<1>7. IssuedOK' /\ WritersOK' /\ KeptOK'
  BY <1>0, <1>1, <1>2, WriterMovesAside
<1> QED
  BY <1>4, <1>5, <1>6, <1>7 DEF CredentialInv

LEMMA ExchangeStep ==
  ASSUME CredentialInv, NEW c \in Callbacks, Exchange(c)
  PROVE  CredentialInv'
<1>0. c \in Writers /\ c \notin Requests /\ ShapesOK /\ writer[c].at = "exchange"
  BY SidesApart DEF CredentialInv, Exchange
<1>1. PICK n \in Consents : n = writer[c].of
  BY <1>0 DEF CredentialInv, WritersOK, CallbackOK
<1>2. Exchanging(c, n) /\ exchanged[n] = 0 /\ newest[n] = 0 /\ n <= asked /\ n \notin pending /\ n \notin expired
  BY <1>0, <1>1 DEF CredentialInv, CodesOK, Exchanging
<1>3. UNCHANGED <<declared, shard, source, wired, pass, owed, asked, pending, expired>>
  BY DEF Exchange, Wiring, Server
<1>4. CASE Leaves(c) /\ UNCHANGED <<exchanged, newest, unmixed>>
  <2>1. writer' = [writer EXCEPT ![c] = Away]
    BY <1>4 DEF Leaves
  <2>2. /\ writer' \in [Writers -> InHand] /\ writer'[c] = Away
        /\ \A v \in Writers \ {c} : writer'[v] = writer[v]
    BY <1>0, <2>1, AwayShape, WriterChanges DEF ShapesOK
  <2>3. ShapesOK'
    BY <1>0, <1>3, <1>4, <2>2 DEF ShapesOK
  <2>4. CodesOK'
    <3>1. \A d \in Callbacks, m \in Consents : Exchanging(d, m)' => Exchanging(d, m)
      BY <2>2, AwayShape, SidesApart DEF Exchanging
    <3> QED
      BY <1>3, <1>4, <3>1 DEF CredentialInv, CodesOK
  <2>5. PassOK'
    BY <1>0, <1>3, <2>2, IsWriter DEF CredentialInv, PassOK
  <2>6. IssuedOK' /\ WritersOK' /\ KeptOK'
    BY <1>0, <1>3, <1>4, <2>1, AwayShape, WriterMovesAside
  <2> QED
    BY <2>3, <2>4, <2>5, <2>6 DEF CredentialInv
<1>5. CASE /\ exchanged' = [exchanged EXCEPT ![n] = @ + 1] /\ newest' = [newest EXCEPT ![n] = 1]
           /\ writer' = [writer EXCEPT ![c].at = "open", ![c].token = {<<n, 1>>}]
           /\ unmixed' = (unmixed /\ wired = 0 /\ pass = NoScan /\ NobodyBut(c))
  <2> DEFINE x == [writer[c] EXCEPT !.at = "open", !.token = {<<n, 1>>}]
  <2>1. MaxTurns \in Nat \ {0} /\ <<n, 1>> \in Tokens
    BY CredentialAssumption DEF Tokens
  <2>2. x \in InHand /\ x.at = "open" /\ x.of = n /\ x.token = {<<n, 1>>} /\ x.copy = writer[c].copy
    BY <1>0, <1>1, <2>1, HandShape, OneOf DEF InHand, WriterPlaces
  <2>3. /\ writer' \in [Writers -> InHand] /\ writer'[c] = x
        /\ \A v \in Writers \ {c} : writer'[v] = writer[v]
    <3>1. writer' = [writer EXCEPT ![c] = x]
      BY <1>5
    <3> QED
      BY <1>0, <2>2, <3>1, WriterChanges DEF ShapesOK
  <2>4. /\ exchanged' \in [Consents -> Nat] /\ exchanged'[n] = 1
        /\ newest' \in [Consents -> 0..MaxTurns] /\ newest'[n] = 1
        /\ \A m \in Consents \ {n} : exchanged'[m] = exchanged[m] /\ newest'[m] = newest[m]
    BY <1>0, <1>2, <1>5, <2>1 DEF ShapesOK
  <2>5. unmixed' \in BOOLEAN /\ (unmixed' => unmixed /\ wired = 0 /\ NobodyBut(c))
    BY <1>0, <1>5 DEF ShapesOK
  <2>6. ShapesOK'
    BY <1>0, <1>3, <2>3, <2>4, <2>5 DEF ShapesOK
  <2>7. CodesOK'
    <3>0. /\ writer'[c].at = "open" /\ \A d \in Callbacks \ {c} : writer'[d] = writer[d]
          /\ \A d \in Callbacks : Exchanging(d, n) => d = c
      BY <1>2, <2>2, <2>3, SidesApart DEF CredentialInv, CodesOK
    <3>1. \A d \in Callbacks, m \in Consents : Exchanging(d, m)' => (Exchanging(d, m) /\ m # n)
      BY <1>1, <3>0 DEF Exchanging
    <3>2. asked \in Nat /\ n \in Nat
      BY <1>0 DEF ShapesOK, Consents
    <3>3. \A m \in Consents : /\ exchanged'[m] <= 1 /\ (exchanged'[m] = 0 => newest'[m] = 0)
                              /\ m \in expired => newest'[m] \in 1..(MaxTurns - 1)
                              /\ m \in pending => m <= asked /\ exchanged'[m] = 0
      BY <1>2, <2>4 DEF CredentialInv, CodesOK
    <3>4. \A m \in Consents : m > asked => exchanged'[m] = 0
      BY <1>2, <2>4, <3>2 DEF CredentialInv, CodesOK
    <3>5. \A m \in Consents, d \in Callbacks : Exchanging(d, m)' =>
             /\ m <= asked /\ m \notin pending /\ exchanged'[m] = 0
             /\ \A e \in Callbacks : Exchanging(e, m)' => e = d
      BY <2>4, <3>1 DEF CredentialInv, CodesOK
    <3> QED
      BY <1>3, <3>3, <3>4, <3>5 DEF CodesOK
  <2>8. PassOK'
    BY <1>0, <1>3, <2>3, IsWriter DEF CredentialInv, PassOK
  <2>9. IssuedOK'
    <3>0. \A m \in Consents : newest[m] \in Nat
      BY <1>0, <2>1 DEF ShapesOK
    <3>1. \A m \in Consents : newest[m] <= newest'[m]
      BY <1>2, <2>4, <3>0
    <3>2. \A t \in Tokens : Issued(t) => Issued(t)'
      BY <1>0, <2>6, <3>1, IssuedStays
    <3>3. Issued(<<n, 1>>)'
      BY <2>4 DEF Issued
    <3>4. /\ shard.token \subseteq Tokens
          /\ \A v \in Writers : writer[v].token \subseteq Tokens /\ writer[v].copy.token \subseteq Tokens
          /\ \A g \in DOMAIN source : source[g].token \in Tokens /\ source[g].last \in Tokens
      BY <1>0, InTokens, SourceShape
    <3>5. \A t \in shard'.token : Issued(t)'
      BY <1>3, <3>2, <3>4 DEF CredentialInv, IssuedOK
    <3>6. \A v \in Writers : \A t \in writer'[v].token \cup writer'[v].copy.token : Issued(t)'
      BY <2>2, <2>3, <3>2, <3>3, <3>4 DEF CredentialInv, IssuedOK
    <3>7. \A g \in DOMAIN source' : Issued(source[g].token)' /\ Issued(source[g].last)'
      BY <1>3, <3>2, <3>4 DEF CredentialInv, IssuedOK
    <3> QED
      BY <3>5, <3>6, <3>7 DEF IssuedOK
  <2>10. WritersOK'
    <3>1. \A d \in Callbacks : CallbackOK(d)'
      BY <1>0, <2>2, <2>3, IsWriter DEF CredentialInv, WritersOK, CallbackOK
    <3>2. \A q \in Requests : RequestOK(q)'
      BY <1>0, <1>3, <2>3, IsWriter DEF CredentialInv, WritersOK, RequestOK
    <3> QED
      BY <1>3, <3>1, <3>2 DEF CredentialInv, WritersOK
  <2>11. KeptOK'
    <3> SUFFICES ASSUME unmixed', declared PROVE StoringOK' /\ WritesOK' /\ AtRestOK' /\ InUseOK'
      BY <1>3, <2>5 DEF CredentialInv, KeptOK
    <3>1. unmixed /\ wired = 0 /\ \A v \in Writers \ {c} : writer'[v].at = "away"
      BY <1>0, <2>3, <2>5, AwayShape DEF NobodyBut, WritersBut, ShapesOK
    <3>2. \A d \in Callbacks : Stores(d)' => d = c
      BY <3>1, IsWriter DEF Stores
    <3>3. Stores(c)' /\ writer'[c].at = "open" /\ writer'[c].of = n
      BY <2>2, <2>3 DEF Stores
    <3>4. StoringOK'
      BY <1>3, <2>4, <3>1, <3>2, <3>3 DEF StoringOK
    <3>5. WritesOK'
      BY <3>1, <3>3 DEF WritesOK, Writing
    <3>6. AtRestOK'
      BY <3>3 DEF AtRestOK
    <3>7. InUseOK'
      BY <1>0, <1>3, <3>1, IsWriter DEF InUseOK
    <3> QED
      BY <3>4, <3>5, <3>6, <3>7
  <2> QED
    BY <2>6, <2>7, <2>8, <2>9, <2>10, <2>11 DEF CredentialInv
<1> QED
  BY <1>1, <1>4, <1>5 DEF Exchange, Server

LEMMA OpenShardStep ==
  ASSUME CredentialInv, NEW w \in Writers, OpenShard(w)
  PROVE  CredentialInv'
<1>0. ShapesOK /\ writer[w].at \in {"open", "openRecord"}
  BY DEF CredentialInv, OpenShard
<1>1. /\ writer' = [writer EXCEPT ![w].at = IF @ = "open" THEN "write" ELSE "writeRecord", ![w].copy = shard]
      /\ unmixed' = (unmixed /\ \A v \in WritersBut(w) : ~Writing(v))
      /\ UNCHANGED <<declared, shard, asked, pending, exchanged, newest, expired, source, wired, pass, owed>>
  BY DEF OpenShard, Wiring, Server
<1>2. /\ writer' \in [Writers -> InHand]
      /\ writer[w].at = "open" => writer'[w].at = "write"
      /\ writer[w].at = "openRecord" => writer'[w].at = "writeRecord"
      /\ writer'[w].of = writer[w].of /\ writer'[w].token = writer[w].token /\ writer'[w].copy = shard
      /\ \A v \in Writers \ {w} : writer'[v] = writer[v]
  <2>1. PICK to : to = (IF writer[w].at = "open" THEN "write" ELSE "writeRecord")
    OBVIOUS
  <2>2. PICK x : x = [writer[w] EXCEPT !.at = to, !.copy = shard]
    OBVIOUS
  <2>3. writer[w] \in InHand /\ shard \in Shards /\ to \in WriterPlaces
    BY <1>0, <2>1, HandShape DEF ShapesOK, WriterPlaces
  <2>4. x \in InHand /\ x.at = to /\ x.of = writer[w].of /\ x.token = writer[w].token /\ x.copy = shard
    BY <2>2, <2>3 DEF InHand
  <2>5. writer' = [writer EXCEPT ![w] = x]
    BY <1>1, <2>1, <2>2
  <2>6. writer'[w] = x /\ writer' \in [Writers -> InHand] /\ \A v \in Writers \ {w} : writer'[v] = writer[v]
    BY <1>0, <2>4, <2>5, WriterChanges DEF ShapesOK
  <2> QED
    BY <2>1, <2>4, <2>6
<1>3. writer'[w].at \in {"write", "writeRecord"} /\ \A v \in Writers \ {w} : writer'[v] = writer[v]
  BY <1>0, <1>2
<1>4. unmixed' \in BOOLEAN /\ (unmixed' => unmixed /\ \A v \in Writers \ {w} : ~Writing(v))
  BY <1>0, <1>1 DEF ShapesOK, WritersBut
<1>5. ShapesOK'
  BY <1>0, <1>1, <1>2, <1>4 DEF ShapesOK
<1>6. CodesOK'
  <2>1. \A d \in Callbacks, m \in Consents : Exchanging(d, m)' <=> Exchanging(d, m)
    BY <1>0, <1>2, <1>3, SidesApart DEF Exchanging
  <2> QED
    BY <1>1, <2>1 DEF CredentialInv, CodesOK
<1>7. PassOK'
  <2>1. \A q \in Requests : writer[q].at = "away" => writer'[q].at = "away"
    BY <1>0, <1>3, IsWriter
  <2> QED
    BY <1>1, <2>1 DEF CredentialInv, PassOK
<1>8. IssuedOK'
  BY <1>1, <1>2, <1>3 DEF CredentialInv, IssuedOK, Issued
<1>9. WritersOK'
  <2>1. \A d \in Callbacks : CallbackOK(d)'
    BY <1>0, <1>2, <1>3, IsWriter DEF CredentialInv, WritersOK, CallbackOK
  <2>2. \A q \in Requests : RequestOK(q)'
    <3>0. source' = source /\ \A q \in Requests : RequestOK(q)
      BY <1>1 DEF CredentialInv, WritersOK
    <3>1. ASSUME NEW q \in Requests, q # w PROVE RequestOK(q)'
      <4>1. writer'[q] = writer[q]
        BY <1>3, <3>1, IsWriter
      <4> QED
        BY <3>0, <4>1 DEF RequestOK
    <3>2. ASSUME w \in Requests PROVE RequestOK(w)'
      <4>1. RequestOK(w) /\ writer[w].at = "open" /\ writer'[w].at = "write"
        BY <1>0, <1>2, <3>0, <3>2 DEF RequestOK
      <4> QED
        BY <1>2, <3>0, <4>1 DEF RequestOK
    <3> QED
      BY <3>1, <3>2
  <2> QED
    BY <1>1, <2>1, <2>2 DEF CredentialInv, WritersOK
<1>10. KeptOK'
  <2> SUFFICES ASSUME unmixed', declared PROVE StoringOK' /\ WritesOK' /\ AtRestOK' /\ InUseOK'
    BY <1>1, <1>4 DEF CredentialInv, KeptOK
  <2>0. StoringOK /\ WritesOK /\ AtRestOK /\ InUseOK
    BY <1>4 DEF CredentialInv, KeptOK
  <2>1. \A d \in Callbacks : /\ (Stores(d)' <=> Stores(d))
                             /\ writer'[d].of = writer[d].of
                             /\ (writer'[d].at \in {"openRecord", "writeRecord"} <=> writer[d].at \in {"openRecord", "writeRecord"})
    BY <1>0, <1>2, <1>3, IsWriter DEF Stores
  <2>2. StoringOK'
    BY <1>1, <2>0, <2>1 DEF StoringOK
  <2>3. \A v \in Writers : Writing(v)' => v = w
    BY <1>3, <1>4 DEF Writing
  <2>4. WritesOK'
    BY <1>1, <1>2, <1>3, <2>3 DEF WritesOK
  <2>5. AtRestOK'
    BY <1>1, <2>0, <2>1 DEF AtRestOK
  <2>6. \A q \in Requests : /\ (writer'[q].at \in {"open", "write"} <=> writer[q].at \in {"open", "write"})
                            /\ (writer[q].at = "compare" => writer'[q] = writer[q])
                            /\ writer'[q].of = writer[q].of
    <3>1. w \in Requests => writer[w].at = "open"
      BY <1>0 DEF CredentialInv, WritersOK, RequestOK
    <3> QED
      BY <1>2, <1>3, <3>1, IsWriter
  <2>7. InUseOK'
    <3>1. \A q \in Requests : (Persisting(q)' <=> Persisting(q))
      BY <1>1, <2>6 DEF Persisting
    <3>2. \A q \in Requests : writer'[q].at \in {"open", "write"} => writer'[q].of = wired'
      BY <1>1, <2>0, <2>6 DEF InUseOK
    <3>3. \A q \in Requests : writer[q].at = "compare" => writer'[q] = writer[q]
      BY <2>6
    <3> QED
      BY <1>1, <2>0, <3>1, <3>2, <3>3 DEF InUseOK
  <2> QED
    BY <2>2, <2>4, <2>5, <2>7
<1> QED
  BY <1>5, <1>6, <1>7, <1>8, <1>9, <1>10 DEF CredentialInv

\* What a shard that is written back holds.
LEMMA WrittenShape ==
  ASSUME ShapesOK, NEW copy \in Shards, NEW new \in Shards, shard' = Written(copy, new)
  PROVE  shard' \in Shards /\ (copy = shard => shard' = new) /\ shard'.token \subseteq shard.token \cup new.token
BY DEF ShapesOK, Written

\* A code is exchanged by the callbacks it was exchanged by, or fewer.
LEMMA CodesStay ==
  ASSUME CredentialInv, UNCHANGED <<asked, pending, exchanged, newest, expired>>,
         \A d \in Callbacks, m \in Consents : Exchanging(d, m)' => Exchanging(d, m)
  PROVE  CodesOK'
BY DEF CredentialInv, CodesOK

\* The last of a consent that a callback stores is its record.
LEMMA StoreRecordStep ==
  ASSUME CredentialInv, NEW c \in Callbacks, StoreRecord(c)
  PROVE  CredentialInv'
<1>0. c \in Writers /\ c \notin Requests /\ ShapesOK /\ writer[c].at = "writeRecord"
  BY SidesApart DEF CredentialInv, StoreRecord
<1>1. UNCHANGED <<declared, asked, pending, exchanged, newest, expired, source, wired, pass, owed>>
  BY DEF StoreRecord, Wiring, Server
<1>2. PICK n \in Consents : n = writer[c].of
  BY <1>0 DEF CredentialInv, WritersOK, CallbackOK
<1>3. PICK new : new = [writer[c].copy EXCEPT !.record = {n}]
  OBVIOUS
<1>4. new \in Shards /\ new.token = writer[c].copy.token /\ new.record = {n}
  <2>1. {n} \in AtMostOne(Consents) /\ writer[c].copy \in Shards
    BY <1>0, OneOf, HandShape
  <2> QED
    BY <1>3, <2>1 DEF Shards
<1>5. \/ shard' = Written(writer[c].copy, new) /\ unmixed' = (unmixed /\ declared)
      \/ shard' = shard /\ unmixed' = FALSE
  BY <1>2, <1>3 DEF StoreRecord
<1>6. /\ writer' \in [Writers -> InHand] /\ writer'[c] = Away
      /\ \A v \in Writers \ {c} : writer'[v] = writer[v]
  <2>1. writer' = [writer EXCEPT ![c] = Away]
    BY DEF StoreRecord, Leaves
  <2> QED
    BY <1>0, <2>1, AwayShape, WriterChanges DEF ShapesOK
<1>7. shard' \in Shards /\ shard'.token \subseteq shard.token \cup writer[c].copy.token
  BY <1>0, <1>4, <1>5, HandShape, WrittenShape DEF ShapesOK
<1>8. ShapesOK'
  <2>1. unmixed' \in BOOLEAN
    BY <1>0, <1>5 DEF ShapesOK
  <2> QED
    BY <1>0, <1>1, <1>6, <1>7, <2>1 DEF ShapesOK
<1>9. CodesOK'
  <2>1. \A d \in Callbacks, m \in Consents : Exchanging(d, m)' => Exchanging(d, m)
    BY <1>6, AwayShape, SidesApart DEF Exchanging
  <2> QED
    BY <1>1, <2>1, CodesStay
<1>10. IssuedOK'
  BY <1>0, <1>1, <1>6, <1>7, AwayShape DEF CredentialInv, IssuedOK, Issued
<1>11. WritersOK'
  <2>1. \A d \in Callbacks : CallbackOK(d)'
    BY <1>6, AwayShape, IsWriter DEF CredentialInv, WritersOK, CallbackOK
  <2>2. \A q \in Requests : RequestOK(q)'
    <3>1. \A q \in Requests : RequestOK(q) /\ writer'[q] = writer[q] /\ source' = source
      BY <1>0, <1>1, <1>6, IsWriter DEF CredentialInv, WritersOK
    <3> QED
      BY <3>1 DEF RequestOK
  <2> QED
    BY <1>1, <2>1, <2>2 DEF CredentialInv, WritersOK
<1>12. \A q \in Requests : writer'[q] = writer[q]
  BY <1>0, <1>6, IsWriter
<1>13. PassOK'
  BY <1>1, <1>12 DEF CredentialInv, PassOK
<1>14. KeptOK'
  <2> SUFFICES ASSUME unmixed' PROVE declared /\ StoringOK' /\ WritesOK' /\ AtRestOK' /\ InUseOK'
    BY <1>1 DEF KeptOK
  <2>1. unmixed /\ declared /\ shard' = Written(writer[c].copy, new)
    BY <1>5
  <2>2. StoringOK /\ WritesOK /\ InUseOK
    BY <2>1 DEF CredentialInv, KeptOK
  <2>3. Stores(c) /\ Writing(c)
    BY <1>0 DEF Stores, Writing
  <2>4. /\ wired = 0 /\ newest[n] = 1 /\ shard.token = {<<n, 1>>} /\ writer[c].copy = shard
        /\ \A d \in Callbacks : Stores(d) => d = c
        /\ \A v \in Writers : Writing(v) => v = c
    BY <1>0, <1>2, <2>2, <2>3 DEF StoringOK, WritesOK
  <2>5. shard'.token = {<<n, 1>>} /\ shard'.record = {n}
    BY <1>0, <1>4, <2>1, <2>4, HandShape, WrittenShape
  <2>6. \A d \in Callbacks : ~Stores(d)'
    BY <1>6, <2>4, AwayShape, IsWriter DEF Stores
  <2>7. \A v \in Writers : ~Writing(v)'
    BY <1>6, <2>4, AwayShape DEF Writing
  <2>8. AtRestOK'
    BY <1>1, <2>4, <2>5 DEF AtRestOK
  <2>9. InUseOK'
    BY <1>1, <1>12, <2>2, <2>4 DEF InUseOK
  <2> QED
    BY <2>1, <2>6, <2>7, <2>8, <2>9 DEF StoringOK, WritesOK
<1> QED
  BY <1>8, <1>9, <1>10, <1>11, <1>13, <1>14 DEF CredentialInv

\* A writer that has stored its token lets go of its source.
LEMMA Unlocked ==
  ASSUME ShapesOK, NEW w, Unlock(w)
  PROVE  /\ source' \in Seq(Refreshing) /\ DOMAIN source' = DOMAIN source
         /\ \A g \in DOMAIN source : /\ source'[g].record = source[g].record /\ source'[g].token = source[g].token
                                     /\ source'[g].last = source[g].last /\ source'[g].held = source[g].held \ {w}
<1>1. \A g \in DOMAIN source : [source[g] EXCEPT !.held = @ \ {w}] \in Refreshing
  BY SourceShape DEF Refreshing
<1>2. source' \in [DOMAIN source -> Refreshing]
  BY <1>1 DEF Unlock
<1>3. source' \in Seq(Refreshing) /\ DOMAIN source' = DOMAIN source
  BY <1>2, SourceChanges
<1>4. \A g \in DOMAIN source : source'[g] = [source[g] EXCEPT !.held = @ \ {w}] /\ source[g] \in Refreshing
  BY SourceShape DEF Unlock
<1> QED
  BY <1>3, <1>4 DEF Refreshing

LEMMA StoreTokenStep ==
  ASSUME CredentialInv, NEW w \in Writers, StoreToken(w)
  PROVE  CredentialInv'
<1>0. ShapesOK /\ writer[w].at = "write" /\ Unlock(w)
  BY DEF CredentialInv, StoreToken
<1>1. UNCHANGED <<declared, asked, pending, exchanged, newest, expired, wired, pass, owed>>
  BY DEF StoreToken, Server
<1>2. PICK new : new = [writer[w].copy EXCEPT !.token = writer[w].token]
  OBVIOUS
<1>3. new \in Shards /\ new.token = writer[w].token /\ new.record = writer[w].copy.record
  BY <1>0, <1>2, HandShape DEF Shards
<1>4. \/ /\ shard' = Written(writer[w].copy, new) /\ unmixed' = (unmixed /\ declared)
         /\ IF w \in Callbacks
            THEN writer' = [writer EXCEPT ![w].at = "openRecord", ![w].copy = BareShard]
            ELSE Leaves(w)
      \/ shard' = shard /\ unmixed' = FALSE /\ Leaves(w)
  BY <1>2 DEF StoreToken
<1>5. shard' \in Shards /\ shard'.token \subseteq shard.token \cup writer[w].token
  BY <1>0, <1>3, <1>4, HandShape, WrittenShape DEF ShapesOK
<1>6. unmixed' \in BOOLEAN /\ (unmixed' => unmixed /\ declared /\ shard' = Written(writer[w].copy, new))
  BY <1>0, <1>4 DEF ShapesOK
<1>7. PICK x \in InHand :
         /\ writer' = [writer EXCEPT ![w] = x] /\ x.at \in {"away", "openRecord"}
         /\ x.at = "openRecord" => w \in Callbacks /\ x.of = writer[w].of
         /\ x.token \subseteq writer[w].token /\ x.copy.token = {}
         /\ unmixed' /\ w \in Callbacks => x.at = "openRecord"
  <2>1. CASE Leaves(w) /\ (w \notin Callbacks \/ ~unmixed')
    BY <2>1, AwayShape DEF Leaves
  <2>2. CASE w \in Callbacks /\ writer' = [writer EXCEPT ![w].at = "openRecord", ![w].copy = BareShard]
    <3>1. PICK x : x = [writer[w] EXCEPT !.at = "openRecord", !.copy = BareShard]
      OBVIOUS
    <3>2. "openRecord" \in WriterPlaces /\ BareShard \in Shards /\ BareShard.token = {}
      BY AwayShape DEF WriterPlaces, BareShard, Missing
    <3>3. /\ x \in InHand /\ x.at = "openRecord" /\ x.of = writer[w].of /\ x.token = writer[w].token
          /\ x.copy = BareShard
      BY <1>0, <3>1, <3>2, HandShape DEF InHand
    <3>4. writer' = [writer EXCEPT ![w] = x]
      BY <2>2, <3>1
    <3> QED
      BY <2>2, <3>2, <3>3, <3>4
  <2> QED
    BY <1>4, <2>1, <2>2
<1>8. /\ writer' \in [Writers -> InHand] /\ writer'[w] = x
      /\ \A v \in Writers \ {w} : writer'[v] = writer[v]
  BY <1>0, <1>7, WriterChanges DEF ShapesOK
<1>9. /\ source' \in Seq(Refreshing) /\ DOMAIN source' = DOMAIN source
      /\ \A g \in DOMAIN source : /\ source'[g].token = source[g].token /\ source'[g].last = source[g].last
                                  /\ source'[g].held = source[g].held \ {w}
  BY <1>0, Unlocked
<1>10. ShapesOK'
  BY <1>0, <1>1, <1>5, <1>6, <1>8, <1>9 DEF ShapesOK
<1>11. CodesOK'
  <2>1. \A d \in Callbacks, m \in Consents : Exchanging(d, m)' => Exchanging(d, m)
    BY <1>7, <1>8, SidesApart DEF Exchanging
  <2> QED
    BY <1>1, <2>1, CodesStay
<1>12. IssuedOK'
  BY <1>1, <1>5, <1>7, <1>8, <1>9 DEF CredentialInv, IssuedOK, Issued
<1>13. WritersOK'
  <2>1. \A d \in Callbacks : CallbackOK(d)'
    BY <1>0, <1>7, <1>8, IsWriter DEF CredentialInv, WritersOK, CallbackOK
  <2>2. ASSUME NEW q \in Requests PROVE RequestOK(q)'
    <3>1. CASE q = w
      BY <1>7, <1>8, <2>2, <3>1, SidesApart DEF RequestOK
    <3>2. CASE q # w
      <4>1. writer'[q] = writer[q] /\ RequestOK(q)
        BY <1>8, <2>2, <3>2, IsWriter DEF CredentialInv, WritersOK
      <4>2. writer[q].at \in {"open", "write"} => source'[writer[q].of].held = {q}
        BY <1>9, <3>2, <4>1 DEF RequestOK
      <4> QED
        BY <1>9, <4>1, <4>2 DEF RequestOK
    <3> QED
      BY <3>1, <3>2
  <2>3. \A g \in DOMAIN source' : source'[g].last[1] = source'[g].token[1]
    BY <1>9 DEF CredentialInv, WritersOK
  <2> QED
    BY <2>1, <2>2, <2>3 DEF WritersOK
<1>14. PassOK'
  <2>1. \A q \in Requests : writer[q].at = "away" => writer'[q].at = "away"
    BY <1>0, <1>8, IsWriter
  <2> QED
    BY <1>1, <2>1 DEF CredentialInv, PassOK
<1>15. KeptOK'
  <2> SUFFICES ASSUME unmixed' PROVE declared /\ StoringOK' /\ WritesOK' /\ AtRestOK' /\ InUseOK'
    BY <1>1 DEF KeptOK
  <2>1. unmixed /\ declared /\ StoringOK /\ WritesOK /\ AtRestOK /\ InUseOK
    BY <1>6 DEF CredentialInv, KeptOK
  <2>2. Writing(w) /\ writer[w].copy = shard /\ \A v \in Writers : Writing(v) => v = w
    BY <1>0, <2>1 DEF Writing, WritesOK
  <2>3. shard'.token = writer[w].token /\ shard'.record = shard.record
    BY <1>0, <1>3, <1>6, <2>2, HandShape, WrittenShape
  <2>4. WritesOK'
    BY <1>7, <1>8, <2>2 DEF Writing, WritesOK
  <2>5. CASE w \in Callbacks
    <3>1. Stores(w) /\ CallbackOK(w)
      BY <1>0, <2>5 DEF Stores, CredentialInv, WritersOK
    <3>2. /\ wired = 0 /\ newest[writer[w].of] = 1 /\ \A d \in Callbacks : Stores(d) => d = w
      BY <2>1, <2>5, <3>1 DEF StoringOK
    <3>3. shard'.token = {<<writer[w].of, 1>>}
      BY <1>0, <2>3, <3>1 DEF CallbackOK
    <3>4. writer'[w].at = "openRecord" /\ writer'[w].of = writer[w].of
      BY <1>7, <1>8, <2>5
    <3>5. \A d \in Callbacks : Stores(d)' => d = w
      BY <1>8, <3>2, IsWriter DEF Stores
    <3>6. StoringOK'
      BY <1>1, <3>2, <3>3, <3>4, <3>5 DEF StoringOK
    <3>7. AtRestOK'
      BY <2>5, <3>4 DEF AtRestOK, Stores
    <3>8. \A q \in Requests : writer'[q] = writer[q]
      BY <1>8, <2>5, SidesApart, IsWriter
    <3>9. InUseOK'
      BY <1>1, <2>1, <3>2, <3>8 DEF InUseOK
    <3> QED
      BY <2>1, <2>4, <3>6, <3>7, <3>9
  <2>6. CASE w \in Requests
    <3>1. RequestOK(w) /\ w \notin Callbacks /\ writer[w].of = wired
      BY <1>0, <2>1, <2>6, CredentialAssumption DEF CredentialInv, WritersOK, InUseOK
    <3>2. /\ wired \in DOMAIN source /\ wired # 0 /\ shard'.token = {source[wired].last}
          /\ source[wired].last[1] = source[wired].token[1] /\ source[wired].last \in Tokens
      <4>1. wired \in DOMAIN source /\ writer[w].token = {source[wired].last}
        BY <1>0, <3>1 DEF RequestOK
      <4> QED
        BY <1>0, <2>3, <4>1, SourceShape DEF CredentialInv, WritersOK
    <3>3. \A d \in Callbacks : ~Stores(d)
      BY <2>1, <3>2 DEF StoringOK
    <3>4. \A d \in Callbacks : ~Stores(d)'
      BY <1>8, <3>1, <3>3, IsWriter DEF Stores
    <3>5. PICK t0 \in Tokens : shard.token = {t0} /\ t0[1] = source[wired].token[1]
      BY <2>1, <3>2 DEF InUseOK
    <3>6. shard.record = {t0[1]}
      BY <2>1, <3>3, <3>5 DEF AtRestOK
    <3>7. AtRestOK'
      BY <1>1, <2>3, <3>2, <3>5, <3>6 DEF AtRestOK
    <3>8. \A q \in Requests : q # w => writer'[q] = writer[q]
      BY <1>8, IsWriter
    <3>9. writer'[w].at = "away"
      BY <1>7, <1>8, <3>1
    <3>10. InUseOK'
      <4>1. \A q \in Requests : writer'[q].at \in {"open", "write"} => writer'[q].of = wired'
        BY <1>1, <2>1, <3>8, <3>9 DEF InUseOK
      <4>2. source'[wired].token[2] = newest'[source'[wired].token[1]]
        BY <1>1, <1>9, <2>1, <3>2 DEF InUseOK
      <4>3. source'[wired].last # source'[wired].token =>
               \E q \in Requests : /\ writer'[q].at = "compare" /\ writer'[q].of = wired
                                   /\ writer'[q].token = {source'[wired].token}
        <5> SUFFICES ASSUME source[wired].last # source[wired].token
                     PROVE  \E q \in Requests : /\ writer'[q].at = "compare" /\ writer'[q].of = wired
                                                /\ writer'[q].token = {source[wired].token}
          BY <1>9, <3>2
        <5>1. PICK q \in Requests : /\ writer[q].at = "compare" /\ writer[q].of = wired
                                    /\ writer[q].token = {source[wired].token}
          BY <2>1, <3>2 DEF InUseOK
        <5> QED
          BY <1>0, <3>8, <5>1
      <4>4. source'[wired].last = source'[wired].token => shard'.token = {source'[wired].token}
        BY <1>9, <3>2
      <4>5. \E t \in Tokens : shard'.token = {t} /\ t[1] = source'[wired].token[1]
        BY <1>9, <3>2
      <4> QED
        BY <1>1, <4>1, <4>2, <4>3, <4>4, <4>5 DEF InUseOK
    <3> QED
      BY <2>1, <2>4, <3>4, <3>7, <3>10 DEF StoringOK
  <2> QED
    BY <2>5, <2>6 DEF Writers
<1> QED
  BY <1>10, <1>11, <1>12, <1>13, <1>14, <1>15 DEF CredentialInv

LEMMA MatchStep ==
  ASSUME CredentialInv, NEW r \in Requests, Match(r)
  PROVE  CredentialInv'
<1>0. ShapesOK /\ r \in Writers /\ r \notin Callbacks /\ writer[r] \in InHand
  BY IsWriter, HandShape, CredentialAssumption DEF CredentialInv
<1>1. /\ writer[r].at = "away" /\ wired # 0
      /\ writer' = [writer EXCEPT ![r].at = "token", ![r].of = wired]
      /\ UNCHANGED <<declared, shard, asked, pending, exchanged, newest, expired, source, wired, pass, owed, unmixed>>
  BY DEF Match, Wiring, Server
<1>2. wired \in DOMAIN source /\ wired \in Nat
  BY <1>0, <1>1, SourceShape DEF ShapesOK
<1>3. PICK x : x = [writer[r] EXCEPT !.at = "token", !.of = wired]
  OBVIOUS
<1>4. x \in InHand /\ x.at = "token" /\ x.of = wired /\ x.token = writer[r].token /\ x.copy = writer[r].copy
  BY <1>0, <1>2, <1>3 DEF InHand, WriterPlaces
<1>5. writer' = [writer EXCEPT ![r] = x]
  BY <1>1, <1>3
<1>6. /\ writer' \in [Writers -> InHand] /\ writer'[r] = x
      /\ \A v \in Writers \ {r} : writer'[v] = writer[v]
  BY <1>0, <1>4, <1>5, WriterChanges DEF ShapesOK
<1>7. ShapesOK'
  BY <1>0, <1>1, <1>6 DEF ShapesOK
<1>8. CodesOK'
  <2>1. \A d \in Callbacks, m \in Consents : Exchanging(d, m)' => Exchanging(d, m)
    BY <1>0, <1>6, SidesApart DEF Exchanging
  <2> QED
    BY <1>1, <2>1, CodesStay
<1>9. PassOK'
  BY <1>1 DEF CredentialInv, PassOK
<1>10. IssuedOK' /\ WritersOK' /\ KeptOK'
  BY <1>0, <1>1, <1>2, <1>4, <1>5, WriterMovesAside
<1> QED
  BY <1>7, <1>8, <1>9, <1>10 DEF CredentialInv

\* A request that has its token has nothing to store yet, and hides from
\* nobody whose token was refreshed.
LEMMA HasToken ==
  ASSUME CredentialInv, NEW r \in Requests, NEW t \in Tokens, writer[r].at = "token",
         t = source[writer[r].of].token,
         writer' = [writer EXCEPT ![r].at = "compare", ![r].token = {t}],
         UNCHANGED <<declared, shard, asked, pending, exchanged, newest, expired, source, wired, pass, owed, unmixed>>
  PROVE  CredentialInv'
<1>0. ShapesOK /\ r \in Writers /\ r \notin Callbacks /\ writer[r] \in InHand
  BY IsWriter, HandShape, CredentialAssumption DEF CredentialInv
<1>1. PICK x : x = [writer[r] EXCEPT !.at = "compare", !.token = {t}]
  OBVIOUS
<1>2. /\ x \in InHand /\ x.at = "compare" /\ x.of = writer[r].of /\ x.token = {t} /\ x.copy = writer[r].copy
  <2>1. {t} \in AtMostOne(Tokens) /\ "compare" \in WriterPlaces
    BY OneOf DEF WriterPlaces
  <2> QED
    BY <1>0, <1>1, <2>1 DEF InHand
<1>3. /\ writer' \in [Writers -> InHand] /\ writer'[r] = x
      /\ \A v \in Writers \ {r} : writer'[v] = writer[v]
  <2>1. writer' = [writer EXCEPT ![r] = x]
    BY <1>1
  <2> QED
    BY <1>0, <1>2, <2>1, WriterChanges DEF ShapesOK
<1>4. writer[r].of \in DOMAIN source /\ RequestOK(r)
  BY DEF CredentialInv, WritersOK, RequestOK
<1>5. ShapesOK' /\ PassOK'
  <2>1. ShapesOK'
    BY <1>0, <1>3 DEF ShapesOK
  <2>2. \A q \in Requests : writer[q].at = "away" => writer'[q].at = "away"
    BY <1>3, IsWriter
  <2> QED
    BY <2>1, <2>2 DEF CredentialInv, PassOK
<1>6. CodesOK'
  <2>1. \A d \in Callbacks, m \in Consents : Exchanging(d, m)' => Exchanging(d, m)
    BY <1>0, <1>3, SidesApart DEF Exchanging
  <2> QED
    BY <2>1, CodesStay
<1>7. IssuedOK'
  <2>1. Issued(t)
    BY <1>4 DEF CredentialInv, IssuedOK
  <2> QED
    BY <1>2, <1>3, <2>1 DEF CredentialInv, IssuedOK, Issued
<1>8. WritersOK'
  <2>1. \A d \in Callbacks : CallbackOK(d)'
    BY <1>0, <1>3, IsWriter, SidesApart DEF CredentialInv, WritersOK, CallbackOK
  <2>2. ASSUME NEW q \in Requests PROVE RequestOK(q)'
    <3>1. CASE q = r
      <4>1. /\ writer'[r].at = "compare" /\ writer'[r].of \in DOMAIN source' /\ writer'[r].token = {t}
            /\ t[1] = source'[writer'[r].of].token[1]
        BY <1>2, <1>3, <1>4
      <4> QED
        BY <3>1, <4>1 DEF RequestOK
    <3>2. CASE q # r
      <4>1. writer'[q] = writer[q] /\ RequestOK(q)
        BY <1>3, <3>2, IsWriter DEF CredentialInv, WritersOK
      <4> QED
        BY <4>1 DEF RequestOK
    <3> QED
      BY <3>1, <3>2
  <2> QED
    BY <2>1, <2>2 DEF CredentialInv, WritersOK
<1>9. KeptOK'
  <2> SUFFICES ASSUME unmixed, declared, StoringOK, WritesOK, AtRestOK, InUseOK
               PROVE  StoringOK' /\ WritesOK' /\ AtRestOK' /\ InUseOK'
    BY DEF CredentialInv, KeptOK
  <2>1. \A d \in Callbacks : writer'[d] = writer[d]
    BY <1>0, <1>3, SidesApart
  <2>2. \A q \in Requests : writer[q].at \in {"open", "write", "compare"} => writer'[q] = writer[q]
    BY <1>3, IsWriter
  <2>3. \A q \in Requests : writer'[q].at \in {"open", "write"} => writer'[q] = writer[q]
    BY <1>2, <1>3, IsWriter
  <2>4. \A v \in Writers : (Writing(v)' <=> Writing(v)) /\ (Writing(v) => writer'[v] = writer[v])
    BY <1>2, <1>3 DEF Writing
  <2>5. StoringOK' /\ AtRestOK'
    BY <2>1 DEF StoringOK, AtRestOK, Stores
  <2>6. WritesOK'
    BY <2>4 DEF WritesOK
  <2>7. InUseOK'
    BY <2>2, <2>3 DEF InUseOK, Persisting
  <2> QED
    BY <2>5, <2>6, <2>7
<1> QED
  BY <1>5, <1>6, <1>7, <1>8, <1>9 DEF CredentialInv

\* A refresh: the source holds a token newer than any there was of that
\* consent, and the request that asked for it will store it.
LEMMA Refreshed ==
  ASSUME CredentialInv, NEW r \in Requests, NEW g \in DOMAIN source, NEW n \in Consents, NEW k \in 1..MaxTurns,
         writer[r].at = "token", g = writer[r].of, n = source[g].token[1], k = newest[n] + 1, newest[n] # 0,
         source' = [source EXCEPT ![g].token = <<n, k>>],
         newest' = [newest EXCEPT ![n] = k], expired' = expired \ {n},
         writer' = [writer EXCEPT ![r].at = "compare", ![r].token = {<<n, k>>}],
         unmixed' = (unmixed /\ g = wired /\ pass = NoScan),
         UNCHANGED <<declared, shard, asked, pending, exchanged, wired, pass, owed>>
  PROVE  CredentialInv'
<1>0. ShapesOK /\ r \in Writers /\ r \notin Callbacks /\ writer[r] \in InHand
  BY IsWriter, HandShape, CredentialAssumption DEF CredentialInv
<1>1. PICK t \in Tokens : t = <<n, k>> /\ t[1] = n /\ t[2] = k
  <2>1. <<n, k>> \in Tokens
    BY DEF Tokens
  <2>2. <<n, k>>[1] = n /\ <<n, k>>[2] = k
    OBVIOUS
  <2> QED
    BY <2>1, <2>2
<1>2. PICK x : x = [writer[r] EXCEPT !.at = "compare", !.token = {t}]
  OBVIOUS
<1>3. /\ x \in InHand /\ x.at = "compare" /\ x.of = g /\ x.token = {t} /\ x.copy = writer[r].copy
  <2>1. {t} \in AtMostOne(Tokens) /\ "compare" \in WriterPlaces
    BY OneOf DEF WriterPlaces
  <2> QED
    BY <1>0, <1>2, <2>1 DEF InHand
<1>4. /\ writer' \in [Writers -> InHand] /\ writer'[r] = x
      /\ \A v \in Writers \ {r} : writer'[v] = writer[v]
  <2>1. writer' = [writer EXCEPT ![r] = x]
    BY <1>1, <1>2
  <2> QED
    BY <1>0, <1>3, <2>1, WriterChanges DEF ShapesOK
<1>5. /\ source' \in Seq(Refreshing) /\ DOMAIN source' = DOMAIN source
      /\ source'[g].token = t /\ source'[g].last = source[g].last /\ source'[g].held = source[g].held
      /\ \A h \in DOMAIN source \ {g} : source'[h] = source[h]
  <2>1. PICK y : y = [source[g] EXCEPT !.token = t]
    OBVIOUS
  <2>2. y \in Refreshing /\ y.token = t /\ y.last = source[g].last /\ y.held = source[g].held
    BY <1>0, <2>1, SourceShape DEF Refreshing
  <2>3. source' = [source EXCEPT ![g] = y]
    BY <1>1, <2>1
  <2>4. source' \in [DOMAIN source -> Refreshing]
    BY <1>0, <2>2, <2>3, SourceShape
  <2> QED
    BY <1>0, <2>2, <2>3, <2>4, SourceChanges
<1>6. /\ newest' \in [Consents -> 0..MaxTurns] /\ newest'[n] = k /\ newest[n] \in Nat /\ k \in Nat /\ MaxTurns \in Nat
      /\ \A m \in Consents \ {n} : newest'[m] = newest[m]
  BY <1>0, CredentialAssumption DEF ShapesOK
<1>7. ShapesOK'
  <2>1. expired' \subseteq Consents /\ unmixed' \in BOOLEAN
    BY <1>0 DEF ShapesOK
  <2> QED
    BY <1>0, <1>4, <1>5, <1>6, <2>1 DEF ShapesOK
<1>8. CodesOK'
  <2>1. \A d \in Callbacks, m \in Consents : Exchanging(d, m)' => Exchanging(d, m)
    BY <1>0, <1>4, SidesApart DEF Exchanging
  <2>2. exchanged[n] # 0
    BY DEF CredentialInv, CodesOK
  <2>3. \A m \in Consents : /\ exchanged[m] <= 1 /\ (exchanged[m] = 0 => newest'[m] = 0)
                            /\ m \in expired' => newest'[m] \in 1..(MaxTurns - 1)
    BY <1>6, <2>2 DEF CredentialInv, CodesOK
  <2>4. \A m \in Consents : /\ m \in pending => m <= asked /\ exchanged[m] = 0
                            /\ m > asked => exchanged[m] = 0
    BY DEF CredentialInv, CodesOK
  <2>5. \A m \in Consents, d \in Callbacks : Exchanging(d, m)' =>
             /\ m <= asked /\ m \notin pending /\ exchanged[m] = 0
             /\ \A e \in Callbacks : Exchanging(e, m)' => e = d
    BY <2>1 DEF CredentialInv, CodesOK
  <2> QED
    BY <2>3, <2>4, <2>5 DEF CodesOK
<1>9. PassOK'
  <2>2. \A q \in Requests : writer[q].at = "away" => writer'[q].at = "away"
    BY <1>4, IsWriter
  <2> QED
    BY <2>2 DEF CredentialInv, PassOK
<1>10. IssuedOK'
  <2>0. \A m \in Consents : newest[m] \in Nat
    BY <1>0, CredentialAssumption DEF ShapesOK
  <2>1. \A m \in Consents : newest[m] <= newest'[m]
    <3>1. k = newest[n] + 1 /\ newest[n] \in Nat
      BY <1>1, <1>6, Zenon
    <3>2. newest[n] <= k
      BY <3>1, SMT
    <3>3. newest[n] <= newest'[n]
      BY <1>6, <3>2, Zenon
    <3>4. ASSUME NEW m \in Consents \ {n} PROVE newest[m] <= newest'[m]
      <4>1. newest'[m] = newest[m]
        BY <1>6, Zenon
      <4>2. newest[m] <= newest[m]
        BY <2>0, SMT
      <4> QED
        BY <4>1, <4>2, Zenon
    <3> QED
      BY <3>3, <3>4, Zenon
  <2>2. \A u \in Tokens : Issued(u) => Issued(u)'
    BY <1>0, <1>7, <2>1, IssuedStays
  <2>3. Issued(t)'
    <3>0. k \in Nat
      BY <1>6
    <3>1. newest'[n] = k /\ k <= k
      <4>1. newest'[n] = k
        BY <1>6, Zenon
      <4>2. k <= k
        BY <3>0, SMT
      <4> QED
        BY <4>1, <4>2
    <3>2. t[1] = n /\ t[2] = k
      BY <1>1
    <3> QED
      BY <3>1, <3>2 DEF Issued
  <2>4. \A u \in shard'.token : Issued(u)'
    BY <1>0, <2>2, InTokens DEF CredentialInv, IssuedOK
  <2>5. \A v \in Writers : \A u \in writer'[v].token \cup writer'[v].copy.token : Issued(u)'
    BY <1>0, <1>3, <1>4, <2>2, <2>3, InTokens DEF CredentialInv, IssuedOK
  <2>6. \A h \in DOMAIN source' : Issued(source[h].token)' /\ Issued(source[h].last)'
    <3>1. \A h \in DOMAIN source : Issued(source[h].token) /\ Issued(source[h].last)
      BY DEF CredentialInv, IssuedOK
    <3>2. \A h \in DOMAIN source : source'[h].token \in {source[h].token, t} /\ source'[h].last = source[h].last
      BY <1>5
    <3>3. \A h \in DOMAIN source : source[h].token \in Tokens /\ source[h].last \in Tokens
      BY <1>0, SourceShape
    <3>4. ASSUME NEW h \in DOMAIN source' PROVE Issued(source[h].token)'
      <4>1. PICK u : u = source'[h].token
        OBVIOUS
      <4>2. u[2] <= newest'[u[1]]
        BY <1>5, <2>2, <2>3, <3>1, <3>2, <3>3, <3>4, <4>1 DEF Issued
      <4> QED
        BY <4>1, <4>2 DEF Issued
    <3>5. ASSUME NEW h \in DOMAIN source' PROVE Issued(source[h].last)'
      <4>1. PICK u : u = source'[h].last
        OBVIOUS
      <4>2. u[2] <= newest'[u[1]]
        BY <1>5, <2>2, <3>1, <3>2, <3>3, <3>5, <4>1 DEF Issued
      <4> QED
        BY <4>1, <4>2 DEF Issued
    <3> QED
      BY <3>4, <3>5
  <2> QED
    BY <2>4, <2>5, <2>6 DEF IssuedOK
<1>11. \A h \in DOMAIN source : /\ source'[h].token[1] = source[h].token[1] /\ source'[h].last = source[h].last
                                /\ source'[h].held = source[h].held
  BY <1>1, <1>5
<1>12. WritersOK'
  <2>1. \A d \in Callbacks : CallbackOK(d)'
    BY <1>0, <1>4, IsWriter, SidesApart DEF CredentialInv, WritersOK, CallbackOK
  <2>2. ASSUME NEW q \in Requests PROVE RequestOK(q)'
    <3>1. CASE q = r
      <4>1. /\ writer'[r].at = "compare" /\ writer'[r].of \in DOMAIN source' /\ writer'[r].token = {t}
            /\ t[1] = source'[writer'[r].of].token[1]
        BY <1>1, <1>3, <1>4, <1>5
      <4> QED
        BY <3>1, <4>1 DEF RequestOK
    <3>2. CASE q # r
      <4>1. writer'[q] = writer[q] /\ RequestOK(q)
        BY <1>4, <3>2, IsWriter DEF CredentialInv, WritersOK
      <4>2. writer[q].of \in DOMAIN source =>
               /\ source'[writer[q].of].token[1] = source[writer[q].of].token[1]
               /\ source'[writer[q].of].last = source[writer[q].of].last
               /\ source'[writer[q].of].held = source[writer[q].of].held
        BY <1>11
      <4>3. writer[q].at = "compare" =>
               \E u \in Tokens : writer'[q].token = {u} /\ u[1] = source'[writer'[q].of].token[1]
        <5>1. SUFFICES ASSUME writer[q].at = "compare"
                       PROVE  \E u \in Tokens : writer'[q].token = {u} /\ u[1] = source'[writer'[q].of].token[1]
          OBVIOUS
        <5>2. PICK u \in Tokens : writer[q].token = {u} /\ u[1] = source[writer[q].of].token[1]
          BY <4>1, <5>1 DEF RequestOK
        <5>3. writer[q].of \in DOMAIN source
          BY <4>1, <5>1 DEF RequestOK
        <5> QED
          BY <4>1, <4>2, <5>2, <5>3
      <4> QED
        BY <1>5, <4>1, <4>2, <4>3 DEF RequestOK
    <3> QED
      BY <3>1, <3>2
  <2>3. \A h \in DOMAIN source' : source'[h].last[1] = source'[h].token[1]
    <3>1. \A h \in DOMAIN source : source[h].last[1] = source[h].token[1]
      BY DEF CredentialInv, WritersOK
    <3>2. ASSUME NEW h \in DOMAIN source PROVE source'[h].last[1] = source'[h].token[1]
      <4>1. source'[h].last = source[h].last /\ source'[h].token[1] = source[h].token[1]
        BY <1>11
      <4>2. source[h].last[1] = source[h].token[1]
        BY <3>1
      <4> QED
        BY <4>1, <4>2
    <3>3. DOMAIN source' = DOMAIN source
      BY <1>5
    <3> QED
      BY <3>2, <3>3
  <2> QED
    BY <2>1, <2>2, <2>3 DEF WritersOK
<1>13. KeptOK'
  <2> SUFFICES ASSUME unmixed, g = wired, declared, StoringOK, WritesOK, AtRestOK, InUseOK
               PROVE  StoringOK' /\ WritesOK' /\ AtRestOK' /\ InUseOK'
    BY DEF CredentialInv, KeptOK
  <2>1. wired # 0
    BY <1>0, SourceShape
  <2>2. \A d \in Callbacks : writer'[d] = writer[d] /\ ~Stores(d)
    BY <1>0, <1>4, <2>1, SidesApart DEF StoringOK
  <2>3. \A q \in Requests : writer'[q].at \in {"open", "write"} => writer'[q] = writer[q]
    BY <1>3, <1>4, IsWriter
  <2>4. \A v \in Writers : (Writing(v)' <=> Writing(v)) /\ (Writing(v) => writer'[v] = writer[v])
    BY <1>3, <1>4 DEF Writing
  <2>5. StoringOK' /\ AtRestOK'
    BY <2>1, <2>2 DEF StoringOK, AtRestOK, Stores
  <2>6. WritesOK'
    BY <2>4 DEF WritesOK
  <2>7. source[wired].last # t
    <3>1. PICK u : u = source[wired].last /\ u \in Tokens
      BY <1>0, SourceShape
    <3>2. u[1] = n
      BY <3>1 DEF CredentialInv, WritersOK
    <3>3. u[2] <= newest[n]
      BY <3>1, <3>2 DEF CredentialInv, IssuedOK, Issued
    <3>4. u[2] \in Nat
      BY <3>1 DEF Tokens
    <3> QED
      BY <1>1, <1>6, <3>1, <3>3, <3>4
  <2>8. InUseOK'
    <3>1. source'[wired'].token = t /\ source'[wired'].last # t
      BY <1>5, <2>7
    <3>2. source'[wired'].token[2] = newest'[source'[wired'].token[1]]
      BY <1>1, <1>6, <3>1
    <3>3. \E u \in Tokens : shard'.token = {u} /\ u[1] = source'[wired'].token[1]
      BY <1>1, <2>1, <3>1 DEF InUseOK
    <3>4. writer'[r].at = "compare" /\ writer'[r].of = wired' /\ writer'[r].token = {source'[wired'].token}
      BY <1>3, <1>4, <3>1
    <3>5. \A q \in Requests : writer'[q].at \in {"open", "write"} => writer'[q].of = wired'
      BY <2>3 DEF InUseOK
    <3> QED
      BY <3>1, <3>2, <3>3, <3>4, <3>5 DEF InUseOK
  <2> QED
    BY <2>5, <2>6, <2>8
<1> QED
  BY <1>7, <1>8, <1>9, <1>10, <1>12, <1>13 DEF CredentialInv

LEMMA TokenStep ==
  ASSUME CredentialInv, NEW r \in Requests, Token(r)
  PROVE  CredentialInv'
<1>0. ShapesOK /\ r \in Writers /\ r \notin Callbacks /\ writer[r].at = "token"
  BY IsWriter, CredentialAssumption DEF CredentialInv, Token
<1>1. PICK g \in DOMAIN source : g = writer[r].of
  BY <1>0 DEF CredentialInv, WritersOK, RequestOK
<1>2. PICK t \in Tokens : t = source[g].token
  BY <1>0, SourceShape
<1>3. PICK n \in Consents : n = t[1]
  BY DEF Tokens
<1>4. UNCHANGED <<declared, shard, asked, pending, exchanged, wired, pass, owed>>
  BY DEF Token
<1>5. CASE /\ writer' = [writer EXCEPT ![r].at = "compare", ![r].token = {t}]
           /\ UNCHANGED <<source, newest, expired, unmixed>>
  BY <1>0, <1>1, <1>2, <1>4, <1>5, HasToken
<1>6. CASE Leaves(r) /\ UNCHANGED <<source, newest, expired, unmixed>>
  <2>1. writer' = [writer EXCEPT ![r] = Away]
    BY <1>6 DEF Leaves
  <2>2. /\ writer' \in [Writers -> InHand] /\ writer'[r] = Away
        /\ \A v \in Writers \ {r} : writer'[v] = writer[v]
    BY <1>0, <2>1, AwayShape, WriterChanges DEF ShapesOK
  <2>3. ShapesOK'
    BY <1>0, <1>4, <1>6, <2>2 DEF ShapesOK
  <2>4. CodesOK'
    <3>1. \A d \in Callbacks, m \in Consents : Exchanging(d, m)' => Exchanging(d, m)
      BY <1>0, <2>2, SidesApart DEF Exchanging
    <3> QED
      BY <1>4, <1>6, <3>1, CodesStay
  <2>5. PassOK'
    <3>1. \A q \in Requests : writer[q].at = "away" => writer'[q].at = "away"
      BY <2>2, AwayShape, IsWriter
    <3> QED
      BY <1>4, <3>1 DEF CredentialInv, PassOK
  <2>6. IssuedOK' /\ WritersOK' /\ KeptOK'
    BY <1>0, <1>4, <1>6, <2>1, AwayShape, WriterMovesAside
  <2> QED
    BY <2>3, <2>4, <2>5, <2>6 DEF CredentialInv
<1>7. CASE /\ ~Valid(t) /\ t[2] = newest[n]
           /\ source' = [source EXCEPT ![g].token = <<n, newest[n] + 1>>]
           /\ newest' = [newest EXCEPT ![n] = newest[n] + 1] /\ expired' = expired \ {n}
           /\ writer' = [writer EXCEPT ![r].at = "compare", ![r].token = {<<n, newest[n] + 1>>}]
           /\ unmixed' = (unmixed /\ g = wired /\ pass = NoScan)
  <2>1. n \in expired
    BY <1>3, <1>7 DEF Valid
  <2>2. newest[n] \in 1..(MaxTurns - 1) /\ MaxTurns \in Nat
    BY <2>1, CredentialAssumption DEF CredentialInv, CodesOK
  <2>3. PICK k \in 1..MaxTurns : k = newest[n] + 1 /\ newest[n] # 0
    BY <2>2
  <2> QED
    BY <1>0, <1>1, <1>2, <1>3, <1>4, <1>7, <2>3, Refreshed
<1> QED
  BY <1>1, <1>2, <1>3, <1>5, <1>6, <1>7 DEF Token

LEMMA CompareStep ==
  ASSUME CredentialInv, NEW r \in Requests, Compare(r)
  PROVE  CredentialInv'
<1>0. /\ ShapesOK /\ r \in Writers /\ r \notin Callbacks /\ writer[r] \in InHand
      /\ writer[r].at = "compare" /\ RequestOK(r)
  BY IsWriter, HandShape, CredentialAssumption DEF CredentialInv, Compare, Compared, WritersOK
<1>1. PICK g \in DOMAIN source : g = writer[r].of
  BY <1>0 DEF RequestOK
<1>2. PICK t \in Tokens : writer[r].token = {t} /\ t[1] = source[g].token[1]
  BY <1>0, <1>1 DEF RequestOK
<1>3. UNCHANGED <<declared, shard, asked, pending, exchanged, newest, expired, wired, pass, owed>>
  BY DEF Compare, Compared, Server
<1>4. /\ source[g].held = {}
      /\ IF t = source[g].last THEN Leaves(r) /\ UNCHANGED <<source, unmixed>> ELSE Persists(r, t, g)
  BY <1>1, <1>2 DEF Compare, Compared
<1>5. CASE t = source[g].last
  <2>1. /\ writer' \in [Writers -> InHand] /\ writer'[r] = Away
        /\ \A v \in Writers \ {r} : writer'[v] = writer[v]
    <3>1. writer' = [writer EXCEPT ![r] = Away]
      BY <1>4, <1>5 DEF Leaves
    <3> QED
      BY <1>0, <3>1, AwayShape, WriterChanges DEF ShapesOK
  <2>2. UNCHANGED <<source, unmixed>>
    BY <1>4, <1>5
  <2>3. ShapesOK'
    BY <1>0, <1>3, <2>1, <2>2 DEF ShapesOK
  <2>4. CodesOK'
    <3>1. \A d \in Callbacks, m \in Consents : Exchanging(d, m)' => Exchanging(d, m)
      BY <1>0, <2>1, SidesApart DEF Exchanging
    <3> QED
      BY <1>3, <3>1, CodesStay
  <2>5. PassOK'
    <3>1. \A q \in Requests : writer[q].at = "away" => writer'[q].at = "away"
      BY <2>1, AwayShape, IsWriter
    <3> QED
      BY <1>3, <3>1 DEF CredentialInv, PassOK
  <2>6. IssuedOK'
    BY <1>3, <2>1, <2>2, AwayShape DEF CredentialInv, IssuedOK, Issued
  <2>7. WritersOK'
    <3>1. \A d \in Callbacks : CallbackOK(d)'
      BY <1>0, <2>1, IsWriter, SidesApart DEF CredentialInv, WritersOK, CallbackOK
    <3>2. \A q \in Requests : RequestOK(q)'
      BY <2>1, <2>2, AwayShape, IsWriter DEF CredentialInv, WritersOK, RequestOK
    <3> QED
      BY <2>2, <3>1, <3>2 DEF CredentialInv, WritersOK
  <2>8. KeptOK'
    <3> SUFFICES ASSUME unmixed, declared, StoringOK, WritesOK, AtRestOK, InUseOK
                 PROVE  StoringOK' /\ WritesOK' /\ AtRestOK' /\ InUseOK'
      BY <1>3, <2>2 DEF CredentialInv, KeptOK
    <3>1. \A d \in Callbacks : writer'[d] = writer[d]
      BY <1>0, <2>1, SidesApart
    <3>2. \A q \in Requests : (writer[q].at \in {"open", "write"} \/ writer'[q].at \in {"open", "write"})
                                 => writer'[q] = writer[q]
      BY <1>0, <2>1, AwayShape, IsWriter
    <3>3. \A v \in Writers : (Writing(v)' <=> Writing(v)) /\ (Writing(v) => writer'[v] = writer[v])
      BY <1>0, <2>1, AwayShape DEF Writing
    <3>4. StoringOK' /\ AtRestOK'
      BY <1>3, <3>1 DEF StoringOK, AtRestOK, Stores
    <3>5. WritesOK'
      BY <1>3, <3>3 DEF WritesOK
    <3>6. InUseOK'
      <4>1. \A q \in Requests : writer'[q].at \in {"open", "write"} => writer'[q].of = wired
        BY <3>2 DEF InUseOK
      <4>2. ASSUME wired # 0, source[wired].last # source[wired].token
            PROVE  \E q \in Requests : /\ writer'[q].at = "compare" /\ writer'[q].of = wired
                                       /\ writer'[q].token = {source[wired].token}
        <5>1. PICK q \in Requests : /\ writer[q].at = "compare" /\ writer[q].of = wired
                                    /\ writer[q].token = {source[wired].token}
          BY <4>2 DEF InUseOK
        <5>2. q # r
          BY <1>1, <1>2, <1>5, <4>2, <5>1
        <5> QED
          BY <2>1, <5>1, <5>2, IsWriter
      <4>3. ASSUME wired # 0, source[wired].last = source[wired].token
            PROVE  shard.token = {source[wired].token} \/ \E q \in Requests : Persisting(q)'
        <5>1. shard.token = {source[wired].token} \/ \E q \in Requests : Persisting(q)
          BY <4>3 DEF InUseOK
        <5>2. \A q \in Requests : Persisting(q) => Persisting(q)'
          BY <1>3, <3>2 DEF Persisting
        <5> QED
          BY <5>1, <5>2
      <4>4. wired # 0 => /\ source[wired].token[2] = newest[source[wired].token[1]]
                         /\ \E u \in Tokens : shard.token = {u} /\ u[1] = source[wired].token[1]
        BY DEF InUseOK
      <4> QED
        BY <1>3, <2>2, <4>1, <4>2, <4>3, <4>4 DEF InUseOK
    <3> QED
      BY <3>4, <3>5, <3>6
  <2> QED
    BY <2>3, <2>4, <2>5, <2>6, <2>7, <2>8 DEF CredentialInv
<1>6. CASE t # source[g].last
  <2>1. /\ source' = [source EXCEPT ![g].last = t, ![g].held = {r}]
        /\ writer' = [writer EXCEPT ![r].at = "open"]
        /\ unmixed' = (unmixed /\ t = source[g].token /\ g = wired /\ pass = NoScan)
    BY <1>4, <1>6 DEF Persists, Moves
  <2>2. PICK x : x = [writer[r] EXCEPT !.at = "open"]
    OBVIOUS
  <2>3. x \in InHand /\ x.at = "open" /\ x.of = g /\ x.token = {t} /\ x.copy = writer[r].copy
    <3>1. "open" \in WriterPlaces
      BY DEF WriterPlaces
    <3> QED
      BY <1>0, <1>1, <1>2, <2>2, <3>1 DEF InHand
  <2>4. /\ writer' \in [Writers -> InHand] /\ writer'[r] = x
        /\ \A v \in Writers \ {r} : writer'[v] = writer[v]
    <3>1. writer' = [writer EXCEPT ![r] = x]
      BY <2>1, <2>2
    <3> QED
      BY <1>0, <2>3, <3>1, WriterChanges DEF ShapesOK
  <2>5. /\ source' \in Seq(Refreshing) /\ DOMAIN source' = DOMAIN source
        /\ source'[g].token = source[g].token /\ source'[g].last = t /\ source'[g].held = {r}
        /\ \A h \in DOMAIN source \ {g} : source'[h] = source[h]
    <3>1. PICK y : y = [source[g] EXCEPT !.last = t, !.held = {r}]
      OBVIOUS
    <3>2. source[g] \in Refreshing /\ {r} \in SUBSET Requests
      BY <1>0, SourceShape
    <3>3. y \in Refreshing /\ y.token = source[g].token /\ y.last = t /\ y.held = {r}
      BY <3>1, <3>2 DEF Refreshing
    <3>4. source' = [source EXCEPT ![g] = y]
      BY <2>1, <3>1
    <3>5. source' \in [DOMAIN source -> Refreshing]
      BY <1>0, <3>3, <3>4, SourceShape
    <3> QED
      BY <1>0, <3>3, <3>4, <3>5, SourceChanges
  <2>6. ShapesOK'
    <3>1. unmixed' \in BOOLEAN
      BY <1>0, <2>1 DEF ShapesOK
    <3> QED
      BY <1>0, <1>3, <2>4, <2>5, <3>1 DEF ShapesOK
  <2>7. CodesOK'
    <3>1. \A d \in Callbacks, m \in Consents : Exchanging(d, m)' => Exchanging(d, m)
      BY <1>0, <2>4, SidesApart DEF Exchanging
    <3> QED
      BY <1>3, <3>1, CodesStay
  <2>8. PassOK'
    <3>1. \A q \in Requests : writer[q].at = "away" => writer'[q].at = "away"
      BY <1>0, <2>4, IsWriter
    <3> QED
      BY <1>3, <3>1 DEF CredentialInv, PassOK
  <2>9. IssuedOK'
    <3>1. Issued(t)
      BY <1>0, <1>2 DEF CredentialInv, IssuedOK
    <3>2. \A u : Issued(u)' <=> Issued(u)
      BY <1>3 DEF Issued
    <3>3. \A v \in Writers : writer'[v].token = writer[v].token /\ writer'[v].copy = writer[v].copy
      BY <1>2, <2>3, <2>4
    <3>4. \A h \in DOMAIN source : source'[h].token = source[h].token /\ source'[h].last \in {source[h].last, t}
      BY <2>5
    <3>5. /\ \A u \in shard.token : u[2] <= newest[u[1]]
          /\ \A v \in Writers : \A u \in writer[v].token \cup writer[v].copy.token : u[2] <= newest[u[1]]
          /\ \A h \in DOMAIN source : /\ source[h].token[2] <= newest[source[h].token[1]]
                                      /\ source[h].last[2] <= newest[source[h].last[1]]
          /\ t[2] <= newest[t[1]]
      BY <3>1 DEF CredentialInv, IssuedOK, Issued
    <3> QED
      BY <1>3, <2>5, <3>3, <3>4, <3>5 DEF IssuedOK, Issued
  <2>10. WritersOK'
    <3>1. \A d \in Callbacks : CallbackOK(d)'
      BY <1>0, <2>4, IsWriter, SidesApart DEF CredentialInv, WritersOK, CallbackOK
    <3>2. ASSUME NEW q \in Requests PROVE RequestOK(q)'
      <4>1. CASE q = r
        <5>1. /\ writer'[r].at = "open" /\ writer'[r].of \in DOMAIN source'
              /\ writer'[r].token = {source'[writer'[r].of].last} /\ source'[writer'[r].of].held = {r}
          BY <2>3, <2>4, <2>5
        <5> QED
          BY <4>1, <5>1 DEF RequestOK
      <4>2. CASE q # r
        <5>1. writer'[q] = writer[q] /\ RequestOK(q)
          BY <2>4, <4>2, IsWriter DEF CredentialInv, WritersOK
        <5>2. writer[q].at \in {"open", "write"} => source'[writer[q].of] = source[writer[q].of]
          BY <1>4, <2>5, <5>1 DEF RequestOK
        <5>3. writer[q].of \in DOMAIN source => source'[writer[q].of].token = source[writer[q].of].token
          BY <2>5
        <5> QED
          BY <2>5, <5>1, <5>2, <5>3 DEF RequestOK
      <4> QED
        BY <4>1, <4>2
    <3>3. ASSUME NEW h \in DOMAIN source PROVE source'[h].last[1] = source'[h].token[1]
      <4>1. source[h].last[1] = source[h].token[1]
        BY DEF CredentialInv, WritersOK
      <4> QED
        BY <1>2, <2>5, <4>1
    <3>4. DOMAIN source' = DOMAIN source
      BY <2>5
    <3> QED
      BY <3>1, <3>2, <3>3, <3>4 DEF WritersOK
  <2>11. KeptOK'
    <3> SUFFICES ASSUME unmixed, t = source[g].token, g = wired, declared,
                        StoringOK, WritesOK, AtRestOK, InUseOK
                 PROVE  StoringOK' /\ WritesOK' /\ AtRestOK' /\ InUseOK'
      BY <1>3, <2>1 DEF CredentialInv, KeptOK
    <3>1. \A d \in Callbacks : writer'[d] = writer[d]
      BY <1>0, <2>4, SidesApart
    <3>2. \A v \in Writers : (Writing(v)' <=> Writing(v)) /\ (Writing(v) => writer'[v] = writer[v])
      BY <1>0, <2>3, <2>4 DEF Writing
    <3>3. StoringOK' /\ AtRestOK'
      BY <1>3, <3>1 DEF StoringOK, AtRestOK, Stores
    <3>4. WritesOK'
      BY <1>3, <3>2 DEF WritesOK
    <3>5. Persisting(r)'
      BY <1>3, <2>3, <2>4 DEF Persisting
    <3>6. InUseOK'
      <4>1. \A q \in Requests : writer'[q].at \in {"open", "write"} => writer'[q].of = wired
        BY <2>3, <2>4, IsWriter DEF InUseOK
      <4>2. source'[wired].token = source[wired].token /\ source'[wired].last = source[wired].token
        BY <2>5
      <4>3. wired # 0 => /\ source[wired].token[2] = newest[source[wired].token[1]]
                         /\ \E u \in Tokens : shard.token = {u} /\ u[1] = source[wired].token[1]
        BY DEF InUseOK
      <4> QED
        BY <1>3, <3>5, <4>1, <4>2, <4>3 DEF InUseOK
    <3> QED
      BY <3>3, <3>4, <3>6
  <2> QED
    BY <2>6, <2>7, <2>8, <2>9, <2>10, <2>11 DEF CredentialInv
<1> QED
  BY <1>5, <1>6

\* While nobody stores and no refreshed token is on its way, what is on disk
\* is the newest token and its record.
LEMMA NobodyStores ==
  ASSUME CredentialInv, unmixed, declared, \A w \in Writers : writer[w].at \in {"away", "exchange", "token"}
  PROVE  \A t \in shard.token : shard.record = {t[1]} /\ t[2] = newest[t[1]]
<1>1. AtRestOK /\ InUseOK
  BY DEF CredentialInv, KeptOK
<1>2. \A c \in Callbacks : ~Stores(c)
  BY IsWriter DEF Stores
<1>3. \A q \in Requests : ~Persisting(q) /\ writer[q].at # "compare"
  BY IsWriter DEF Persisting
<1>4. CASE wired = 0
  BY <1>1, <1>2, <1>4 DEF AtRestOK
<1>5. CASE wired # 0
  <2>1. shard.token = {source[wired].token} /\ source[wired].token[2] = newest[source[wired].token[1]]
    BY <1>1, <1>3, <1>5 DEF InUseOK
  <2> QED
    BY <1>1, <1>2, <2>1 DEF AtRestOK
<1> QED
  BY <1>4, <1>5

LEMMA WireStep == ASSUME CredentialInv, Wire PROVE CredentialInv'
<1>0. /\ ShapesOK /\ pass.at = "token" /\ Len(source) < MaxPasses /\ MaxPasses \in Nat
      /\ pass'.at = "bind" /\ pass'.saw = pass.saw /\ pass'.record = pass.record
      /\ UNCHANGED <<declared, shard, asked, pending, exchanged, newest, expired, writer, owed>>
  BY CredentialAssumption DEF CredentialInv, Wire, Server
<1>1. CodesOK'
  <2>1. \A d \in Callbacks, m \in Consents : Exchanging(d, m)' => Exchanging(d, m)
    BY <1>0 DEF Exchanging
  <2> QED
    BY <1>0, <2>1, CodesStay
<1>2. CASE UNCHANGED <<source, wired, unmixed>>
  <2>1. ShapesOK'
    BY <1>0, <1>2 DEF ShapesOK
  <2>2. PassOK'
    BY <1>0, <1>2 DEF CredentialInv, PassOK
  <2> QED
    BY <1>0, <1>1, <1>2, <2>1, <2>2, NothingStored DEF CredentialInv
<1>3. ASSUME NEW t \in shard.token, NEW n \in pass.record,
             source' = Append(source, [record |-> n, token |-> t, last |-> t, held |-> {}]),
             wired' = Len(source'),
             unmixed' = (unmixed /\ \A w \in DOMAIN writer : writer[w] = Away)
      PROVE  CredentialInv'
  <2>1. t \in Tokens /\ n \in Consents /\ shard.token = {t}
    <3>1. shard.token \in AtMostOne(Tokens) /\ pass.record \in AtMostOne(Consents)
      BY <1>0 DEF ShapesOK, Shards
    <3> QED
      BY <3>1 DEF AtMostOne
  <2>2. PICK y \in Refreshing : y = [record |-> n, token |-> t, last |-> t, held |-> {}]
    BY <2>1 DEF Refreshing
  <2>3. y.token = t /\ y.last = t /\ y.held = {}
    BY <2>2
  <2>4. PICK k \in Nat : k = Len(source) /\ DOMAIN source = 1..k
    BY <1>0, SourceShape
  <2>5. /\ source' = Append(source, y) /\ source \in Seq(Refreshing)
    BY <1>0, <1>3, <2>2 DEF ShapesOK
  <2>6. /\ source' \in Seq(Refreshing) /\ Len(source') = k + 1 /\ source'[k + 1] = y
        /\ \A g \in DOMAIN source : source'[g] = source[g]
    BY <2>4, <2>5
  <2>7. DOMAIN source' = 1..(k + 1) /\ wired' = k + 1
    BY <1>3, <2>6, LenProperties
  <2>8. ShapesOK'
    <3>1. DOMAIN source' \subseteq Sources /\ wired' \in DOMAIN source'
      BY <1>0, <2>4, <2>7 DEF Sources
    <3>2. unmixed' \in BOOLEAN
      BY <1>0, <1>3 DEF ShapesOK
    <3> QED
      BY <1>0, <2>6, <3>1, <3>2 DEF ShapesOK
  <2>9. \A g \in DOMAIN source' : g \in DOMAIN source \/ g = k + 1
    BY <2>4, <2>7
  <2>10. IssuedOK'
    <3>1. t[2] <= newest[t[1]]
      BY DEF CredentialInv, IssuedOK, Issued
    <3>2. /\ \A u \in shard.token : u[2] <= newest[u[1]]
          /\ \A v \in Writers : \A u \in writer[v].token \cup writer[v].copy.token : u[2] <= newest[u[1]]
          /\ \A h \in DOMAIN source : /\ source[h].token[2] <= newest[source[h].token[1]]
                                      /\ source[h].last[2] <= newest[source[h].last[1]]
      BY DEF CredentialInv, IssuedOK, Issued
    <3>3. ASSUME NEW h \in DOMAIN source'
          PROVE  /\ source'[h].token[2] <= newest[source'[h].token[1]]
                 /\ source'[h].last[2] <= newest[source'[h].last[1]]
      <4>1. CASE h \in DOMAIN source
        <5>1. source'[h] = source[h]
          BY <2>6, <4>1
        <5> QED
          BY <3>2, <4>1, <5>1
      <4>2. CASE h = k + 1
        BY <2>3, <2>6, <3>1, <4>2
      <4> QED
        BY <2>9, <4>1, <4>2
    <3> QED
      BY <1>0, <3>2, <3>3 DEF IssuedOK, Issued
  <2>11. WritersOK'
    <3>1. \A d \in Callbacks : CallbackOK(d)'
      BY <1>0 DEF CredentialInv, WritersOK, CallbackOK
    <3>2. ASSUME NEW q \in Requests PROVE RequestOK(q)'
      <4>1. RequestOK(q) /\ writer' = writer
        BY <1>0 DEF CredentialInv, WritersOK
      <4>2. writer[q].of \in DOMAIN source => /\ source'[writer[q].of] = source[writer[q].of]
                                              /\ writer[q].of \in DOMAIN source'
        BY <2>4, <2>6, <2>7
      <4> QED
        BY <4>1, <4>2 DEF RequestOK
    <3>3. ASSUME NEW h \in DOMAIN source' PROVE source'[h].last[1] = source'[h].token[1]
      <4>1. CASE h \in DOMAIN source
        <5>1. source'[h] = source[h]
          BY <2>6, <4>1
        <5>2. source[h].last[1] = source[h].token[1]
          BY <4>1 DEF CredentialInv, WritersOK
        <5> QED
          BY <5>1, <5>2
      <4>2. CASE h = k + 1
        BY <2>3, <2>6, <4>2
      <4> QED
        BY <2>9, <4>1, <4>2
    <3> QED
      BY <3>1, <3>2, <3>3 DEF WritersOK
  <2>12. PassOK'
    BY <1>0, <2>4, <2>7 DEF CredentialInv, PassOK
  <2>13. KeptOK'
    <3>1. ASSUME unmixed', ~declared PROVE shard' = BareShard
      BY <1>0, <1>3, <3>1 DEF CredentialInv, KeptOK
    <3>2. ASSUME unmixed', declared PROVE StoringOK' /\ WritesOK' /\ AtRestOK' /\ InUseOK'
      <4>1. unmixed /\ \A w \in Writers : writer[w].at = "away"
        BY <1>0, <1>3, <3>2, AwayShape DEF ShapesOK
      <4>2. \A u \in shard.token : shard.record = {u[1]} /\ u[2] = newest[u[1]]
        BY <3>2, <4>1, NobodyStores
      <4>3. StoringOK' /\ WritesOK'
        BY <1>0, <4>1, IsWriter DEF StoringOK, WritesOK, Stores, Writing
      <4>4. AtRestOK'
        BY <1>0, <4>2 DEF AtRestOK
      <4>5. InUseOK'
        <5>1. source'[wired'].token = t /\ source'[wired'].last = t
          BY <2>3, <2>6, <2>7
        <5>2. t[2] = newest[t[1]]
          BY <4>2
        <5>3. \A q \in Requests : writer[q].at = "away"
          BY <4>1, IsWriter
        <5> QED
          BY <1>0, <2>1, <5>1, <5>2, <5>3 DEF InUseOK
      <4> QED
        BY <4>3, <4>4, <4>5
    <3> QED
      BY <1>0, <3>1, <3>2 DEF KeptOK
  <2> QED
    BY <1>1, <2>8, <2>10, <2>11, <2>12, <2>13 DEF CredentialInv
<1> QED
  BY <1>2, <1>3 DEF Wire

LEMMA RemoveExtensionStep == ASSUME CredentialInv, RemoveExtension PROVE CredentialInv'
<1>1. /\ declared' = FALSE /\ shard' = BareShard /\ owed' = TRUE
      /\ UNCHANGED <<asked, pending, exchanged, newest, expired, source, wired, pass, writer, unmixed>>
  BY DEF RemoveExtension, Server, Wiring
<1>2. ShapesOK'
  BY <1>1, AwayShape DEF CredentialInv, ShapesOK
<1>3. CodesOK'
  BY <1>1 DEF CredentialInv, CodesOK, Exchanging
<1>4. IssuedOK'
  BY <1>1 DEF CredentialInv, IssuedOK, Issued, BareShard, Missing
<1>5. WritersOK'
  BY <1>1 DEF CredentialInv, WritersOK, CallbackOK, RequestOK
<1>6. PassOK' /\ KeptOK'
  BY <1>1 DEF PassOK, KeptOK
<1> QED
  BY <1>2, <1>3, <1>4, <1>5, <1>6 DEF CredentialInv

\* What a restart finds is what was on disk.
LEMMA HaltStep == ASSUME CredentialInv, Halt PROVE CredentialInv'
<1>1. /\ pending' = {} /\ wired' = 0 /\ source' = <<>>
      /\ pass' = [at |-> "record", saw |-> declared, record |-> Missing]
      /\ writer' = [w \in DOMAIN writer |-> Away] /\ owed' = FALSE
      /\ unmixed' = (unmixed /\ \A w \in DOMAIN writer : writer[w].at \in {"away", "exchange", "token"})
      /\ UNCHANGED <<declared, shard, asked, exchanged, newest, expired>>
  BY DEF Halt
<1>2. ShapesOK /\ DOMAIN writer = Writers
  BY DEF CredentialInv, ShapesOK
<1>3. writer' \in [Writers -> InHand] /\ \A w \in Writers : writer'[w] = Away
  BY <1>1, <1>2, AwayShape
<1>4. source' \in Seq(Refreshing) /\ DOMAIN source' = {}
  BY <1>1, EmptySeq
<1>5. ShapesOK'
  BY <1>1, <1>2, <1>3, <1>4 DEF ShapesOK, AtMostOne, Missing
<1>6. CodesOK'
  <2>1. \A d \in Callbacks, m \in Consents : ~Exchanging(d, m)'
    BY <1>3, AwayShape, IsWriter DEF Exchanging
  <2> QED
    BY <1>1, <2>1 DEF CredentialInv, CodesOK
<1>7. IssuedOK'
  BY <1>1, <1>3, <1>4, AwayShape DEF CredentialInv, IssuedOK, Issued
<1>8. WritersOK'
  BY <1>3, <1>4, AwayShape, IsWriter DEF WritersOK, CallbackOK, RequestOK
<1>9. PassOK'
  BY <1>1, <1>3, AwayShape, IsWriter DEF PassOK
<1>10. KeptOK'
  <2>1. ASSUME unmixed', ~declared PROVE shard' = BareShard
    BY <1>1, <2>1 DEF CredentialInv, KeptOK
  <2>2. ASSUME unmixed', declared PROVE StoringOK' /\ WritesOK' /\ AtRestOK' /\ InUseOK'
    <3>1. \A t \in shard.token : shard.record = {t[1]} /\ t[2] = newest[t[1]]
      BY <1>1, <1>2, <2>2, NobodyStores
    <3>2. StoringOK' /\ WritesOK'
      BY <1>3, AwayShape, IsWriter DEF StoringOK, WritesOK, Stores, Writing
    <3>3. AtRestOK'
      BY <1>1, <3>1 DEF AtRestOK
    <3>4. InUseOK'
      BY <1>1, <1>3, AwayShape, IsWriter DEF InUseOK
    <3> QED
      BY <3>2, <3>3, <3>4
  <2> QED
    BY <1>1, <2>1, <2>2 DEF KeptOK
<1> QED
  BY <1>5, <1>6, <1>7, <1>8, <1>9, <1>10 DEF CredentialInv

LEMMA CredentialStarts == CredentialInit => CredentialInv
<1> SUFFICES ASSUME CredentialInit PROVE CredentialInv
  OBVIOUS
<1>1. writer \in [Writers -> InHand] /\ \A w \in Writers : writer[w] = Away
  BY AwayShape DEF CredentialInit, Writers
<1>2. source \in Seq(Refreshing) /\ DOMAIN source = {}
  BY EmptySeq DEF CredentialInit
<1>3. \A n \in Consents : n \in Nat
  BY DEF Consents
<1>4. ShapesOK
  <2>1. MaxConsents \in Nat /\ MaxTurns \in Nat
    BY CredentialAssumption
  <2>2. exchanged \in [Consents -> Nat] /\ newest \in [Consents -> 0..MaxTurns] /\ asked \in 0..MaxConsents
    BY <2>1 DEF CredentialInit
  <2>3. /\ pass.at \in {"none", "record", "token", "bind"} /\ pass.record \in AtMostOne(Consents)
        /\ shard \in Shards /\ {declared, owed, unmixed} \subseteq BOOLEAN
    BY AwayShape DEF CredentialInit, NoScan, AtMostOne, Missing
  <2>4. pending \subseteq Consents /\ expired \subseteq Consents /\ wired = 0
    BY DEF CredentialInit
  <2> QED
    BY <1>1, <1>2, <2>2, <2>3, <2>4 DEF ShapesOK
<1>5. CodesOK
  <2>1. \A d \in Callbacks, m \in Consents : ~Exchanging(d, m)
    BY <1>1, AwayShape, IsWriter DEF Exchanging
  <2> QED
    BY <1>3, <2>1 DEF CredentialInit, CodesOK
<1>6. IssuedOK
  BY <1>1, <1>2, AwayShape DEF CredentialInit, IssuedOK, BareShard, Missing
<1>7. WritersOK
  BY <1>1, <1>2, AwayShape, IsWriter DEF WritersOK, CallbackOK, RequestOK
<1>8. PassOK
  BY <1>1, AwayShape, IsWriter DEF CredentialInit, PassOK, NoScan
<1>9. KeptOK
  BY <1>1, AwayShape, IsWriter DEF CredentialInit, KeptOK, StoringOK, WritesOK, AtRestOK, InUseOK, Stores,
                                   Writing, BareShard, Missing
<1> QED
  BY <1>4, <1>5, <1>6, <1>7, <1>8, <1>9 DEF CredentialInv

LEMMA CredentialStep == CredentialInv /\ [CredentialNext]_credentialVars => CredentialInv'
<1> SUFFICES ASSUME CredentialInv, [CredentialNext]_credentialVars PROVE CredentialInv'
  OBVIOUS
<1>1. CASE UNCHANGED credentialVars
  <2> USE <1>1 DEF credentialVars
  <2>1. ShapesOK'
    BY DEF CredentialInv, ShapesOK
  <2>2. CodesOK' /\ IssuedOK'
    BY DEF CredentialInv, CodesOK, Exchanging, IssuedOK, Issued
  <2>3. WritersOK' /\ PassOK'
    BY DEF CredentialInv, WritersOK, CallbackOK, RequestOK, PassOK
  <2>4. StoringOK = StoringOK' /\ WritesOK = WritesOK'
    BY DEF StoringOK, WritesOK, Stores, Writing
  <2>5. AtRestOK = AtRestOK' /\ InUseOK = InUseOK'
    BY DEF AtRestOK, InUseOK, Stores, Writing, Persisting
  <2>6. KeptOK'
    BY <2>4, <2>5 DEF CredentialInv, KeptOK
  <2> QED
    BY <2>1, <2>2, <2>3, <2>6 DEF CredentialInv
<1>2. CASE CredentialNext
  <2>1. CASE \E n \in Consents : Expire(n) \/ \E c \in Callbacks : TakeSession(c, n)
    BY <2>1, ExpireStep, TakeSessionStep
  <2>2. CASE \E c \in Callbacks : Exchange(c) \/ StoreRecord(c)
    BY <2>2, ExchangeStep, StoreRecordStep
  <2>3. CASE \E r \in Requests : Match(r) \/ Token(r) \/ Compare(r)
    BY <2>3, MatchStep, TokenStep, CompareStep
  <2>4. CASE \E w \in Callbacks \cup Requests : OpenShard(w) \/ StoreToken(w)
    BY <2>4, OpenShardStep, StoreTokenStep DEF Writers
  <2> QED
    BY <1>2, <2>1, <2>2, <2>3, <2>4, BeginConsentStep, PassMoves, WireStep, BindStep, RemoveExtensionStep, HaltStep
       DEF CredentialNext
<1> QED
  BY <1>1, <1>2

(* The credential of an extension is exchanged once, and is kept: at rest   *)
(* the shard holds the newest token beside the record of its client, the    *)
(* source in use holds the same token, and once a pass has seen that the    *)
(* extension is gone no request gets a token of it (mcpauth.go, oauth.go,   *)
(* source.go).                                                              *)
THEOREM CredentialAlwaysHolds == CredentialSpec => []CredentialHolds
<1>1. CredentialInit => CredentialInv
  BY CredentialStarts
<1>2. CredentialInv /\ [CredentialNext]_credentialVars => CredentialInv'
  BY CredentialStep
<1>3. CredentialInv => CredentialHolds
  BY InvImpliesHolds
<1> QED
  BY <1>1, <1>2, <1>3, PTL DEF CredentialSpec

=============================================================================
