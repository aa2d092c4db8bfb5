------------------------- MODULE ScanControlProofs -------------------------
(***************************************************************************)
(* Proofs about ScanControl, for any sets of folders, callers, watcher     *)
(* goroutines and maintenance runs, and any bounds.                        *)
(***************************************************************************)
EXTENDS ScanControl, TLAPS

-----------------------------------------------------------------------------
(* Type correctness *)

LEMMA TypeInit == Init => TypeOK
  BY ControlBounds DEF Init, TypeOK, ActorState, Rest

\* The steps of a goroutine inside ScanFolders.
LEMMA TypeActorStep ==
  ASSUME TypeOK, NEW a \in Actor, ActorStep(a)
  PROVE  TypeOK'
  <1>0. actor[a] \in ActorState /\ Rest \in ActorState
    BY DEF TypeOK, Rest, ActorState
  <1>1. CASE Win(a)
    <2>1. actor' \in [Actor -> ActorState]
      BY <1>1 DEF Win, Goto, TypeOK, ActorState
    <2> QED
      BY <1>1, <2>1 DEF Win, TypeOK, watcher, history
  <1>2. CASE Lose(a)
    <2>1. actor' \in [Actor -> ActorState]
      BY <1>0, <1>2 DEF Lose, TypeOK
    <2>2. dropped' \subseteq Folder
      BY <1>0, <1>2 DEF Lose, TypeOK, ActorState
    <2> QED
      BY <1>2, <2>1, <2>2 DEF Lose, TypeOK, watcher
  <1>3. CASE Lock(a)
    <2>1. actor' \in [Actor -> ActorState]
      BY <1>3 DEF Lock, Goto, TypeOK, ActorState
    <2> QED
      BY <1>3, <2>1 DEF Lock, TypeOK, watcher, history
  <1>4. CASE EndScan(a)
    <2>1. actor' \in [Actor -> ActorState]
      BY <1>4 DEF EndScan, TypeOK, ActorState
    <2>2. dropped' \subseteq Folder
      BY <1>0, <1>4 DEF EndScan, TypeOK, ActorState
    <2>3. faults' \in 0..MaxFaults
      BY <1>4, ControlBounds DEF EndScan, TypeOK
    <2> QED
      BY <1>4, <2>1, <2>2, <2>3 DEF EndScan, TypeOK, watcher
  <1>5. CASE Unlock(a)
    <2>1. actor' \in [Actor -> ActorState]
      BY <1>5 DEF Unlock, Goto, TypeOK, ActorState
    <2> QED
      BY <1>5, <2>1 DEF Unlock, TypeOK, watcher, history
  <1>6. CASE Lower(a)
    <2>1. actor' \in [Actor -> ActorState]
      BY <1>6 DEF Lower, Goto, TypeOK, ActorState
    <2> QED
      BY <1>6, <2>1 DEF Lower, TypeOK, watcher, history
  <1>7. ASSUME NEW f \in Folder, ScanFolder(a, f) PROVE TypeOK'
    <2>1. actor' \in [Actor -> ActorState]
      BY <1>0, <1>7 DEF ScanFolder, TypeOK, ActorState
    <2> QED
      BY <1>7, <2>1 DEF ScanFolder, TypeOK, watcher
  <1> QED
    BY <1>1, <1>2, <1>3, <1>4, <1>5, <1>6, <1>7 DEF ActorStep

\* The steps of a maintenance run.
LEMMA TypeKeeperStep ==
  ASSUME TypeOK, NEW k \in Keeper, TryLock(k) \/ CheckRunning(k) \/ EndMaintenance(k)
  PROVE  TypeOK'
  <1>1. keeper' \in [Keeper -> {"idle", "locked", "keep"}]
    BY DEF TryLock, CheckRunning, EndMaintenance, TypeOK
  <1>2. mux' \in Actor \cup Keeper \cup {Free}
    BY DEF TryLock, CheckRunning, EndMaintenance, TypeOK
  <1> QED
    BY <1>1, <1>2 DEF TryLock, CheckRunning, EndMaintenance, TypeOK, watcher, history

\* The file system and the watcher; the inbox is the one queue with a capacity.
LEMMA TypeWatcher ==
  ASSUME TypeOK, WatcherStep \/ \E f \in Folder : Change(f)
  PROVE  TypeOK'
  <1>1. ASSUME NEW f \in Folder, Change(f) PROVE TypeOK'
    <2>1. inbox' \in Seq(Folder) /\ Len(inbox') <= MaxInbox
      BY <1>1, ControlBounds DEF Change, HasRoom, TypeOK
    <2>2. changes' \in 0..MaxChanges
      BY <1>1, ControlBounds DEF Change, TypeOK
    <2>3. missed' \subseteq Folder /\ dirty' \subseteq Folder
      BY <1>1 DEF Change, TypeOK
    <2> QED
      BY <1>1, <2>1, <2>2, <2>3 DEF Change, TypeOK
  <1>2. CASE Notice
    <2>1. inbox' \in Seq(Folder) /\ Len(inbox') <= MaxInbox
      BY <1>2, ControlBounds DEF Notice, TypeOK
    <2>2. Head(inbox) \in Folder
      BY <1>2 DEF Notice, TypeOK
    <2>3. targets' \subseteq Folder
      BY <1>2, <2>2 DEF Notice, TypeOK
    <2> QED
      BY <1>2, <2>1, <2>3 DEF Notice, TypeOK
  <1>3. CASE Postpone
    BY <1>3 DEF Postpone, Rearmed, TypeOK, history
  <1>4. CASE StatusFault
    <2>1. faults' \in 0..MaxFaults
      BY <1>4, ControlBounds DEF StatusFault, TypeOK
    <2> QED
      BY <1>4, <2>1 DEF StatusFault, TypeOK
  <1>5. ASSUME NEW a \in Slot, Fire(a) PROVE TypeOK'
    <2>1. actor' \in [Actor -> ActorState]
      BY <1>5 DEF Fire, Handed, TypeOK, ActorState
    <2> QED
      BY <1>5, <2>1 DEF Fire, TypeOK, history
  <1> QED
    BY <1>1, <1>2, <1>3, <1>4, <1>5 DEF WatcherStep

LEMMA TypeStep == TypeOK /\ [Next]_vars => TypeOK'
  <1> SUFFICES ASSUME TypeOK, [Next]_vars PROVE TypeOK'
    OBVIOUS
  <1>1. ASSUME NEW c \in Caller, NEW b \in Batches, Ask(c, b) PROVE TypeOK'
    <2>1. actor' \in [Actor -> ActorState]
      BY <1>1, BatchAssumption DEF Ask, TypeOK, ActorState
    <2> QED
      BY <1>1, <2>1 DEF Ask, TypeOK, watcher, history
  <1>2. CASE UNCHANGED vars
    BY <1>2 DEF vars, TypeOK
  <1> QED
    BY <1>1, <1>2, TypeActorStep, TypeKeeperStep, TypeWatcher DEF Next

\* Every variable keeps its type; in particular the event queue never outgrows
\* the channel.
THEOREM ControlTyped == Spec => []TypeOK
  BY TypeInit, TypeStep, PTL DEF Spec

-----------------------------------------------------------------------------
(* One scan at a time *)

\* What every step of Next does to the flag and to the pc of a goroutine.  A
\* goroutine enters Flagged only by winning the flag and leaves it only by
\* lowering the flag.
LEMMA OneScanStep == TypeOK /\ OneScanAtATime /\ [Next]_vars => OneScanAtATime'
  <1> SUFFICES ASSUME TypeOK, OneScanAtATime, [Next]_vars PROVE OneScanAtATime'
    OBVIOUS
  <1>0. actor \in [Actor -> ActorState] /\ Slot \subseteq Actor /\ Caller \subseteq Actor
    BY DEF TypeOK, Actor
  \* Steps that leave the flag alone and nobody's membership of Flagged changes.
  <1>1. ASSUME running' = running,
               \A a \in Actor : actor'[a].pc \in Flagged <=> actor[a].pc \in Flagged
        PROVE  OneScanAtATime'
    BY <1>1 DEF OneScanAtATime
  <1>2. ASSUME NEW a \in Actor, Win(a) PROVE OneScanAtATime'
    <2>1. /\ running' = "yes" /\ actor'[a].pc \in Flagged
          /\ \A b \in Actor : b # a => actor'[b].pc \notin Flagged
      BY <1>0, <1>2 DEF Win, Goto, FlagIsDown, Flagged, OneScanAtATime, ActorState
    <2> QED
      BY <2>1 DEF OneScanAtATime
  <1>3. ASSUME NEW a \in Actor, Lower(a) PROVE OneScanAtATime'
    <2>1. actor[a].pc \in Flagged
      BY <1>3 DEF Lower, Flagged
    <2>2. \A b \in Actor : b # a => actor[b].pc \notin Flagged
      BY <2>1 DEF OneScanAtATime
    <2>3. running' = "no" /\ \A b \in Actor : actor'[b].pc \notin Flagged
      BY <1>0, <1>3, <2>2 DEF Lower, Goto, Flagged, ActorState
    <2> QED
      BY <2>3 DEF OneScanAtATime
  <1>4. ASSUME NEW a \in Actor, Lose(a) \/ Lock(a) \/ EndScan(a) \/ Unlock(a)
        PROVE  OneScanAtATime'
    <2>1. running' = running
      BY <1>4 DEF Lose, Lock, EndScan, Unlock
    <2>2. \A b \in Actor : actor'[b].pc \in Flagged <=> actor[b].pc \in Flagged
      BY <1>0, <1>4 DEF Lose, Rest, Lock, EndScan, Unlock, Goto, Flagged, ActorState
    <2> QED
      BY <1>1, <2>1, <2>2
  <1>5. ASSUME NEW a \in Actor, NEW f \in Folder, ScanFolder(a, f) PROVE OneScanAtATime'
    <2>1. \A b \in Actor : actor'[b].pc = actor[b].pc
      BY <1>0, <1>5 DEF ScanFolder, ActorState
    <2> QED
      BY <1>1, <1>5, <2>1 DEF ScanFolder
  <1>6. ASSUME NEW c \in Caller, NEW b \in Batches, Ask(c, b) PROVE OneScanAtATime'
    <2>1. \A a \in Actor : actor'[a].pc \in Flagged <=> actor[a].pc \in Flagged
      BY <1>0, <1>6 DEF Ask, Flagged
    <2> QED
      BY <1>1, <1>6, <2>1 DEF Ask
  <1>7. ASSUME NEW a \in Slot, Fire(a) PROVE OneScanAtATime'
    <2>1. \A b \in Actor : actor'[b].pc \in Flagged <=> actor[b].pc \in Flagged
      BY <1>0, <1>7 DEF Fire, Flagged
    <2> QED
      BY <1>1, <1>7, <2>1 DEF Fire
  <1>8. ASSUME UNCHANGED <<running, actor>> PROVE OneScanAtATime'
    BY <1>1, <1>8
  <1>9. ASSUME NEW k \in Keeper, TryLock(k) \/ CheckRunning(k) \/ EndMaintenance(k)
        PROVE  OneScanAtATime'
    BY <1>8, <1>9 DEF TryLock, CheckRunning, EndMaintenance
  <1>10. ASSUME NEW f \in Folder, Change(f) PROVE OneScanAtATime'
    BY <1>8, <1>10 DEF Change
  <1>11. CASE Notice \/ Postpone \/ StatusFault \/ UNCHANGED vars
    BY <1>8, <1>11 DEF Notice, Postpone, StatusFault, vars
  <1> QED
    BY <1>2, <1>3, <1>4, <1>5, <1>6, <1>7, <1>9, <1>10, <1>11
    DEF Next, ActorStep, WatcherStep

LEMMA OneScanInit == Init => OneScanAtATime
  BY DEF Init, OneScanAtATime, Rest, Flagged

\* lockScan's compare-and-swap is enough: at any time at most one of any number
\* of callers and watcher goroutines is between winning the flag and lowering
\* it, and the flag Status reports is up exactly then.
THEOREM OneScanHolds == Spec => []OneScanAtATime
  BY OneScanInit, OneScanStep, ControlTyped, PTL DEF Spec

-----------------------------------------------------------------------------
(* Scans and maintenance *)

\* The strengthening that makes MaintenanceExcludesScan inductive: whoever is
\* past its lock and before its unlock is the holder of the mutex.
MuxHeld ==
    /\ \A a \in Actor : actor[a].pc \in {"scan", "unlock"} => mux = a
    /\ \A k \in Keeper : keeper[k] \in {"locked", "keep"} => mux = k

LEMMA MuxHeldStep == TypeOK /\ MuxHeld /\ [Next]_vars => MuxHeld'
  <1> SUFFICES ASSUME TypeOK, MuxHeld, [Next]_vars PROVE MuxHeld'
    OBVIOUS
  <1>0. /\ actor \in [Actor -> ActorState] /\ Slot \subseteq Actor /\ Caller \subseteq Actor
        /\ keeper \in [Keeper -> {"idle", "locked", "keep"}]
    BY DEF TypeOK, Actor
  <1>a. Actor \cap Keeper = {} /\ Free \notin Actor /\ Free \notin Keeper
    BY ActorAssumption DEF Actor
  \* Steps that leave the mutex alone and nobody newly claims to hold it.
  <1>1. ASSUME mux' = mux, keeper' = keeper,
               \A a \in Actor : actor'[a].pc \in {"scan", "unlock"}
                                => actor[a].pc \in {"scan", "unlock"}
        PROVE  MuxHeld'
    BY <1>1 DEF MuxHeld
  <1>2. ASSUME NEW a \in Actor, Lock(a) PROVE MuxHeld'
    <2>1. \A b \in Actor : b # a => actor'[b].pc \notin {"scan", "unlock"}
      BY <1>0, <1>2, <1>a DEF Lock, MuxFree, Goto, MuxHeld, ActorState
    <2>2. \A k \in Keeper : keeper'[k] \notin {"locked", "keep"}
      BY <1>2, <1>a DEF Lock, MuxFree, MuxHeld
    <2> QED
      BY <1>2, <2>1, <2>2 DEF Lock, MuxHeld
  <1>3. ASSUME NEW a \in Actor, Unlock(a) PROVE MuxHeld'
    <2>1. mux = a
      BY <1>3 DEF Unlock, MuxHeld
    <2>2. \A b \in Actor : actor'[b].pc \notin {"scan", "unlock"}
      BY <1>0, <1>3, <2>1 DEF Unlock, Goto, MuxHeld, ActorState
    <2>3. \A k \in Keeper : keeper'[k] \notin {"locked", "keep"}
      BY <1>3, <1>a, <2>1 DEF Unlock, MuxHeld
    <2> QED
      BY <2>2, <2>3 DEF MuxHeld
  <1>4. ASSUME NEW a \in Actor, Win(a) \/ Lose(a) \/ EndScan(a) \/ Lower(a)
        PROVE  MuxHeld'
    <2>1. mux' = mux /\ keeper' = keeper
      BY <1>4 DEF Win, Lose, EndScan, Lower
    <2>2. \A b \in Actor : actor'[b].pc \in {"scan", "unlock"} => actor[b].pc \in {"scan", "unlock"}
      BY <1>0, <1>4 DEF Win, Lose, Rest, EndScan, Lower, Goto, ActorState
    <2> QED
      BY <1>1, <2>1, <2>2
  <1>5. ASSUME NEW a \in Actor, NEW f \in Folder, ScanFolder(a, f) PROVE MuxHeld'
    <2>1. \A b \in Actor : actor'[b].pc = actor[b].pc
      BY <1>0, <1>5 DEF ScanFolder, ActorState
    <2> QED
      BY <1>1, <1>5, <2>1 DEF ScanFolder
  <1>6. ASSUME NEW c \in Caller, NEW b \in Batches, Ask(c, b) PROVE MuxHeld'
    <2>1. \A a \in Actor : actor'[a].pc \in {"scan", "unlock"} => actor[a].pc \in {"scan", "unlock"}
      BY <1>0, <1>6 DEF Ask
    <2> QED
      BY <1>1, <1>6, <2>1 DEF Ask
  <1>7. ASSUME NEW a \in Slot, Fire(a) PROVE MuxHeld'
    <2>1. \A b \in Actor : actor'[b].pc \in {"scan", "unlock"} => actor[b].pc \in {"scan", "unlock"}
      BY <1>0, <1>7 DEF Fire
    <2> QED
      BY <1>1, <1>7, <2>1 DEF Fire
  <1>8. ASSUME NEW k \in Keeper, TryLock(k) PROVE MuxHeld'
    BY <1>0, <1>8, <1>a DEF TryLock, MuxHeld
  <1>9. ASSUME NEW k \in Keeper, CheckRunning(k) \/ EndMaintenance(k) PROVE MuxHeld'
    <2>1. mux = k
      BY <1>9 DEF CheckRunning, EndMaintenance, MuxHeld
    <2> QED
      BY <1>0, <1>9, <1>a, <2>1 DEF CheckRunning, EndMaintenance, MuxHeld
  <1>10. ASSUME UNCHANGED <<mux, actor, keeper>> PROVE MuxHeld'
    BY <1>10 DEF MuxHeld
  <1>11. ASSUME NEW f \in Folder, Change(f) PROVE MuxHeld'
    BY <1>10, <1>11 DEF Change
  <1>12. CASE Notice \/ Postpone \/ StatusFault \/ UNCHANGED vars
    BY <1>10, <1>12 DEF Notice, Postpone, StatusFault, vars
  <1> QED
    BY <1>2, <1>3, <1>4, <1>5, <1>6, <1>7, <1>8, <1>9, <1>11, <1>12
    DEF Next, ActorStep, WatcherStep

LEMMA MuxHeldInit == Init => MuxHeld
  BY DEF Init, MuxHeld, Rest

LEMMA MuxHeldExcludes == MuxHeld => MaintenanceExcludesScan
  <1>1. Actor \cap Keeper = {}
    BY ActorAssumption DEF Actor
  <1> QED
    BY <1>1 DEF MuxHeld, MaintenanceExcludesScan

\* LockForMaintenance and lockScan exclude each other: no scan overlaps a
\* maintenance run, and no two maintenance runs overlap.
THEOREM MaintenanceExcluded == Spec => []MaintenanceExcludesScan
  BY MuxHeldInit, MuxHeldStep, MuxHeldExcludes, ControlTyped, PTL DEF Spec

\* A step in which a maintenance run begins sees the flag down.
LEMMA MaintenanceYields ==
  ASSUME TypeOK, OneScanAtATime, [Next]_vars,
         \E a \in Actor : actor[a].pc = "lock"
  PROVE  \A k \in Keeper : keeper'[k] = "keep" => keeper[k] = "keep"
  <1>1. running = "yes"
    BY DEF OneScanAtATime, Flagged
  <1>2. keeper \in [Keeper -> {"idle", "locked", "keep"}]
    BY DEF TypeOK
  <1>3. ASSUME NEW k \in Keeper, TryLock(k) \/ CheckRunning(k) \/ EndMaintenance(k)
        PROVE  \A j \in Keeper : keeper'[j] = "keep" => keeper[j] = "keep"
    BY <1>1, <1>2, <1>3 DEF TryLock, CheckRunning, EndMaintenance, Yields
  <1>4. ASSUME keeper' = keeper
        PROVE  \A j \in Keeper : keeper'[j] = "keep" => keeper[j] = "keep"
    BY <1>4
  <1>5. ASSUME NEW a \in Actor, ActorStep(a) PROVE keeper' = keeper
    BY <1>5 DEF ActorStep, Win, Lose, Lock, EndScan, Unlock, Lower, ScanFolder
  <1>6. CASE UNCHANGED vars
    BY <1>4, <1>6 DEF vars
  <1> QED
    BY <1>3, <1>4, <1>5, <1>6 DEF Next, Ask, Change, WatcherStep, Notice, Postpone, StatusFault, Fire

\* Once a scan has won the flag no maintenance run begins before the scan has
\* had the mutex: the check of the flag after TryLock closes the gap between
\* the two locks.
THEOREM MaintenanceGivesWay == Spec => NoMaintenanceAhead
  <1>1. TypeOK /\ OneScanAtATime /\ [Next]_vars =>
            [(\E a \in Actor : actor[a].pc = "lock") =>
                \A k \in Keeper : keeper'[k] = "keep" => keeper[k] = "keep"]_vars
    BY MaintenanceYields
  <1> QED
    BY <1>1, ControlTyped, OneScanHolds, PTL DEF Spec, NoMaintenanceAhead

-----------------------------------------------------------------------------
(* The watcher's batch *)

LEMMA BatchInit == Init => BatchHasTrigger
  BY DEF Init, BatchHasTrigger

LEMMA BatchStep == BatchHasTrigger /\ [Next]_vars => BatchHasTrigger'
  <1> SUFFICES ASSUME BatchHasTrigger, [Next]_vars PROVE BatchHasTrigger'
    OBVIOUS
  <1>1. ASSUME UNCHANGED <<targets, timer, stalled>> PROVE BatchHasTrigger'
    BY <1>1 DEF BatchHasTrigger
  <1>2. ASSUME NEW a \in Actor, ActorStep(a) PROVE BatchHasTrigger'
    BY <1>1, <1>2
    DEF ActorStep, Win, Lose, Lock, EndScan, Unlock, Lower, ScanFolder, watcher, history
  <1>3. ASSUME NEW k \in Keeper, TryLock(k) \/ CheckRunning(k) \/ EndMaintenance(k)
        PROVE  BatchHasTrigger'
    BY <1>1, <1>3 DEF TryLock, CheckRunning, EndMaintenance, watcher, history
  <1>4. ASSUME NEW c \in Caller, NEW b \in Batches, Ask(c, b) PROVE BatchHasTrigger'
    BY <1>1, <1>4 DEF Ask, watcher, history
  <1>5. ASSUME NEW f \in Folder, Change(f) PROVE BatchHasTrigger'
    BY <1>1, <1>5 DEF Change
  <1>6. CASE Notice \/ Postpone \/ StatusFault
    BY <1>6 DEF Notice, Postpone, Rearmed, StatusFault, BatchHasTrigger
  <1>7. ASSUME NEW a \in Slot, Fire(a) PROVE BatchHasTrigger'
    BY <1>7 DEF Fire, BatchHasTrigger
  <1>8. CASE UNCHANGED vars
    BY <1>1, <1>8 DEF vars
  <1> QED
    BY <1>2, <1>3, <1>4, <1>5, <1>6, <1>7, <1>8 DEF Next, WatcherStep

\* The loop of watcher.Run never sits on a batch without a trigger, but for the
\* early return of a failed Status.
THEOREM BatchKeepsTrigger == Spec => []BatchHasTrigger
  BY BatchInit, BatchStep, PTL DEF Spec

-----------------------------------------------------------------------------
(* No change goes missing *)

\* A goroutine that is not on its way to a scan has nothing left to scan: when
\* the next batch is handed to it, nothing is overwritten.
RestEmpty ==
    \A a \in Slot : actor[a].pc \in {"idle", "unlock", "lower"} => actor[a].todo = {}

LEMMA RestEmptyInit == Init => RestEmpty
  BY DEF Init, RestEmpty, Rest, Actor

LEMMA RestEmptyStep == TypeOK /\ RestEmpty /\ [Next]_vars => RestEmpty'
  <1> SUFFICES ASSUME TypeOK, RestEmpty, [Next]_vars PROVE RestEmpty'
    OBVIOUS
  <1>0. actor \in [Actor -> ActorState] /\ Slot \subseteq Actor /\ Caller \subseteq Actor
    BY DEF TypeOK, Actor
  <1>1. ASSUME actor' = actor PROVE RestEmpty'
    BY <1>1 DEF RestEmpty
  <1>2. ASSUME NEW a \in Actor, Win(a) \/ Lose(a) \/ Lock(a) \/ EndScan(a) PROVE RestEmpty'
    BY <1>0, <1>2 DEF Win, Lose, Lock, EndScan, Goto, Rest, RestEmpty, ActorState
  <1>3. ASSUME NEW a \in Actor, Unlock(a) \/ Lower(a) PROVE RestEmpty'
    BY <1>0, <1>3 DEF Unlock, Lower, Goto, RestEmpty, ActorState
  <1>4. ASSUME NEW a \in Actor, NEW f \in Folder, ScanFolder(a, f) PROVE RestEmpty'
    BY <1>0, <1>4 DEF ScanFolder, RestEmpty, ActorState
  <1>5. ASSUME NEW c \in Caller, NEW b \in Batches, Ask(c, b) PROVE RestEmpty'
    BY <1>0, <1>5 DEF Ask, RestEmpty
  <1>6. ASSUME NEW a \in Slot, Fire(a) PROVE RestEmpty'
    BY <1>0, <1>6 DEF Fire, RestEmpty
  <1>7. ASSUME NEW k \in Keeper, TryLock(k) \/ CheckRunning(k) \/ EndMaintenance(k)
        PROVE  RestEmpty'
    BY <1>1, <1>7 DEF TryLock, CheckRunning, EndMaintenance
  <1>8. ASSUME NEW f \in Folder, Change(f) PROVE RestEmpty'
    BY <1>1, <1>8 DEF Change
  <1>9. CASE Notice \/ Postpone \/ StatusFault \/ UNCHANGED vars
    BY <1>1, <1>9 DEF Notice, Postpone, StatusFault, vars
  <1> QED
    BY <1>2, <1>3, <1>4, <1>5, <1>6, <1>7, <1>8, <1>9 DEF Next, ActorStep, WatcherStep

\* Folder f is on its way to a scan, or known to be lost.
Underway(f) ==
    \/ \E i \in 1..Len(inbox) : inbox[i] = f
    \/ f \in targets \cup missed \cup dropped
    \/ \E a \in Slot : f \in actor[a].todo

LEMMA AccountedByUnderway == ChangeAccountedFor <=> \A f \in dirty : Underway(f)
  BY DEF ChangeAccountedFor, Underway

\* Whatever happens to a folder on its way, short of its scan, it stays there.
LEMMA UnderwayActor ==
  ASSUME TypeOK, NEW a \in Actor, ActorStep(a), NEW f \in dirty', Underway(f)
  PROVE  Underway(f)'
  <1>0. actor \in [Actor -> ActorState] /\ Slot \subseteq Actor
    BY DEF TypeOK, Actor
  <1>1. inbox' = inbox /\ targets' = targets
    BY DEF ActorStep, Win, Lose, Lock, EndScan, Unlock, Lower, ScanFolder, watcher
  <1>2. CASE Win(a) \/ Lock(a) \/ Unlock(a) \/ Lower(a)
    <2>1. \A b \in Slot : actor'[b].todo = actor[b].todo
      BY <1>0, <1>2 DEF Win, Lock, Unlock, Lower, Goto, ActorState
    <2>2. missed' = missed /\ dropped' = dropped
      BY <1>2 DEF Win, Lock, Unlock, Lower, history
    <2> QED
      BY <1>1, <2>1, <2>2 DEF Underway
  <1>3. CASE Lose(a) \/ EndScan(a)
    <2>1. missed' = missed /\ dropped \subseteq dropped'
      BY <1>3 DEF Lose, EndScan
    <2>2. a \in Slot => actor[a].todo \subseteq dropped'
      BY <1>3 DEF Lose, EndScan
    <2>3. \A b \in Slot : b # a => actor'[b].todo = actor[b].todo
      BY <1>0, <1>3 DEF Lose, EndScan
    <2> QED
      BY <1>1, <2>1, <2>2, <2>3 DEF Underway
  <1>4. ASSUME NEW g \in Folder, ScanFolder(a, g) PROVE Underway(f)'
    <2>1. f # g
      BY <1>4 DEF ScanFolder
    <2>2. /\ f \in missed => f \in missed'
          /\ f \in dropped => f \in dropped'
          /\ \A b \in Slot : f \in actor[b].todo => f \in actor'[b].todo
      BY <1>0, <1>4, <2>1 DEF ScanFolder, ActorState
    <2> QED
      BY <1>1, <2>2 DEF Underway
  <1> QED
    BY <1>2, <1>3, <1>4 DEF ActorStep

\* The same for the watcher; a new change is an event or known to be missed.
LEMMA UnderwayWatcher ==
  ASSUME TypeOK, RestEmpty, WatcherStep \/ \E g \in Folder : Change(g),
         NEW f \in dirty', f \in dirty => Underway(f)
  PROVE  Underway(f)'
  <1>0. /\ actor \in [Actor -> ActorState] /\ Slot \subseteq Actor
        /\ inbox \in Seq(Folder)
    BY DEF TypeOK, Actor
  <1>1. ASSUME NEW g \in Folder, Change(g) PROVE Underway(f)'
    <2>1. CASE HasRoom
      <3>1. /\ Len(inbox') = Len(inbox) + 1
            /\ \A i \in 1..Len(inbox) : inbox'[i] = inbox[i]
            /\ inbox'[Len(inbox) + 1] = g
        BY <1>0, <1>1, <2>1 DEF Change
      <3>2. Len(inbox) \in Nat
        BY <1>0
      <3>3. CASE f = g
        <4>1. Len(inbox) + 1 \in 1..Len(inbox')
          BY <3>1, <3>2
        <4> QED
          BY <3>1, <3>3, <4>1 DEF Underway
      <3>4. CASE f # g
        <4>1. f \in dirty
          BY <1>1, <3>4 DEF Change
        <4>2. \A i \in 1..Len(inbox) : i \in 1..Len(inbox')
          BY <3>1, <3>2
        <4>3. UNCHANGED <<targets, missed, dropped, actor>>
          BY <1>1, <2>1 DEF Change
        <4> QED
          BY <3>1, <4>1, <4>2, <4>3 DEF Underway
      <3> QED
        BY <3>3, <3>4
    <2>2. CASE ~HasRoom
      BY <1>1, <2>2 DEF Change, Underway
    <2> QED
      BY <2>1, <2>2
  <1>2. CASE Notice
    <2>1. Underway(f)
      BY <1>2 DEF Notice
    <2>2. /\ Len(inbox') = Len(inbox) - 1 /\ Len(inbox) \in Nat
          /\ \A i \in 1..Len(inbox') : inbox'[i] = inbox[i + 1]
          /\ Head(inbox) = inbox[1]
      BY <1>0, <1>2 DEF Notice
    <2>3. ASSUME NEW i \in 1..Len(inbox), inbox[i] = f PROVE Underway(f)'
      <3>1. CASE i = 1
        BY <1>2, <2>2, <2>3, <3>1 DEF Notice, Underway
      <3>2. CASE i # 1
        <4>1. i - 1 \in 1..Len(inbox') /\ (i - 1) + 1 = i
          BY <2>2, <3>2
        <4> QED
          BY <2>2, <2>3, <4>1 DEF Underway
      <3> QED
        BY <3>1, <3>2
    <2>4. UNCHANGED <<missed, dropped, actor>> /\ targets \subseteq targets'
      BY <1>2 DEF Notice
    <2> QED
      BY <2>1, <2>3, <2>4 DEF Underway
  <1>3. CASE Postpone \/ StatusFault
    BY <1>3 DEF Postpone, StatusFault, Underway, history
  <1>4. ASSUME NEW a \in Slot, Fire(a) PROVE Underway(f)'
    <2>1. actor[a].todo = {}
      BY <1>4 DEF Fire, RestEmpty
    <2>2. actor'[a].todo = targets /\ \A b \in Slot : b # a => actor'[b] = actor[b]
      BY <1>0, <1>4 DEF Fire, Handed
    <2> QED
      BY <1>4, <2>1, <2>2 DEF Fire, Underway, history
  <1> QED
    BY <1>1, <1>2, <1>3, <1>4 DEF WatcherStep

LEMMA AccountedStep ==
  TypeOK /\ RestEmpty /\ ChangeAccountedFor /\ [Next]_vars => ChangeAccountedFor'
  <1> SUFFICES ASSUME TypeOK, RestEmpty, ChangeAccountedFor, [Next]_vars,
                      NEW f \in dirty'
               PROVE  Underway(f)'
    BY AccountedByUnderway, AccountedByUnderway' DEF ChangeAccountedFor, Underway
  <1>1. f \in dirty => Underway(f)
    BY AccountedByUnderway
  <1>2. ASSUME NEW a \in Actor, ActorStep(a) PROVE Underway(f)'
    <2>1. dirty' \subseteq dirty
      BY <1>2 DEF ActorStep, Win, Lose, Lock, EndScan, Unlock, Lower, ScanFolder
    <2> QED
      BY <1>1, <1>2, <2>1, UnderwayActor
  <1>3. CASE WatcherStep \/ \E g \in Folder : Change(g)
    BY <1>1, <1>3, UnderwayWatcher
  <1>4. ASSUME dirty' = dirty, UNCHANGED <<inbox, targets, missed, dropped, actor>>
        PROVE  Underway(f)'
    BY <1>1, <1>4 DEF Underway
  <1>5. ASSUME NEW k \in Keeper, TryLock(k) \/ CheckRunning(k) \/ EndMaintenance(k)
        PROVE  Underway(f)'
    BY <1>4, <1>5 DEF TryLock, CheckRunning, EndMaintenance, watcher, history
  <1>6. ASSUME NEW c \in Caller, NEW b \in Batches, Ask(c, b) PROVE Underway(f)'
    <2>1. \A a \in Slot : actor'[a] = actor[a]
      BY <1>6, ActorAssumption DEF Ask, TypeOK, Actor
    <2> QED
      BY <1>1, <1>6, <2>1 DEF Ask, Underway, watcher, history
  <1>7. CASE UNCHANGED vars
    BY <1>4, <1>7 DEF vars
  <1> QED
    BY <1>2, <1>3, <1>5, <1>6, <1>7 DEF Next

LEMMA AccountedInit == Init => ChangeAccountedFor
  BY DEF Init, ChangeAccountedFor

\* From the event to the scan no change is forgotten: at any time it is an
\* event, in the batch, in the hands of a goroutine that is still to scan it,
\* or in one of the known losses.  The batch is emptied by the same step that
\* hands it over, and a goroutine is only reused when it has nothing left.
THEOREM ChangesAccountedFor == Spec => []ChangeAccountedFor
  BY AccountedInit, AccountedStep, RestEmptyInit, RestEmptyStep, ControlTyped, PTL DEF Spec
=============================================================================
