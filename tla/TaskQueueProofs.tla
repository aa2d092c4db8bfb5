--------------------------- MODULE TaskQueueProofs ---------------------------
(***************************************************************************)
(* Proofs about TaskQueue, for any sets of queues and tasks, any budget    *)
(* and any number of lives and faults.                                     *)
(***************************************************************************)
EXTENDS TaskQueue, TLAPS, FiniteSetTheorems

-----------------------------------------------------------------------------
(* Helpers *)

\* The workers are finitely many, so the budget arithmetic of clampConcurrency
\* is about natural numbers.
LEMMA WorkerFinite == IsFiniteSet(Worker)
  <1>1. IsFiniteSet(1..MaxConcurrency)
    BY FS_Interval, BudgetAssumption
  <1> QED
    BY <1>1, FS_Product, QueueAssumption DEF Worker

LEMMA SpawnedNat == Cardinality(Spawned) \in Nat
  <1>1. Spawned \subseteq Worker
    BY DEF Spawned
  <1>2. IsFiniteSet(Spawned)
    BY <1>1, WorkerFinite, FS_Subset
  <1> QED
    BY <1>2, FS_CardinalityType

\* clampConcurrency leaves at least one worker and at most the whole budget.
LEMMA ClampedRange ==
  ASSUME NEW c \in Requested, Available > 0
  PROVE  Clamped(c) \in 1..MaxConcurrency /\ Clamped(c) <= Available
  <1>1. c \in Int
    BY RequestAssumption
  <1>2. Available \in Int /\ Available <= MaxConcurrency
    BY SpawnedNat, BudgetAssumption DEF Available
  <1> QED
    BY <1>1, <1>2, BudgetAssumption DEF Clamped, EffectiveConcurrency

-----------------------------------------------------------------------------
(* Type correctness *)

WorkerTyped ==
    /\ worker \in [Worker -> WorkerState]
    /\ \A w \in Worker : worker[w].pc \in Holding => worker[w].task \in Task

\* A worker that goes back to its loop holds nothing.
LEMMA GotoTyped ==
  ASSUME WorkerTyped, NEW w \in Worker, NEW pc \in {"off", "drain", "select"},
         Goto(w, pc)
  PROVE  WorkerTyped'
  <1>1. At(pc) \in WorkerState /\ At(pc).pc = pc /\ pc \notin Holding
    BY DEF At, Off, WorkerState, Holding
  <1> QED
    BY <1>1 DEF Goto, WorkerTyped

\* resetting running rows keeps the table well typed
LEMMA ResetTyped ==
  ASSUME row \in [Task -> Row], NEW S \in SUBSET Task
  PROVE  ResetRunning(S) \in [Task -> Row]
  BY DEF ResetRunning, Row, Status

LEMMA TypeInit == Init => TypeOK
  <1> SUFFICES ASSUME Init PROVE TypeOK
    OBVIOUS
  <1>1. row \in [Task -> Row]
    <2>1. (CHOOSE q \in Queue : TRUE) \in Queue
      BY QueueAssumption
    <2> QED
      BY <2>1 DEF Init, Row, Status
  <1>2. worker \in [Worker -> WorkerState]
    BY DEF Init, WorkerState, Off
  <1>3. \A w \in Worker : worker[w].pc \notin Holding
    BY DEF Init, Off, Holding
  <1>4. cfg \in [Queue -> [conc : 0..MaxConcurrency, max : Int]]
    BY BudgetAssumption DEF Init, Absent
  <1> QED
    BY <1>1, <1>2, <1>3, <1>4, BoundAssumption DEF Init, TypeOK

\* The host functions.
LEMMA TypeHostCall ==
  ASSUME TypeOK, HostCall
  PROVE  TypeOK'
  <1>1. ASSUME NEW q \in Queue, NEW c \in Requested, NEW r \in Retries,
               CreateQueue(q, c, r)
        PROVE  TypeOK'
    <2>1. Clamped(c) \in 1..MaxConcurrency /\ r \in Int
      BY <1>1, ClampedRange, RequestAssumption DEF CreateQueue
    <2>2. row' \in [Task -> Row]
      BY <1>1, ResetTyped DEF CreateQueue, TypeOK
    <2>3. cfg' \in [Queue -> [conc : 0..MaxConcurrency, max : Int]]
      BY <1>1, <2>1, BudgetAssumption DEF CreateQueue, TypeOK
    <2>4. At("drain") \in WorkerState /\ At("drain").pc \notin Holding
      BY DEF At, Off, WorkerState, Holding
    <2>5. WorkerTyped'
      BY <1>1, <2>4 DEF CreateQueue, WorkerTyped, TypeOK
    <2> QED
      BY <1>1, <2>2, <2>3, <2>5 DEF CreateQueue, WorkerTyped, TypeOK
  <1>2. ASSUME NEW q \in Queue, NEW t \in Task, Enqueue(q, t) PROVE TypeOK'
    <2>1. row' \in [Task -> Row]
      BY <1>2 DEF Enqueue, TypeOK, Row, Status
    <2> QED
      BY <1>2, <2>1 DEF Enqueue, Notified, TypeOK, history
  <1>3. ASSUME NEW t \in Task, Cancel(t) PROVE TypeOK'
    <2>1. row' \in [Task -> Row]
      BY <1>3 DEF Cancel, Cancellable, TypeOK, Row, Status, Terminal
    <2> QED
      BY <1>3, <2>1 DEF Cancel, TypeOK, history
  <1>4. ASSUME NEW q \in Queue, ClearQueue(q) PROVE TypeOK'
    <2>1. row' \in [Task -> Row]
      BY <1>4 DEF ClearQueue, TypeOK, Row, Status, Terminal
    <2> QED
      BY <1>4, <2>1 DEF ClearQueue, TypeOK, history
  <1> QED
    BY <1>1, <1>2, <1>3, <1>4 DEF HostCall

\* The worker loop.
LEMMA TypeWorkerStep ==
  ASSUME TypeOK, NEW w \in Worker, WorkerStep(w)
  PROVE  TypeOK'
  <1>0. WorkerTyped
    BY DEF TypeOK, WorkerTyped
  <1>1. CASE Wake(w)
    <2>1. WorkerTyped'
      BY <1>0, <1>1, GotoTyped DEF Wake
    <2> QED
      BY <1>1, <2>1 DEF Wake, TypeOK, WorkerTyped, history
  <1>2. CASE Poll(w)
    <2>1. WorkerTyped'
      BY <1>0, <1>2, GotoTyped DEF Poll
    <2> QED
      BY <1>2, <2>1 DEF Poll, TypeOK, WorkerTyped, history
  <1>3. CASE Exit(w)
    <2>1. WorkerTyped'
      BY <1>0, <1>3, GotoTyped DEF Exit
    <2> QED
      BY <1>3, <2>1 DEF Exit, TypeOK, WorkerTyped, history
  <1>4. ASSUME NEW t \in Task, Dequeue(w, t) PROVE TypeOK'
    <2>1. row' \in [Task -> Row]
      BY <1>4 DEF Dequeue, Claim, TypeOK, Row, Status
    <2>2. row[t].attempt + 1 \in Nat
      BY DEF TypeOK, Row
    <2>3. WorkerTyped'
      BY <1>0, <1>4, <2>2 DEF Dequeue, WorkerTyped, WorkerState, Holding
    <2> QED
      BY <1>4, <2>1, <2>3 DEF Dequeue, TypeOK, WorkerTyped
  <1>5. ASSUME NEW t \in Task, DequeueCut(w, t) PROVE TypeOK'
    <2>1. row' \in [Task -> Row]
      BY <1>5 DEF DequeueCut, Claim, TypeOK, Row, Status
    <2>2. WorkerTyped'
      BY <1>0, <1>5, GotoTyped DEF DequeueCut
    <2> QED
      BY <1>5, <2>1, <2>2 DEF DequeueCut, TypeOK, WorkerTyped, history
  <1>6. CASE Drained(w)
    <2>1. WorkerTyped'
      BY <1>0, <1>6, GotoTyped DEF Drained
    <2> QED
      BY <1>6, <2>1 DEF Drained, TypeOK, WorkerTyped, history
  <1>7. CASE DequeueFault(w)
    <2>1. WorkerTyped'
      BY <1>0, <1>7, GotoTyped DEF DequeueFault
    <2> QED
      BY <1>7, <2>1, BoundAssumption DEF DequeueFault, TypeOK, WorkerTyped
  <1>8. CASE Admit(w)
    <2>1. WorkerTyped'
      BY <1>0, <1>8 DEF Admit, WorkerTyped, WorkerState, Holding
    <2> QED
      BY <1>8, <2>1 DEF Admit, TypeOK, WorkerTyped, history
  <1>9. CASE Lookup(w)
    <2>1. WorkerTyped'
      BY <1>0, <1>9 DEF Lookup, WorkerTyped, WorkerState, Holding
    <2>2. worker[w].task \in Task
      BY <1>9, <1>0 DEF Lookup, WorkerTyped, Holding
    <2> QED
      BY <1>9, <2>1, <2>2 DEF Lookup, TypeOK, WorkerTyped
  <1>10. CASE CompleteTask(w)
    <2>0. row \in [Task -> Row]
      BY DEF TypeOK
    <2>1. row' \in [Task -> Row]
      BY <1>10, <2>0 DEF CompleteTask, Row, Status, Terminal
    <2>2. WorkerTyped'
      BY <1>0, <1>10, GotoTyped DEF CompleteTask
    <2> QED
      BY <1>10, <2>1, <2>2 DEF CompleteTask, TypeOK, WorkerTyped, history
  <1>11. CASE HandleTaskFailure(w)
    <2>1. worker[w].task \in Task
      BY <1>11 DEF HandleTaskFailure, TypeOK, Holding
    <2>0. row \in [Task -> Row]
      BY DEF TypeOK
    <2>2. row' \in [Task -> Row]
      <3>1. CASE Exhausted(w)
        BY <1>11, <2>0, <2>1, <3>1 DEF HandleTaskFailure, Row, Status, Terminal
      <3>2. CASE ~Exhausted(w)
        BY <1>11, <2>0, <2>1, <3>2 DEF HandleTaskFailure, Row, Status, Terminal
      <3> QED
        BY <3>1, <3>2
    <2>3. WorkerTyped'
      BY <1>0, <1>11, GotoTyped DEF HandleTaskFailure
    <2>4. failures' \in [Task -> Nat] /\ timers' \subseteq Task
      BY <1>11, <2>1 DEF HandleTaskFailure, TypeOK
    <2> QED
      BY <1>11, <2>2, <2>3, <2>4 DEF HandleTaskFailure, TypeOK, WorkerTyped
  <1>12. CASE SettleFault(w)
    <2>1. worker[w].task \in Task
      BY <1>12 DEF SettleFault, TypeOK, Holding
    <2>2. WorkerTyped'
      BY <1>0, <1>12, GotoTyped DEF SettleFault
    <2>3. failures' \in [Task -> Nat] /\ timers' \subseteq Task
      BY <1>12, <2>1 DEF SettleFault, TypeOK
    <2> QED
      BY <1>12, <2>2, <2>3, BoundAssumption DEF SettleFault, TypeOK, WorkerTyped
  <1>13. CASE Revert(w)
    <2>0. row \in [Task -> Row]
      BY DEF TypeOK
    <2>2. worker[w].task \in Task
      BY <1>13 DEF Revert, TypeOK, Holding
    <2>1. row' \in [Task -> Row]
      BY <1>13, <2>0, <2>2 DEF Revert, Reverted, Row, Status
    <2>3. WorkerTyped'
      BY <1>0, <1>13, GotoTyped DEF Revert
    <2> QED
      BY <1>13, <2>1, <2>2, <2>3 DEF Revert, TypeOK, WorkerTyped, history
  <1>14. CASE SettleCut(w)
    <2>1. WorkerTyped'
      BY <1>0, <1>14, GotoTyped DEF SettleCut
    <2> QED
      BY <1>14, <2>1 DEF SettleCut, TypeOK, WorkerTyped, history
  <1> QED
    BY <1>1, <1>2, <1>3, <1>4, <1>5, <1>6, <1>7, <1>8, <1>9, <1>10, <1>11,
       <1>12, <1>13, <1>14 DEF WorkerStep

\* The plugin manager.
LEMMA TypeLife ==
  ASSUME TypeOK, Life
  PROVE  TypeOK'
  <1>1. CASE Load
    BY <1>1, BoundAssumption DEF Load, TypeOK
  <1>2. CASE Unregister \/ CloseCancel \/ StopCancel \/ StopLock
    BY <1>2 DEF Unregister, CloseCancel, StopCancel, StopLock, TypeOK, history
  <1>3. ASSUME EndLife
        PROVE  /\ WorkerTyped'
               /\ cfg' \in [Queue -> [conc : 0..MaxConcurrency, max : Int]]
    <2>1. Off \in WorkerState /\ Off.pc \notin Holding
      BY DEF Off, WorkerState, Holding
    <2>2. Absent \in [conc : 0..MaxConcurrency, max : Int]
      BY BudgetAssumption DEF Absent
    <2> QED
      BY <1>3, <2>1, <2>2 DEF EndLife, WorkerTyped
  <1>4. CASE Crash
    BY <1>3, <1>4 DEF Crash, EndLife, TypeOK, WorkerTyped, history
  <1>5. ASSUME NEW reset \in BOOLEAN, CloseFinish(reset) PROVE TypeOK'
    <2>1. row' \in [Task -> Row]
      BY <1>5, ResetTyped DEF CloseFinish, TypeOK
    <2>2. faults' \in 0..MaxFaults
      BY <1>5, BoundAssumption DEF CloseFinish, TypeOK
    <2> QED
      BY <1>3, <1>5, <2>1, <2>2 DEF CloseFinish, EndLife, TypeOK, WorkerTyped, history
  <1> QED
    BY <1>1, <1>2, <1>4, <1>5 DEF Life

LEMMA TypeNext == TypeOK /\ [Next]_vars => TypeOK'
  <1> SUFFICES ASSUME TypeOK, [Next]_vars PROVE TypeOK'
    OBVIOUS
  <1>1. CASE UNCHANGED vars
    BY <1>1 DEF TypeOK, vars
  <1>2. ASSUME NEW w \in Worker, NEW result \in {"ok", "error"},
               CallbackReturns(w, result)
        PROVE  TypeOK'
    <2>0. WorkerTyped
      BY DEF TypeOK, WorkerTyped
    <2>1. WorkerTyped'
      BY <1>2, <2>0 DEF CallbackReturns, WorkerTyped, WorkerState, Holding
    <2> QED
      BY <1>2, <2>1 DEF CallbackReturns, TypeOK, WorkerTyped, history
  <1>3. ASSUME NEW t \in Task, BackoffElapses(t) PROVE TypeOK'
    <2>1. row' \in [Task -> Row]
      BY <1>3 DEF BackoffElapses, TypeOK, Row
    <2>2. row[t].queue \in Queue
      BY DEF TypeOK, Row
    <2> QED
      BY <1>3, <2>1, <2>2 DEF BackoffElapses, Notified, TypeOK
  <1>4. ASSUME NEW S \in SUBSET Task, RunCleanup(S) PROVE TypeOK'
    <2>0. row \in [Task -> Row]
      BY DEF TypeOK
    <2>1. row' \in [Task -> Row]
      BY <1>4, <2>0 DEF RunCleanup, Row, Status
    <2> QED
      BY <1>4, <2>1 DEF RunCleanup, TypeOK, history
  <1> QED
    BY <1>1, <1>2, <1>3, <1>4, TypeHostCall, TypeWorkerStep, TypeLife DEF Next

\* Every reachable state is well typed.
THEOREM TypeCorrect == Spec => []TypeOK
  BY TypeInit, TypeNext, PTL DEF Spec

-----------------------------------------------------------------------------
(* One worker at a time *)

Exclusive == LifeStructure /\ ExclusiveExecution

\* Steps that move no goroutine keep exclusiveness if they leave held rows alone.
LEMMA ExclusiveRows ==
  ASSUME TypeOK, Exclusive, worker' = worker, cfg' = cfg, svc # "down",
         \A v \in Worker, t \in Task : Holds(v, t) => row'[t] = row[t]
  PROVE  Exclusive' \/ svc' = "down"
  <1>1. \A v \in Worker, t \in Task : Holds(v, t)' <=> Holds(v, t)
    BY DEF Holds
  <1>2. ExclusiveExecution'
    BY <1>1 DEF Exclusive, ExclusiveExecution
  <1>3. svc' # "down" => LifeStructure'
    BY DEF Exclusive, LifeStructure, Exists, Spawned
  <1> QED
    BY <1>2, <1>3 DEF Exclusive

\* A worker that lets go of its task, if any, and touches no other held row.
LEMMA ExclusiveGoto ==
  ASSUME TypeOK, Exclusive, NEW w \in Worker, worker[w].pc # "off",
         NEW pc \in {"off", "drain", "select"}, Goto(w, pc),
         cfg' = cfg, svc' = svc,
         \A v \in Worker, t \in Task : v # w /\ Holds(v, t) => row'[t] = row[t]
  PROVE  Exclusive'
  <1>1. At(pc).pc = pc /\ pc \notin Holding
    BY DEF At, Off, Holding
  <1>2. /\ worker'[w] = At(pc)
        /\ \A v \in Worker : v # w => worker'[v] = worker[v]
    BY DEF Goto, TypeOK
  <1>3. \A v \in Worker, t \in Task : Holds(v, t)' => v # w /\ Holds(v, t)
    BY <1>1, <1>2 DEF Holds
  <1>4. ExclusiveExecution'
    <2> SUFFICES ASSUME NEW v \in Worker, NEW t \in Task, Holds(v, t)'
                 PROVE  /\ row'[t].st = "running"
                        /\ row'[t].queue = v[1]
                        /\ row'[t].attempt = worker'[v].attempt
                        /\ \A u \in Worker : Holds(u, t)' => u = v
      BY DEF ExclusiveExecution
    <2>1. v # w /\ Holds(v, t)
      BY <1>3
    <2> QED
      BY <2>1, <1>2, <1>3 DEF Exclusive, ExclusiveExecution
  <1>5. LifeStructure'
    <2>1. Spawned' = Spawned
      BY DEF Spawned
    <2>2. w \in Spawned
      BY DEF Exclusive, LifeStructure
    <2> QED
      BY <1>2, <2>1, <2>2 DEF Exclusive, LifeStructure, Exists
  <1> QED
    BY <1>4, <1>5 DEF Exclusive

\* A worker that moves on with the task it holds.
LEMMA ExclusiveAdvance ==
  ASSUME TypeOK, Exclusive, NEW w \in Worker, worker[w].pc \in Holding,
         worker' = [worker EXCEPT ![w] = worker'[w]],
         worker'[w].pc \in Holding,
         worker'[w].task = worker[w].task, worker'[w].attempt = worker[w].attempt,
         row' = row, cfg' = cfg, svc' = svc
  PROVE  Exclusive'
  <1>1. \A v \in Worker, t \in Task : Holds(v, t)' <=> Holds(v, t)
    BY DEF Holds, TypeOK
  <1>2. \A v \in Worker : worker'[v].attempt = worker[v].attempt
    BY DEF TypeOK
  <1>3. ExclusiveExecution'
    BY <1>1, <1>2 DEF Exclusive, ExclusiveExecution
  <1>4. \A v \in Worker : worker'[v].pc # "off" => worker[v].pc # "off"
    BY DEF TypeOK, Holding
  <1>5. LifeStructure'
    BY <1>4 DEF Exclusive, LifeStructure, Exists, Spawned
  <1> QED
    BY <1>3, <1>5 DEF Exclusive

\* Only a running row is held.
LEMMA HeldIsRunning ==
  ASSUME Exclusive, NEW w \in Worker, NEW t \in Task, Holds(w, t)
  PROVE  row[t].st = "running" /\ row[t].queue = w[1] /\ w \in Spawned
  BY DEF Exclusive, ExclusiveExecution, LifeStructure, Holds, Holding

LEMMA ExclusiveHostCall ==
  ASSUME TypeOK, Exclusive, HostCall
  PROVE  Exclusive'
  <1>1. ASSUME NEW q \in Queue, NEW c \in Requested, NEW r \in Retries,
               CreateQueue(q, c, r)
        PROVE  Exclusive'
    <2>1. cfg[q].conc = 0
      BY <1>1 DEF CreateQueue, Exists, TypeOK
    <2>2. \A w \in Spawned : w[1] # q
      BY <2>1, BudgetAssumption DEF Spawned, Worker
    <2>3. \A v \in Worker : v[1] = q => worker[v].pc = "off"
      BY <2>2 DEF Exclusive, LifeStructure
    <2>4. At("drain").pc = "drain" /\ "drain" \notin Holding /\ "off" \notin Holding
      BY DEF At, Off, Holding
    <2>5. \A v \in Worker, t \in Task : Holds(v, t)' => v[1] # q /\ Holds(v, t)
      BY <1>1, <2>3, <2>4 DEF CreateQueue, Holds
    <2>6. \A v \in Worker : v[1] # q => worker'[v] = worker[v]
      BY <1>1 DEF CreateQueue
    <2>7. \A t \in Task : row[t].queue # q => row'[t] = row[t]
      BY <1>1 DEF CreateQueue, ResetRunning
    <2>8. ExclusiveExecution'
      <3> SUFFICES ASSUME NEW v \in Worker, NEW t \in Task, Holds(v, t)'
                   PROVE  /\ row'[t].st = "running"
                          /\ row'[t].queue = v[1]
                          /\ row'[t].attempt = worker'[v].attempt
                          /\ \A u \in Worker : Holds(u, t)' => u = v
        BY DEF ExclusiveExecution
      <3>1. v[1] # q /\ Holds(v, t)
        BY <2>5
      <3>2. row[t].queue = v[1]
        BY <3>1, HeldIsRunning
      <3> QED
        BY <3>1, <3>2, <2>5, <2>6, <2>7 DEF Exclusive, ExclusiveExecution
    <2>9. Clamped(c) \in 1..MaxConcurrency
      BY <1>1, ClampedRange DEF CreateQueue
    <2>10. LifeStructure'
      <3>1. svc' # "down"
        BY <1>1 DEF CreateQueue, DBOpen
      <3>2. \A v \in Worker : v \in Spawned /\ v[1] # q => v \in Spawned'
        BY <1>1 DEF CreateQueue, Spawned, Worker, TypeOK
      <3>3. \A v \in Worker : v[1] = q /\ v[2] <= Clamped(c) => v \in Spawned'
        BY <1>1 DEF CreateQueue, Spawned, Worker, TypeOK
      <3>4. \A v \in Worker : v[1] = q /\ ~(v[2] <= Clamped(c)) => worker'[v].pc = "off"
        BY <1>1, <2>3 DEF CreateQueue
      <3> QED
        BY <3>1, <3>2, <3>3, <3>4, <2>6 DEF Exclusive, LifeStructure
    <2> QED
      BY <2>8, <2>10 DEF Exclusive
  <1>2. ASSUME NEW q \in Queue, NEW t \in Task, Enqueue(q, t) PROVE Exclusive'
    <2>1. \A v \in Worker, x \in Task : Holds(v, x) => row'[x] = row[x]
      BY <1>2, HeldIsRunning DEF Enqueue, TypeOK
    <2> QED
      BY <1>2, <2>1, ExclusiveRows DEF Enqueue, DBOpen
  <1>3. ASSUME NEW t \in Task, Cancel(t) PROVE Exclusive'
    <2>1. \A v \in Worker, x \in Task : Holds(v, x) => row'[x] = row[x]
      BY <1>3, HeldIsRunning DEF Cancel, Cancellable, TypeOK
    <2> QED
      BY <1>3, <2>1, ExclusiveRows DEF Cancel, DBOpen
  <1>4. ASSUME NEW q \in Queue, ClearQueue(q) PROVE Exclusive'
    <2>1. \A v \in Worker, x \in Task : Holds(v, x) => row'[x] = row[x]
      BY <1>4, HeldIsRunning DEF ClearQueue
    <2> QED
      BY <1>4, <2>1, ExclusiveRows DEF ClearQueue, DBOpen
  <1> QED
    BY <1>1, <1>2, <1>3, <1>4 DEF HostCall

LEMMA ExclusiveWorkerStep ==
  ASSUME TypeOK, Exclusive, NEW w \in Worker, WorkerStep(w)
  PROVE  Exclusive'
  <1>1. CASE Wake(w) \/ Poll(w) \/ Exit(w) \/ Drained(w) \/ DequeueFault(w) \/ SettleCut(w)
    BY <1>1, ExclusiveGoto DEF Wake, Poll, Exit, Drained, DequeueFault, SettleCut
  <1>2. ASSUME NEW t \in Task, Dequeue(w, t) PROVE Exclusive'
    <2>1. row[t].st = "pending" /\ row[t].queue = w[1]
      BY <1>2 DEF Dequeue, Eligible
    <2>2. \A v \in Worker : ~Holds(v, t)
      BY <2>1, HeldIsRunning
    <2>3. /\ row'[t].st = "running" /\ row'[t].queue = w[1]
          /\ row'[t].attempt = row[t].attempt + 1
          /\ \A x \in Task : x # t => row'[x] = row[x]
      BY <1>2, <2>1 DEF Dequeue, Claim, TypeOK, Row
    <2>4. /\ worker'[w].pc \in Holding /\ worker'[w].task = t
          /\ worker'[w].attempt = row[t].attempt + 1
          /\ \A v \in Worker : v # w => worker'[v] = worker[v]
      BY <1>2 DEF Dequeue, TypeOK, Holding
    <2>5. ExclusiveExecution'
      <3> SUFFICES ASSUME NEW v \in Worker, NEW x \in Task, Holds(v, x)'
                   PROVE  /\ row'[x].st = "running"
                          /\ row'[x].queue = v[1]
                          /\ row'[x].attempt = worker'[v].attempt
                          /\ \A u \in Worker : Holds(u, x)' => u = v
        BY DEF ExclusiveExecution
      <3>1. CASE v = w
        BY <3>1, <2>2, <2>3, <2>4 DEF Holds
      <3>2. CASE v # w
        <4>1. Holds(v, x) /\ x # t
          BY <3>2, <2>2, <2>4 DEF Holds
        <4>2. ~Holds(w, x)'
          BY <4>1, <2>4 DEF Holds
        <4>3. \A u \in Worker : Holds(u, x)' => Holds(u, x)
          BY <4>2, <2>4 DEF Holds
        <4> QED
          BY <4>1, <4>3, <3>2, <2>3, <2>4 DEF Exclusive, ExclusiveExecution
      <3> QED
        BY <3>1, <3>2
    <2>6. LifeStructure'
      <3>1. w \in Spawned
        BY <1>2 DEF Dequeue, Exclusive, LifeStructure
      <3> QED
        BY <1>2, <3>1, <2>4 DEF Dequeue, Exclusive, LifeStructure, Spawned, Exists
    <2> QED
      BY <2>5, <2>6 DEF Exclusive
  <1>3. ASSUME NEW t \in Task, DequeueCut(w, t) PROVE Exclusive'
    <2>1. \A v \in Worker, x \in Task : Holds(v, x) => row'[x] = row[x]
      BY <1>3, HeldIsRunning DEF DequeueCut, Claim, Eligible, TypeOK
    <2> QED
      BY <1>3, <2>1, ExclusiveGoto DEF DequeueCut
  <1>4. CASE Admit(w)
    BY <1>4, ExclusiveAdvance DEF Admit, TypeOK, WorkerState, Holding
  <1>5. CASE Lookup(w)
    BY <1>5, ExclusiveAdvance DEF Lookup, TypeOK, WorkerState, Holding
  <1>6. ASSUME worker[w].pc \in Holding
        PROVE  \A v \in Worker, x \in Task :
                    v # w /\ Holds(v, x) => x # worker[w].task
    BY <1>6 DEF Exclusive, ExclusiveExecution, Holds
  <1>7. CASE CompleteTask(w)
    <2>1. \A v \in Worker, x \in Task : v # w /\ Holds(v, x) => row'[x] = row[x]
      BY <1>6, <1>7 DEF CompleteTask, TypeOK, Holding
    <2> QED
      BY <1>7, <2>1, ExclusiveGoto DEF CompleteTask
  <1>8. CASE HandleTaskFailure(w)
    <2>1. \A v \in Worker, x \in Task : v # w /\ Holds(v, x) => row'[x] = row[x]
      BY <1>6, <1>8 DEF HandleTaskFailure, TypeOK, Holding
    <2> QED
      BY <1>8, <2>1, ExclusiveGoto DEF HandleTaskFailure
  <1>9. CASE SettleFault(w)
    BY <1>9, ExclusiveGoto DEF SettleFault
  <1>10. CASE Revert(w)
    <2>1. \A v \in Worker, x \in Task : v # w /\ Holds(v, x) => row'[x] = row[x]
      BY <1>6, <1>10 DEF Revert, Reverted, TypeOK, Holding
    <2> QED
      BY <1>10, <2>1, ExclusiveGoto DEF Revert
  <1> QED
    BY <1>1, <1>2, <1>3, <1>4, <1>5, <1>7, <1>8, <1>9, <1>10 DEF WorkerStep

LEMMA ExclusiveLife ==
  ASSUME TypeOK, Exclusive, Life
  PROVE  Exclusive'
  <1>1. CASE Load
    <2>1. \A w \in Worker : w \notin Spawned
      BY <1>1, BudgetAssumption DEF Load, Exclusive, LifeStructure, Exists,
                                   Spawned, Worker, TypeOK
    <2>2. \A w \in Worker : worker[w].pc = "off"
      BY <2>1 DEF Exclusive, LifeStructure
    <2> QED
      BY <1>1, <2>2 DEF Load, Exclusive, LifeStructure, ExclusiveExecution,
                        Holds, Holding
  <1>2. CASE Unregister \/ CloseCancel \/ StopCancel \/ StopLock
    BY <1>2, ExclusiveRows DEF Unregister, CloseCancel, StopCancel, StopLock
  <1>3. ASSUME EndLife PROVE Exclusive'
    <2>1. \A w \in Worker : worker'[w].pc = "off"
      BY <1>3 DEF EndLife, Off
    <2>2. \A q \in Queue : ~Exists(q)'
      BY <1>3 DEF EndLife, Absent, Exists
    <2> QED
      BY <2>1, <2>2 DEF Exclusive, LifeStructure, ExclusiveExecution, Holds, Holding
  <1> QED
    BY <1>1, <1>2, <1>3 DEF Life, Crash, CloseFinish

LEMMA ExclusiveInit == Init => Exclusive
  BY DEF Init, Exclusive, LifeStructure, ExclusiveExecution, Holds, Holding,
         Off, Absent, Exists

LEMMA ExclusiveNext == TypeOK /\ Exclusive /\ [Next]_vars => Exclusive'
  <1> SUFFICES ASSUME TypeOK, Exclusive, [Next]_vars PROVE Exclusive'
    OBVIOUS
  <1>1. CASE UNCHANGED vars
    BY <1>1 DEF Exclusive, LifeStructure, ExclusiveExecution, Holds, Exists,
                Spawned, vars
  <1>2. ASSUME NEW w \in Worker, NEW result \in {"ok", "error"},
               CallbackReturns(w, result)
        PROVE  Exclusive'
    BY <1>2, ExclusiveAdvance DEF CallbackReturns, TypeOK, WorkerState, Holding
  <1>4. ASSUME NEW t \in Task, BackoffElapses(t) PROVE Exclusive'
    <2>1. \A v \in Worker, x \in Task : Holds(v, x) => row'[x] = row[x]
      BY <1>4, HeldIsRunning DEF BackoffElapses, TypeOK
    <2>2. CASE svc # "down"
      BY <1>4, <2>1, <2>2, ExclusiveRows DEF BackoffElapses
    <2>3. CASE svc = "down"
      BY <1>4, <2>1, <2>3 DEF BackoffElapses, Exclusive, LifeStructure,
                              ExclusiveExecution, Holds, Exists, Spawned
    <2> QED
      BY <2>2, <2>3
  <1>5. ASSUME NEW S \in SUBSET Task, RunCleanup(S) PROVE Exclusive'
    <2>1. \A v \in Worker, x \in Task : Holds(v, x) => row'[x] = row[x]
      BY <1>5, HeldIsRunning DEF RunCleanup, Terminal
    <2> QED
      BY <1>5, <2>1, ExclusiveRows DEF RunCleanup
  <1> QED
    BY <1>1, <1>2, <1>4, <1>5, ExclusiveHostCall, ExclusiveWorkerStep,
       ExclusiveLife DEF Next

\* No task is ever in two workers' hands, and a worker's row is still its own.
THEOREM ExclusiveExecutionHolds == Spec => []ExclusiveExecution
  <1>1. Exclusive => ExclusiveExecution
    BY DEF Exclusive
  <1> QED
    BY TypeInit, TypeNext, ExclusiveInit, ExclusiveNext, <1>1, PTL DEF Spec

-----------------------------------------------------------------------------
(* The budget of workers *)

\* Queues are registered by CreateQueue and forgotten at the end of a life.
LEMMA QueueSteps ==
  ASSUME [Next]_vars
  PROVE  \/ UNCHANGED cfg
         \/ EndLife
         \/ \E q \in Queue, c \in Requested, r \in Retries : CreateQueue(q, c, r)
  <1>1. CASE HostCall
    BY <1>1 DEF HostCall, Enqueue, Cancel, ClearQueue
  <1>2. ASSUME NEW w \in Worker, WorkerStep(w) PROVE UNCHANGED cfg
    BY <1>2 DEF WorkerStep, Wake, Poll, Exit, Dequeue, DequeueCut, Drained, DequeueFault, Admit,
                Lookup, CompleteTask, HandleTaskFailure, SettleFault, Revert, SettleCut
  <1>3. CASE Life
    BY <1>3 DEF Life, Load, Unregister, CloseCancel, StopCancel, StopLock, Crash, CloseFinish
  <1> QED
    BY <1>1, <1>2, <1>3 DEF Next, CallbackReturns, BackoffElapses, RunCleanup, vars

Budgeted == Cardinality(Spawned) <= MaxConcurrency

\* The workers CreateQueue adds are what clampConcurrency left of the budget.
LEMMA CreateBudget ==
  ASSUME TypeOK, Budgeted, NEW q \in Queue, NEW c \in Requested, NEW r \in Retries, CreateQueue(q, c, r)
  PROVE  Budgeted'
  <1>1. PICK n : n = Clamped(c)
    OBVIOUS
  <1>2. n \in 1..MaxConcurrency /\ n <= Available
    BY <1>1, ClampedRange DEF CreateQueue
  <1> DEFINE New == {q} \X (1..n)
  <1>3. Spawned' \subseteq Spawned \cup New
    <2> SUFFICES ASSUME NEW w \in Spawned' PROVE w \in Spawned \cup New
      OBVIOUS
    <2>1. w \in Worker /\ w[2] <= cfg'[w[1]].conc
      BY DEF Spawned
    <2>2. CASE w[1] = q
      <3>1. cfg'[q].conc = n
        BY <1>1 DEF CreateQueue, TypeOK
      <3>2. w[2] \in 1..n /\ w = <<q, w[2]>>
        BY <1>2, <2>1, <2>2, <3>1, BudgetAssumption DEF Worker
      <3> QED
        BY <3>2
    <2>3. CASE w[1] # q
      <3>1. cfg'[w[1]] = cfg[w[1]]
        BY <2>1, <2>3 DEF CreateQueue, TypeOK, Worker
      <3> QED
        BY <2>1, <3>1 DEF Spawned
    <2> QED
      BY <2>2, <2>3
  <1>4. IsFiniteSet(New) /\ Cardinality(New) = n
    <2>1. IsFiniteSet({q}) /\ Cardinality({q}) = 1
      BY FS_Singleton
    <2>2. IsFiniteSet(1..n) /\ Cardinality(1..n) = n
      BY <1>2, BudgetAssumption, FS_Interval
    <2>3. PICK S, T : S = {q} /\ T = 1..n
      OBVIOUS
    <2>4. IsFiniteSet(S \X T) /\ Cardinality(S \X T) = Cardinality(S) * Cardinality(T)
      BY <2>1, <2>2, <2>3, FS_Product
    <2>5. Cardinality(S \X T) = 1 * n
      BY <2>1, <2>2, <2>3, <2>4
    <2> QED
      BY <1>2, <2>3, <2>4, <2>5, BudgetAssumption
  <1> HIDE DEF New
  <1>5. IsFiniteSet(Spawned)
    BY WorkerFinite, FS_Subset DEF Spawned
  <1>6. PICK a, x \in Nat : a = Cardinality(Spawned) /\ x = Cardinality(Spawned \cap New)
    <2>1. IsFiniteSet(Spawned \cap New)
      BY <1>5, FS_Subset
    <2> QED
      BY <2>1, SpawnedNat, FS_CardinalityType
  <1>7. IsFiniteSet(Spawned \cup New) /\ Cardinality(Spawned \cup New) = a + n - x
    BY <1>4, <1>5, <1>6, FS_Union
  <1>8. PICK b \in Nat : b = Cardinality(Spawned')
    <2>1. IsFiniteSet(Spawned')
      BY <1>3, <1>7, FS_Subset
    <2> QED
      BY <2>1, FS_CardinalityType
  <1>9. b <= a + n - x
    BY <1>3, <1>7, <1>8, FS_Subset
  <1>10. n <= MaxConcurrency - a
    BY <1>2, <1>6 DEF Available
  <1>11. b <= MaxConcurrency
    BY <1>2, <1>6, <1>8, <1>9, <1>10, BudgetAssumption
  <1> QED
    BY <1>8, <1>11 DEF Budgeted

LEMMA BudgetNext == TypeOK /\ Budgeted /\ [Next]_vars => Budgeted'
  <1> SUFFICES ASSUME TypeOK, Budgeted, [Next]_vars PROVE Budgeted'
    OBVIOUS
  <1>1. CASE UNCHANGED cfg
    BY <1>1 DEF Budgeted, Spawned
  <1>2. CASE EndLife
    <2>1. Spawned' = {}
      BY <1>2, BudgetAssumption DEF EndLife, Absent, Spawned, Worker
    <2>2. Cardinality(Spawned') = 0
      BY <2>1, FS_EmptySet
    <2> QED
      BY <2>2, BudgetAssumption DEF Budgeted
  <1> QED
    BY <1>1, <1>2, QueueSteps, CreateBudget

\* The workers alive in one life are never more than the manifest's
\* concurrency, however many queues the plugin creates and whatever it asks
\* for, and each belongs to a registered queue.
THEOREM WorkersWithinBudget == Spec => []ConcurrencyBudget
  <1>1. Init => Budgeted
    <2> SUFFICES ASSUME Init PROVE Budgeted
      OBVIOUS
    <2>1. Spawned = {}
      BY BudgetAssumption DEF Init, Absent, Spawned, Worker
    <2>2. Cardinality(Spawned) = 0
      BY <2>1, FS_EmptySet
    <2> QED
      BY <2>2, BudgetAssumption DEF Budgeted
  <1>2. Budgeted /\ Exclusive => ConcurrencyBudget
    BY DEF Budgeted, Exclusive, LifeStructure, ConcurrencyBudget
  <1> QED
    BY <1>1, <1>2, BudgetNext, TypeInit, TypeNext, ExclusiveInit, ExclusiveNext, PTL DEF Spec

-----------------------------------------------------------------------------
(* No orphans *)

\* A worker goes back to its loop.
LEMMA LetsGo ==
  ASSUME TypeOK, NEW w \in Worker, NEW pc \in {"off", "drain", "select"}, Goto(w, pc)
  PROVE  /\ worker'[w].pc = pc
         /\ \A v \in Worker : v # w => worker'[v] = worker[v]
         /\ \A v \in Worker, t \in Task : v # w /\ Holds(v, t) => Holds(v, t)'
  <1>1. At(pc).pc = pc
    BY DEF At, Off
  <1>2. worker'[w] = At(pc) /\ \A v \in Worker : v # w => worker'[v] = worker[v]
    BY DEF Goto, TypeOK
  <1> QED
    BY <1>1, <1>2 DEF Holds

\* A worker that holds a task moves on with it.
LEMMA KeepsHold ==
  ASSUME TypeOK, NEW w \in Worker, worker[w].pc \in Holding,
         Admit(w) \/ Lookup(w) \/ \E result \in {"ok", "error"} : CallbackReturns(w, result)
  PROVE  /\ worker'[w].pc \in {"lookup", "call", "returned"} /\ worker'[w].task = worker[w].task
         /\ \A v \in Worker : v # w => worker'[v] = worker[v]
         /\ \A v \in Worker, t \in Task : Holds(v, t) => Holds(v, t)'
  <1>1. worker'[w].pc \in {"lookup", "call", "returned"} /\ worker'[w].task = worker[w].task
    BY DEF Admit, Lookup, CallbackReturns, TypeOK, WorkerState
  <1>2. \A v \in Worker : v # w => worker'[v] = worker[v]
    BY DEF Admit, Lookup, CallbackReturns, TypeOK
  <1> QED
    BY <1>1, <1>2 DEF Holds, Holding

\* Steps that start no row and break no hold.
LEMMA OrphansSame ==
  ASSUME NoOrphans, UNCHANGED cfg,
         svc' = "open" => svc = "open", lifeFaults' = 0 => lifeFaults = 0,
         \A t \in Task : row'[t].st = "running" => row[t].st = "running" /\ row'[t].queue = row[t].queue,
         \A t \in Task, w \in Worker :
            svc' = "open" /\ lifeFaults' = 0 /\ row'[t].st = "running" /\ Holds(w, t) => Holds(w, t)'
  PROVE  NoOrphans'
  <1> SUFFICES ASSUME NEW t \in Task, row'[t].st = "running", Exists(row[t].queue)',
                      svc' = "open", lifeFaults' = 0
               PROVE  \E w \in Worker : Holds(w, t)'
    BY DEF NoOrphans
  <1>1. PICK w \in Worker : Holds(w, t)
    BY DEF NoOrphans, Exists
  <1> QED
    BY <1>1

LEMMA OrphansCreate ==
  ASSUME TypeOK, Exclusive, NoOrphans,
         NEW q \in Queue, NEW c \in Requested, NEW r \in Retries, CreateQueue(q, c, r)
  PROVE  NoOrphans'
  <1> SUFFICES ASSUME NEW t \in Task, row'[t].st = "running", Exists(row[t].queue)',
                      svc' = "open", lifeFaults' = 0
               PROVE  \E w \in Worker : Holds(w, t)'
    BY DEF NoOrphans
  <1>1. row[t] \in Row
    BY DEF TypeOK
  <1>2. row'[t] = row[t] /\ row[t].queue # q
    BY <1>1 DEF CreateQueue, ResetRunning, Row
  <1>3. cfg'[row[t].queue] = cfg[row[t].queue] /\ svc = "open" /\ lifeFaults = 0
    BY <1>1, <1>2 DEF CreateQueue, TypeOK, Row
  <1>4. PICK w \in Worker : Holds(w, t)
    BY <1>2, <1>3 DEF NoOrphans, Exists
  <1>5. w[1] # q
    BY <1>2, <1>4, HeldIsRunning
  <1>6. worker'[w] = worker[w]
    BY <1>5 DEF CreateQueue
  <1> QED
    BY <1>4, <1>6 DEF Holds

LEMMA OrphansWorkerStep ==
  ASSUME TypeOK, Exclusive, NoOrphans, NEW w \in Worker, WorkerStep(w)
  PROVE  NoOrphans'
  <1>1. CASE Wake(w) \/ Poll(w) \/ Exit(w) \/ Drained(w) \/ DequeueFault(w)
    <2>1. \A t \in Task : ~Holds(w, t)
      BY <1>1 DEF Wake, Poll, Exit, Drained, DequeueFault, Holds, Holding
    <2>2. PICK pc \in {"off", "drain", "select"} : Goto(w, pc)
      BY <1>1 DEF Wake, Poll, Exit, Drained, DequeueFault
    <2>3. \A t \in Task, v \in Worker : Holds(v, t) => Holds(v, t)'
      BY <2>1, <2>2, LetsGo
    <2>4. UNCHANGED <<row, cfg, svc>> /\ (lifeFaults' = 0 => lifeFaults = 0)
      BY <1>1 DEF Wake, Poll, Exit, Drained, DequeueFault, TypeOK, history
    <2> QED
      BY <2>3, <2>4, OrphansSame
  <1>2. ASSUME NEW t \in Task, Dequeue(w, t) PROVE NoOrphans'
    <2>1. /\ worker'[w].pc \in Holding /\ worker'[w].task = t
          /\ \A v \in Worker : v # w => worker'[v] = worker[v]
      BY <1>2 DEF Dequeue, TypeOK, Holding
    <2>2. \A x \in Task : x # t => row'[x] = row[x]
      BY <1>2 DEF Dequeue, Claim, TypeOK
    <2>3. \A x \in Task : ~Holds(w, x)
      BY <1>2 DEF Dequeue, Holds, Holding
    <2> SUFFICES ASSUME NEW x \in Task, row'[x].st = "running", Exists(row[x].queue)',
                        svc' = "open", lifeFaults' = 0
                 PROVE  \E v \in Worker : Holds(v, x)'
      BY DEF NoOrphans
    <2>4. CASE x = t
      BY <2>1, <2>4 DEF Holds
    <2>5. CASE x # t
      <3>1. PICK v \in Worker : Holds(v, x)
        BY <1>2, <2>2, <2>5 DEF NoOrphans, Exists, Dequeue
      <3> QED
        BY <2>1, <2>3, <3>1 DEF Holds
    <2> QED
      BY <2>4, <2>5
  <1>3. CASE (\E t \in Task : DequeueCut(w, t)) \/ Revert(w) \/ SettleCut(w)
    BY <1>3 DEF DequeueCut, Revert, SettleCut, NoOrphans
  <1>4. CASE Admit(w) \/ Lookup(w)
    <2>1. worker[w].pc \in Holding
      BY <1>4 DEF Admit, Lookup, Holding
    <2>2. \A v \in Worker, t \in Task : Holds(v, t) => Holds(v, t)'
      BY <1>4, <2>1, KeepsHold
    <2>3. UNCHANGED <<row, cfg, svc, lifeFaults>>
      BY <1>4 DEF Admit, Lookup, history
    <2> QED
      BY <2>2, <2>3, OrphansSame
  <1>5. CASE CompleteTask(w) \/ HandleTaskFailure(w)
    <2>1. worker[w].task \in Task /\ Goto(w, "drain") /\ UNCHANGED <<cfg, svc, lifeFaults>>
      BY <1>5 DEF CompleteTask, HandleTaskFailure, TypeOK, Holding, history
    <2>2. PICK t \in Task : t = worker[w].task
      BY <2>1
    <2>3. row'[t].st # "running" /\ \A x \in Task : x # t => row'[x] = row[x]
      BY <1>5, <2>2 DEF CompleteTask, HandleTaskFailure, TypeOK, Row
    <2>4. \A x \in Task, v \in Worker : row'[x].st = "running" /\ Holds(v, x) => Holds(v, x)'
      BY <2>1, <2>2, <2>3, LetsGo DEF Holds
    <2> QED
      BY <2>1, <2>3, <2>4, OrphansSame
  <1>6. CASE SettleFault(w)
    <2>1. lifeFaults' # 0
      BY <1>6 DEF SettleFault, TypeOK
    <2> QED
      BY <2>1 DEF NoOrphans
  <1> QED
    BY <1>1, <1>2, <1>3, <1>4, <1>5, <1>6 DEF WorkerStep

LEMMA OrphansNext == TypeOK /\ Exclusive /\ NoOrphans /\ [Next]_vars => NoOrphans'
  <1> SUFFICES ASSUME TypeOK, Exclusive, NoOrphans, [Next]_vars PROVE NoOrphans'
    OBVIOUS
  <1>1. ASSUME UNCHANGED <<cfg, svc, worker, lifeFaults>>,
               \A t \in Task : row'[t].st = "running" => row[t].st = "running" /\ row'[t].queue = row[t].queue
        PROVE  NoOrphans'
    <2>1. \A t \in Task, w \in Worker : Holds(w, t) => Holds(w, t)'
      BY <1>1 DEF Holds
    <2> QED
      BY <1>1, <2>1, OrphansSame
  <1>2. CASE HostCall
    <2>1. ASSUME NEW q \in Queue, NEW t \in Task, Enqueue(q, t) PROVE NoOrphans'
      <3>1. \A x \in Task : row'[x].st = "running" => row'[x] = row[x]
        BY <2>1 DEF Enqueue, TypeOK
      <3> QED
        BY <1>1, <2>1, <3>1 DEF Enqueue, history
    <2>2. ASSUME NEW t \in Task, Cancel(t) PROVE NoOrphans'
      <3>1. \A x \in Task : row'[x].st = "running" => row'[x] = row[x]
        BY <2>2 DEF Cancel, TypeOK, Row
      <3> QED
        BY <1>1, <2>2, <3>1 DEF Cancel, history
    <2>3. ASSUME NEW q \in Queue, ClearQueue(q) PROVE NoOrphans'
      <3>1. \A x \in Task : row'[x].st = "running" => row'[x] = row[x]
        BY <2>3 DEF ClearQueue, TypeOK, Row
      <3> QED
        BY <1>1, <2>3, <3>1 DEF ClearQueue, history
    <2> QED
      BY <1>2, <2>1, <2>2, <2>3, OrphansCreate DEF HostCall
  <1>3. ASSUME NEW w \in Worker, NEW result \in {"ok", "error"}, CallbackReturns(w, result) PROVE NoOrphans'
    <2>1. worker[w].pc \in Holding /\ UNCHANGED <<row, cfg, svc, lifeFaults>>
      BY <1>3 DEF CallbackReturns, Holding, history
    <2>2. \A v \in Worker, t \in Task : Holds(v, t) => Holds(v, t)'
      BY <1>3, <2>1, KeepsHold
    <2> QED
      BY <2>1, <2>2, OrphansSame
  <1>4. ASSUME NEW t \in Task, BackoffElapses(t) PROVE NoOrphans'
    <2>1. \A x \in Task : row'[x].st = row[x].st /\ row'[x].queue = row[x].queue
      BY <1>4 DEF BackoffElapses, TypeOK, Row
    <2> QED
      BY <1>1, <1>4, <2>1 DEF BackoffElapses
  <1>5. ASSUME NEW S \in SUBSET Task, RunCleanup(S) PROVE NoOrphans'
    <2>1. \A x \in Task : row'[x].st = "running" => row'[x] = row[x]
      BY <1>5 DEF RunCleanup, TypeOK, Row
    <2> QED
      BY <1>1, <1>5, <2>1 DEF RunCleanup, history
  <1>6. CASE Life
    <2>1. CASE Load
      BY <2>1 DEF Load, NoOrphans, Exclusive, LifeStructure, Exists, TypeOK, Row
    <2>2. CASE Unregister
      BY <1>1, <2>2 DEF Unregister, history
    <2>3. CASE CloseCancel \/ StopCancel \/ StopLock \/ EndLife
      BY <2>3 DEF CloseCancel, StopCancel, StopLock, EndLife, NoOrphans
    <2> QED
      BY <1>6, <2>1, <2>2, <2>3 DEF Life, Crash, CloseFinish
  <1>7. CASE UNCHANGED vars
    BY <1>1, <1>7 DEF vars
  <1> QED
    BY <1>2, <1>3, <1>4, <1>5, <1>6, <1>7, OrphansWorkerStep DEF Next

\* While the service runs and no statement of this life has failed, a running
\* row of a registered queue is in a worker's hands: what crashes, shutdowns
\* and cut statements left running is reset before its queue has a worker.
THEOREM NoTaskOrphaned == Spec => []NoOrphans
  <1>1. Init => NoOrphans
    BY DEF Init, NoOrphans
  <1> QED
    BY <1>1, OrphansNext, TypeInit, TypeNext, ExclusiveInit, ExclusiveNext, PTL DEF Spec

-----------------------------------------------------------------------------
(* No lost wake-up *)

Awake(w) == worker[w].pc \notin {"off", "select"}
Announced(q) == q \in signal \/ \E w \in WorkersOf(q) : Awake(w)
Ready(t) == row[t].st = "pending" /\ row[t].next = "due" /\ t \notin silent

LEMMA WakeupMeans ==
  NoLostWakeup <=>
    \A t \in Task : Ready(t) /\ Exists(row[t].queue) /\ svc = "open" /\ lifeFaults = 0 =>
        Announced(row[t].queue)
  BY DEF NoLostWakeup, Ready, Announced, Awake

\* A task that was not ready before is announced by the step that makes it
\* so, and no step silences the announcement of another.
LEMMA WakeupSame ==
  ASSUME NoLostWakeup, UNCHANGED cfg,
         svc' = "open" => svc = "open", lifeFaults' = 0 => lifeFaults = 0,
         \A t \in Task : svc' = "open" /\ lifeFaults' = 0 /\ Ready(t)' =>
            \/ Announced(row[t].queue)'
            \/ /\ Ready(t) /\ row'[t].queue = row[t].queue
               /\ \A q : q = row[t].queue /\ Announced(q) => Announced(q)'
  PROVE  NoLostWakeup'
  <1> SUFFICES ASSUME NEW t \in Task, Ready(t)', Exists(row[t].queue)', svc' = "open", lifeFaults' = 0
               PROVE  Announced(row[t].queue)'
    BY DEF NoLostWakeup, Ready, Announced, Awake
  <1>1. CASE /\ Ready(t) /\ row'[t].queue = row[t].queue
             /\ \A q : q = row[t].queue /\ Announced(q) => Announced(q)'
    <2>1. PICK q : q = row[t].queue
      OBVIOUS
    <2>2. Announced(q)
      BY <1>1, <2>1, WakeupMeans DEF Exists
    <2>3. Announced(q)'
      BY <1>1, <2>1, <2>2
    <2> QED
      BY <1>1, <2>1, <2>3 DEF Announced
  <1> QED
    BY <1>1

\* Who was told stays told when no signal is taken and nobody falls asleep.
LEMMA StaysAnnounced ==
  ASSUME NEW q, Announced(q), signal \subseteq signal', \A w \in WorkersOf(q) : Awake(w) => Awake(w)'
  PROVE  Announced(q)'
  BY DEF Announced

\* The rows change, the workers do not.
LEMMA WakeupRows ==
  ASSUME NoLostWakeup, UNCHANGED <<cfg, worker, silent, lifeFaults>>, svc' = svc \/ svc' # "open",
         signal \subseteq signal',
         \A t \in Task : Ready(t)' => \/ row'[t].queue \in signal'
                                      \/ row'[t].queue = row[t].queue /\ Ready(t)
  PROVE  NoLostWakeup'
  <1>1. ASSUME NEW t \in Task, Ready(t)'
        PROVE  \/ Announced(row[t].queue)'
               \/ /\ Ready(t) /\ row'[t].queue = row[t].queue
                  /\ \A q : q = row[t].queue /\ Announced(q) => Announced(q)'
    <2>1. CASE row'[t].queue \in signal'
      BY <2>1 DEF Announced
    <2>2. \A q : Announced(q) => Announced(q)'
      BY StaysAnnounced DEF Awake
    <2> QED
      BY <1>1, <2>1, <2>2
  <1> QED
    BY <1>1, WakeupSame

LEMMA WakeupCreate ==
  ASSUME TypeOK, NoLostWakeup,
         NEW q \in Queue, NEW c \in Requested, NEW r \in Retries, CreateQueue(q, c, r)
  PROVE  NoLostWakeup'
  <1> SUFFICES ASSUME NEW t \in Task, Ready(t)', Exists(row[t].queue)', svc' = "open", lifeFaults' = 0
               PROVE  Announced(row[t].queue)'
    BY DEF NoLostWakeup, Ready, Announced, Awake
  <1>1. row[t] \in Row
    BY DEF TypeOK
  <1>2. PICK k \in Queue : k = row[t].queue /\ k = row'[t].queue
    BY <1>1 DEF CreateQueue, ResetRunning, Row
  <1>3. CASE k = q
    <2>1. Clamped(c) \in 1..MaxConcurrency
      BY ClampedRange DEF CreateQueue
    <2>2. PICK w \in Worker : w = <<q, 1>>
      <3>1. <<q, 1>> \in Worker
        BY BudgetAssumption DEF Worker
      <3> QED
        BY <3>1
    <2>3. worker'[w] = At("drain")
      BY <2>1, <2>2, BudgetAssumption DEF CreateQueue
    <2>4. Awake(w)' /\ w \in WorkersOf(q)
      BY <2>2, <2>3 DEF Awake, WorkersOf, At, Off
    <2> QED
      BY <1>2, <1>3, <2>4 DEF Announced
  <1>4. CASE k # q
    <2>1. row'[t] = row[t] /\ (t \in silent' <=> t \in silent)
      BY <1>2, <1>4 DEF CreateQueue, ResetRunning, TypeOK
    <2>2. cfg'[k] = cfg[k] /\ svc = "open" /\ lifeFaults = 0
      BY <1>4 DEF CreateQueue, TypeOK
    <2>3. Ready(t)
      BY <2>1 DEF Ready
    <2>4. Announced(k)
      BY <1>2, <2>2, <2>3, WakeupMeans DEF Exists
    <2>5. \A w \in WorkersOf(k) : worker'[w] = worker[w]
      BY <1>4 DEF CreateQueue, WorkersOf
    <2>6. Announced(k)'
      BY <1>4, <2>4, <2>5 DEF Announced, Awake, CreateQueue
    <2> QED
      BY <1>2, <2>6 DEF Announced
  <1> QED
    BY <1>3, <1>4

LEMMA WakeupWorkerStep ==
  ASSUME TypeOK, NoLostWakeup, NEW w \in Worker, WorkerStep(w)
  PROVE  NoLostWakeup'
  <1>1. CASE Wake(w) \/ Poll(w)
    <2>1. Awake(w)' /\ \A v \in Worker : v # w => worker'[v] = worker[v]
      BY <1>1, LetsGo DEF Wake, Poll, Awake
    <2>2. w \in WorkersOf(w[1]) /\ \A q : WorkersOf(q) \subseteq Worker
      BY DEF WorkersOf
    <2>3. \A q : q # w[1] => (q \in signal' <=> q \in signal)
      BY <1>1 DEF Wake, Poll
    <2>4. \A q : Announced(q) => Announced(q)'
      BY <2>1, <2>2, <2>3 DEF Announced, Awake
    <2>5. UNCHANGED <<row, cfg, svc, silent, lifeFaults>>
      BY <1>1 DEF Wake, Poll, history
    <2>6. \A t \in Task : Ready(t)' => Ready(t)
      BY <2>5 DEF Ready
    <2> QED
      BY <2>4, <2>5, <2>6, WakeupSame
  <1>2. CASE Exit(w) \/ (\E t \in Task : DequeueCut(w, t)) \/ Revert(w) \/ SettleCut(w)
    BY <1>2 DEF Exit, DequeueCut, Revert, SettleCut, NoLostWakeup
  <1>3. CASE DequeueFault(w) \/ SettleFault(w)
    <2>1. lifeFaults' # 0
      BY <1>3 DEF DequeueFault, SettleFault, TypeOK
    <2> QED
      BY <2>1 DEF NoLostWakeup
  <1>4. CASE Drained(w)
    <2>1. UNCHANGED <<row, cfg, svc, silent, lifeFaults, signal>>
      BY <1>4 DEF Drained, history
    <2>2. \A t \in Task : svc = "open" /\ Ready(t) => row[t].queue # w[1]
      BY <1>4 DEF Drained, Eligible, Ready
    <2>3. \A v \in Worker : v # w => worker'[v] = worker[v]
      BY <1>4, LetsGo DEF Drained
    <2>4. \A q : q # w[1] /\ Announced(q) => Announced(q)'
      BY <2>1, <2>3 DEF Announced, Awake, WorkersOf
    <2>5. \A t \in Task : Ready(t)' => Ready(t)
      BY <2>1 DEF Ready
    <2> QED
      BY <2>1, <2>2, <2>4, <2>5, WakeupSame
  <1>5. ASSUME UNCHANGED <<cfg, svc, signal, lifeFaults>>, Awake(w)',
               \A v \in Worker : v # w => worker'[v] = worker[v],
               \A t \in Task : Ready(t)' => Ready(t) /\ row'[t].queue = row[t].queue
        PROVE  NoLostWakeup'
    <2>1. \A q : Announced(q) => Announced(q)'
      BY <1>5, StaysAnnounced DEF Awake, WorkersOf
    <2> QED
      BY <1>5, <2>1, WakeupSame
  <1>6. ASSUME NEW t \in Task, Dequeue(w, t) PROVE NoLostWakeup'
    <2>1. Awake(w)' /\ \A v \in Worker : v # w => worker'[v] = worker[v]
      BY <1>6 DEF Dequeue, TypeOK, Awake
    <2>2. row'[t].st = "running" /\ \A x \in Task : x # t => row'[x] = row[x]
      BY <1>6 DEF Dequeue, Claim, TypeOK, Row
    <2>3. \A x \in Task : Ready(x)' => Ready(x) /\ row'[x].queue = row[x].queue
      BY <1>6, <2>2 DEF Ready, Dequeue
    <2> QED
      BY <1>5, <1>6, <2>1, <2>3 DEF Dequeue
  <1>7. CASE Admit(w) \/ Lookup(w)
    <2>1. worker[w].pc \in Holding
      BY <1>7 DEF Admit, Lookup, Holding
    <2>2. Awake(w)' /\ \A v \in Worker : v # w => worker'[v] = worker[v]
      BY <1>7, <2>1, KeepsHold DEF Awake
    <2>3. UNCHANGED <<row, cfg, svc, signal, silent, lifeFaults>>
      BY <1>7 DEF Admit, Lookup, history
    <2>4. \A x \in Task : Ready(x)' => Ready(x) /\ row'[x].queue = row[x].queue
      BY <2>3 DEF Ready
    <2> QED
      BY <1>5, <2>2, <2>3, <2>4
  <1>8. CASE CompleteTask(w) \/ HandleTaskFailure(w)
    <2>1. /\ worker[w].task \in Task /\ Goto(w, "drain")
          /\ UNCHANGED <<cfg, svc, signal, silent, lifeFaults>>
      BY <1>8 DEF CompleteTask, HandleTaskFailure, TypeOK, Holding, history
    <2>2. Awake(w)' /\ \A v \in Worker : v # w => worker'[v] = worker[v]
      BY <2>1, LetsGo DEF Awake
    <2>3. PICK t \in Task : t = worker[w].task
      BY <2>1
    <2>4. /\ row'[t].st # "pending" \/ row'[t].next = "backoff"
          /\ \A x \in Task : x # t => row'[x] = row[x]
      BY <1>8, <2>3 DEF CompleteTask, HandleTaskFailure, TypeOK, Row
    <2>5. \A x \in Task : Ready(x)' => Ready(x) /\ row'[x].queue = row[x].queue
      BY <2>1, <2>4 DEF Ready
    <2> QED
      BY <1>5, <2>1, <2>2, <2>5
  <1> QED
    BY <1>1, <1>2, <1>3, <1>4, <1>6, <1>7, <1>8 DEF WorkerStep

LEMMA WakeupNext == TypeOK /\ Exclusive /\ NoLostWakeup /\ [Next]_vars => NoLostWakeup'
  <1> SUFFICES ASSUME TypeOK, Exclusive, NoLostWakeup, [Next]_vars PROVE NoLostWakeup'
    OBVIOUS
  <1>1. CASE HostCall
    <2>1. ASSUME NEW q \in Queue, NEW t \in Task, Enqueue(q, t) PROVE NoLostWakeup'
      <3>1. row'[t].queue = q /\ q \in signal' /\ \A x \in Task : x # t => row'[x] = row[x]
        BY <2>1 DEF Enqueue, TypeOK, Notified
      <3>2. \A x \in Task : Ready(x)' => row'[x].queue \in signal' \/ (row'[x].queue = row[x].queue /\ Ready(x))
        BY <2>1, <3>1 DEF Ready, Enqueue, history
      <3> QED
        BY <2>1, <3>2, WakeupRows DEF Enqueue, Notified, history
    <2>2. ASSUME NEW t \in Task, Cancel(t) PROVE NoLostWakeup'
      <3>1. row'[t].st = "cancelled" /\ \A x \in Task : x # t => row'[x] = row[x]
        BY <2>2 DEF Cancel, TypeOK, Row
      <3>2. \A x \in Task : Ready(x)' => row'[x].queue = row[x].queue /\ Ready(x)
        BY <2>2, <3>1 DEF Ready, Cancel, history
      <3> QED
        BY <2>2, <3>2, WakeupRows DEF Cancel, history
    <2>3. ASSUME NEW q \in Queue, ClearQueue(q) PROVE NoLostWakeup'
      <3>1. \A x \in Task : row'[x].st = "cancelled" \/ row'[x] = row[x]
        BY <2>3 DEF ClearQueue, TypeOK, Row
      <3>2. \A x \in Task : Ready(x)' => row'[x].queue = row[x].queue /\ Ready(x)
        BY <2>3, <3>1 DEF Ready, ClearQueue, history
      <3> QED
        BY <2>3, <3>2, WakeupRows DEF ClearQueue, history
    <2> QED
      BY <1>1, <2>1, <2>2, <2>3, WakeupCreate DEF HostCall
  <1>2. ASSUME NEW w \in Worker, NEW result \in {"ok", "error"}, CallbackReturns(w, result) PROVE NoLostWakeup'
    <2>1. worker[w].pc \in Holding /\ UNCHANGED <<row, cfg, svc, signal, silent, lifeFaults>>
      BY <1>2 DEF CallbackReturns, Holding, history
    <2>2. Awake(w)' /\ \A v \in Worker : v # w => worker'[v] = worker[v]
      BY <1>2, <2>1, KeepsHold DEF Awake
    <2>3. \A q : Announced(q) => Announced(q)'
      BY <2>1, <2>2, StaysAnnounced DEF Awake, WorkersOf
    <2>4. \A t \in Task : Ready(t)' => Ready(t)
      BY <2>1 DEF Ready
    <2> QED
      BY <2>1, <2>3, <2>4, WakeupSame
  <1>3. ASSUME NEW t \in Task, BackoffElapses(t) PROVE NoLostWakeup'
    <2>1. /\ \A x \in Task : x # t => row'[x] = row[x]
          /\ row'[t].queue = row[t].queue
      BY <1>3 DEF BackoffElapses, TypeOK, Row
    <2>2. /\ \A x \in Task : x # t => (x \in silent' <=> x \in silent)
          /\ t \in silent' \/ row[t].queue \in signal'
          /\ signal \subseteq signal' /\ UNCHANGED <<cfg, worker, svc, lifeFaults>>
      BY <1>3 DEF BackoffElapses, Notified
    <2>3. \A q : Announced(q) => Announced(q)'
      BY <2>2, StaysAnnounced DEF Awake
    <2>4. \A x \in Task : Ready(x)' => \/ Announced(row[x].queue)'
                                       \/ Ready(x) /\ row'[x].queue = row[x].queue
      BY <2>1, <2>2 DEF Ready, Announced
    <2> QED
      BY <2>2, <2>3, <2>4, WakeupSame
  <1>4. ASSUME NEW S \in SUBSET Task, RunCleanup(S) PROVE NoLostWakeup'
    <2>1. \A x \in Task : row'[x].st = "purged" \/ row'[x] = row[x]
      BY <1>4 DEF RunCleanup, TypeOK, Row
    <2>2. \A x \in Task : Ready(x)' => row'[x].queue = row[x].queue /\ Ready(x)
      BY <1>4, <2>1 DEF Ready, RunCleanup, history
    <2> QED
      BY <1>4, <2>2, WakeupRows DEF RunCleanup, history
  <1>5. CASE Life
    <2>1. CASE Load
      BY <2>1 DEF Load, NoLostWakeup, Exclusive, LifeStructure, Exists, TypeOK, Row
    <2>2. CASE Unregister
      <3>1. \A x \in Task : Ready(x)' => row'[x].queue = row[x].queue /\ Ready(x)
        BY <2>2 DEF Ready, Unregister, history
      <3> QED
        BY <2>2, <3>1, WakeupRows DEF Unregister, history
    <2>3. CASE CloseCancel \/ StopCancel \/ StopLock \/ EndLife
      BY <2>3 DEF CloseCancel, StopCancel, StopLock, EndLife, NoLostWakeup
    <2> QED
      BY <1>5, <2>1, <2>2, <2>3 DEF Life, Crash, CloseFinish
  <1>6. CASE UNCHANGED vars
    <2>1. \A x \in Task : Ready(x)' => row'[x].queue = row[x].queue /\ Ready(x)
      BY <1>6 DEF Ready, vars
    <2> QED
      BY <1>6, <2>1, WakeupRows DEF vars
  <1> QED
    BY <1>1, <1>2, <1>3, <1>4, <1>5, <1>6, WakeupWorkerStep DEF Next

\* A due task of a registered queue is never overlooked: a signal waits or a
\* worker of the queue is awake, although the channel holds one token, every
\* worker may take it, and a send on a full channel is dropped.
THEOREM NoWakeupLost == Spec => []NoLostWakeup
  <1>1. Init => NoLostWakeup
    BY DEF Init, NoLostWakeup
  <1> QED
    BY <1>1, WakeupNext, TypeInit, TypeNext, ExclusiveInit, ExclusiveNext, PTL DEF Spec

-----------------------------------------------------------------------------
(* The retry budget *)

\* What is counted of a task: a task in a worker's hands has an attempt that
\* is not among its failures yet, and one that can still be tried has room
\* for another failure.
Counted(t) ==
    /\ failures[t] <= row[t].attempt
    /\ row[t].st = "none" => failures[t] = 0
    /\ row[t].st \in {"pending", "running"} => failures[t] <= AtLeast0(row[t].max) + faults
    /\ failures[t] <= AtLeast0(row[t].max) + 1 + faults
    /\ row[t].st = "failed" => failures[t] >= 1
    /\ \A w \in Worker : Holds(w, t) => failures[t] < row[t].attempt

LEMMA Numbers ==
  ASSUME TypeOK, NEW t \in Task
  PROVE  /\ failures[t] \in Nat /\ faults \in Nat
         /\ row[t].attempt \in Nat /\ row[t].max \in Int /\ AtLeast0(row[t].max) \in Nat
         /\ row[t].st \in Status
  <1>1. row[t] \in Row /\ failures[t] \in Nat /\ faults \in Nat
    BY BoundAssumption DEF TypeOK
  <1> QED
    BY <1>1 DEF Row, AtLeast0

\* Only the dequeue puts a task into a worker's hands.
LEMMA HoldsSteps ==
  ASSUME TypeOK, [Next]_vars, ~(\E w \in Worker, t \in Task : Dequeue(w, t))
  PROVE  \A w \in Worker, t \in Task : Holds(w, t)' => Holds(w, t)
  <1>1. CASE UNCHANGED worker
    BY <1>1 DEF Holds
  <1>2. ASSUME NEW v \in Worker, NEW pc \in {"off", "drain", "select"}, Goto(v, pc)
        PROVE  \A w \in Worker, t \in Task : Holds(w, t)' => Holds(w, t)
    BY <1>2, LetsGo DEF Holds, Holding
  <1>3. ASSUME NEW v \in Worker, worker[v].pc \in Holding,
               Admit(v) \/ Lookup(v) \/ \E result \in {"ok", "error"} : CallbackReturns(v, result)
        PROVE  \A w \in Worker, t \in Task : Holds(w, t)' => Holds(w, t)
    BY <1>3, KeepsHold DEF Holds
  <1>4. ASSUME NEW v \in Worker, WorkerStep(v)
        PROVE  \A w \in Worker, t \in Task : Holds(w, t)' => Holds(w, t)
    <2>1. CASE Admit(v) \/ Lookup(v)
      <3>1. worker[v].pc \in Holding
        BY <2>1 DEF Admit, Lookup, Holding
      <3> QED
        BY <1>3, <2>1, <3>1
    <2>2. CASE ~(Admit(v) \/ Lookup(v))
      <3>1. \E pc \in {"off", "drain", "select"} : Goto(v, pc)
        BY <1>4, <2>2 DEF WorkerStep, Wake, Poll, Exit, DequeueCut, Drained, DequeueFault,
                          CompleteTask, HandleTaskFailure, SettleFault, Revert, SettleCut
      <3> QED
        BY <1>2, <3>1
    <2> QED
      BY <2>1, <2>2
  <1>5. ASSUME NEW v \in Worker, NEW result \in {"ok", "error"}, CallbackReturns(v, result)
        PROVE  \A w \in Worker, t \in Task : Holds(w, t)' => Holds(w, t)
    <2>1. worker[v].pc \in Holding
      BY <1>5 DEF CallbackReturns, Holding
    <2> QED
      BY <1>3, <1>5, <2>1
  <1>6. CASE HostCall
    <2>1. ASSUME NEW q \in Queue, NEW c \in Requested, NEW r \in Retries, CreateQueue(q, c, r)
          PROVE  \A w \in Worker, t \in Task : Holds(w, t)' => Holds(w, t)
      <3>1. At("drain").pc \notin Holding
        BY DEF At, Off, Holding
      <3> QED
        BY <2>1, <3>1 DEF CreateQueue, Holds
    <2> QED
      BY <1>1, <1>6, <2>1 DEF HostCall, Enqueue, Cancel, ClearQueue
  <1>7. CASE Life
    <2>1. CASE EndLife
      BY <2>1 DEF EndLife, Off, Holds, Holding
    <2> QED
      BY <1>1, <1>7, <2>1 DEF Life, Load, Unregister, CloseCancel, StopCancel, StopLock, Crash, CloseFinish
  <1> QED
    BY <1>1, <1>4, <1>5, <1>6, <1>7 DEF Next, BackoffElapses, RunCleanup, vars

\* A row whose counts a step leaves alone.
Uncounted(t) ==
    /\ row'[t].attempt = row[t].attempt /\ row'[t].max = row[t].max
    /\ \/ row'[t].st = row[t].st
       \/ row'[t].st \in {"completed", "cancelled", "purged"}
       \/ row'[t].st = "pending" /\ row[t].st = "running"

LEMMA CountKept ==
  ASSUME TypeOK, TypeOK', NEW t \in Task, Counted(t), Uncounted(t), failures'[t] = failures[t], faults <= faults',
         \A w \in Worker : Holds(w, t)' => Holds(w, t)
  PROVE  Counted(t)'
  <1>1. PICK a, b, f, m, g, k : /\ a = row[t].attempt /\ b = row[t].max /\ f = failures[t]
                                /\ m = AtLeast0(b) /\ g = faults /\ k = faults'
    OBVIOUS
  <1>2. a \in Nat /\ b \in Int /\ f \in Nat /\ m \in Nat /\ g \in Nat /\ k \in Nat /\ g <= k
    BY <1>1, Numbers, BoundAssumption DEF TypeOK
  <1>3. /\ f <= a /\ (row[t].st = "none" => f = 0) /\ f <= m + 1 + g
        /\ row[t].st \in {"pending", "running"} => f <= m + g
    BY <1>1 DEF Counted
  <1>4. f <= m + 1 + k /\ (row[t].st \in {"pending", "running"} => f <= m + k)
    BY <1>2, <1>3
  <1>5. row'[t].attempt = a /\ row'[t].max = b /\ failures'[t] = f
    BY <1>1 DEF Uncounted
  <1>6. \A w \in Worker : Holds(w, t)' => f < a
    BY <1>1 DEF Counted
  <1>7. row'[t].st = "failed" => f >= 1
    BY <1>1 DEF Counted, Uncounted
  <1>8. (row'[t].st = "none" => f = 0) /\ (row'[t].st \in {"pending", "running"} => f <= m + k)
    BY <1>3, <1>4 DEF Uncounted
  <1> QED
    BY <1>1, <1>3, <1>4, <1>5, <1>6, <1>7, <1>8 DEF Counted

\* The steps that count nothing.
LEMMA CountsKept ==
  ASSUME TypeOK, TypeOK', \A t \in Task : Counted(t), \A t \in Task : Uncounted(t),
         UNCHANGED failures, faults <= faults',
         \A w \in Worker, t \in Task : Holds(w, t)' => Holds(w, t)
  PROVE  \A t \in Task : Counted(t)'
  BY CountKept

\* All the rows but that of t.
LEMMA OthersCounted ==
  ASSUME TypeOK, TypeOK', \A x \in Task : Counted(x), NEW t \in Task, faults <= faults', Counted(t)',
         \A x \in Task : x # t => row'[x] = row[x] /\ failures'[x] = failures[x]
                                  /\ \A w \in Worker : Holds(w, x)' => Holds(w, x)
  PROVE  \A x \in Task : Counted(x)'
  <1> SUFFICES ASSUME NEW x \in Task PROVE Counted(x)'
    OBVIOUS
  <1>1. CASE x = t
    BY <1>1
  <1>2. CASE x # t
    <2>1. Uncounted(x)
      BY <1>2 DEF Uncounted
    <2> QED
      BY <1>2, <2>1, CountKept
  <1> QED
    BY <1>1, <1>2

\* What a worker holds is its own row.
LEMMA HeldByOne ==
  ASSUME TypeOK, Exclusive, NEW w \in Worker, worker[w].pc \in Holding
  PROVE  /\ worker[w].task \in Task /\ Holds(w, worker[w].task)
         /\ row[worker[w].task].st = "running"
         /\ row[worker[w].task].attempt = worker[w].attempt
         /\ \A v \in Worker : Holds(v, worker[w].task) => v = w
  <1>1. worker[w].task \in Task /\ Holds(w, worker[w].task)
    BY DEF TypeOK, Holds
  <1> QED
    BY <1>1 DEF Exclusive, ExclusiveExecution

LEMMA CountEnqueue ==
  ASSUME TypeOK, TypeOK', Exclusive, \A x \in Task : Counted(x), NEW q \in Queue, NEW t \in Task, Enqueue(q, t)
  PROVE  \A x \in Task : Counted(x)'
  <1>1. /\ row'[t].st = "pending" /\ row'[t].attempt = 0
        /\ \A x \in Task : x # t => row'[x] = row[x]
        /\ UNCHANGED <<failures, faults, worker>> /\ row[t].st = "none"
    BY DEF Enqueue, TypeOK, history
  <1>2. \A w \in Worker, x \in Task : Holds(w, x)' <=> Holds(w, x)
    BY <1>1 DEF Holds
  <1>3. \A w \in Worker : ~Holds(w, t)'
    BY <1>1, <1>2, HeldIsRunning
  <1>4. failures'[t] = 0
    BY <1>1 DEF Counted
  <1>5. PICK m, g \in Nat : m = AtLeast0(row'[t].max) /\ g = faults /\ g = faults'
    BY <1>1, Numbers DEF TypeOK, Row, AtLeast0
  <1>6. 0 <= m + g /\ 0 <= m + 1 + g
    BY <1>5
  <1>7. Counted(t)'
    BY <1>1, <1>3, <1>4, <1>5, <1>6 DEF Counted
  <1> QED
    BY <1>1, <1>2, <1>5, <1>7, OthersCounted

LEMMA CountClaim ==
  ASSUME TypeOK, TypeOK', Exclusive, \A x \in Task : Counted(x), NEW w \in Worker, NEW t \in Task,
         Dequeue(w, t) \/ DequeueCut(w, t)
  PROVE  \A x \in Task : Counted(x)'
  <1>1. /\ row[t].st = "pending" /\ row'[t].st = "running" /\ row'[t].attempt = row[t].attempt + 1
        /\ row'[t].max = row[t].max
        /\ \A x \in Task : x # t => row'[x] = row[x]
    BY DEF Dequeue, DequeueCut, Claim, Eligible, TypeOK, Row
  <1>2. UNCHANGED <<failures, faults>>
    BY DEF Dequeue, DequeueCut, history
  <1>3. \A v \in Worker, x \in Task : x # t => (Holds(v, x)' => Holds(v, x))
    <2>1. CASE Dequeue(w, t)
      BY <2>1 DEF Dequeue, Holds, TypeOK
    <2>2. CASE DequeueCut(w, t)
      BY <2>2, LetsGo DEF DequeueCut, Holds, Holding
    <2> QED
      BY <2>1, <2>2
  <1>4. PICK a, f, m, g \in Nat : /\ a = row[t].attempt /\ f = failures[t]
                                  /\ m = AtLeast0(row[t].max) /\ g = faults
    BY Numbers
  <1>5. f <= a /\ f <= m + g /\ f <= m + 1 + g
    BY <1>1, <1>4 DEF Counted
  <1>6. f <= a + 1 /\ f < a + 1
    BY <1>4, <1>5
  <1>7. Counted(t)'
    BY <1>1, <1>2, <1>4, <1>5, <1>6 DEF Counted
  <1> QED
    BY <1>1, <1>2, <1>3, <1>4, <1>7, OthersCounted

LEMMA CountFailure ==
  ASSUME TypeOK, TypeOK', Exclusive, \A x \in Task : Counted(x), NEW w \in Worker, HandleTaskFailure(w)
  PROVE  \A x \in Task : Counted(x)'
  <1>0. worker[w].pc \in Holding /\ Goto(w, "drain") /\ UNCHANGED faults
    BY DEF HandleTaskFailure, Holding
  <1>1. PICK t \in Task : t = worker[w].task
    BY <1>0, HeldByOne
  <1>2. /\ Holds(w, t) /\ row[t].attempt = worker[w].attempt /\ row[t].st = "running"
        /\ \A v \in Worker : Holds(v, t) => v = w
    BY <1>0, <1>1, HeldByOne
  <1>3. /\ row'[t].attempt = row[t].attempt /\ row'[t].max = row[t].max
        /\ row'[t].st = (IF Exhausted(w) THEN "failed" ELSE "pending")
        /\ \A x \in Task : x # t => row'[x] = row[x]
    BY <1>1 DEF HandleTaskFailure, TypeOK, Row
  <1>4. failures'[t] = failures[t] + 1 /\ \A x \in Task : x # t => failures'[x] = failures[x]
    BY <1>1 DEF HandleTaskFailure, TypeOK
  <1>5. /\ \A v \in Worker, x \in Task : Holds(v, x)' => Holds(v, x)
        /\ \A v \in Worker : ~Holds(v, t)'
    BY <1>0, <1>2, LetsGo DEF Holds, Holding
  <1>6. PICK a, f, m, g \in Nat : /\ a = row[t].attempt /\ f = failures[t]
                                  /\ m = AtLeast0(row[t].max) /\ g = faults
    BY Numbers
  <1>7. f < a /\ f <= m + g
    BY <1>2, <1>6 DEF Counted
  <1>8. f + 1 <= a /\ f + 1 <= m + 1 + g /\ f + 1 >= 1
    BY <1>6, <1>7
  <1>9. ~Exhausted(w) => f + 1 <= m + g
    <2> SUFFICES ASSUME ~Exhausted(w) PROVE f + 1 <= m + g
      OBVIOUS
    <2>1. PICK b \in Int : b = row[t].max
      BY Numbers
    <2>2. ~(a > b)
      BY <1>1, <1>2, <1>6, <2>1 DEF Exhausted
    <2>3. b <= m
      BY <1>6, <2>1 DEF AtLeast0
    <2> QED
      BY <1>6, <1>8, <2>1, <2>2, <2>3
  <1>10. row'[t].st \in {"pending", "running"} => f + 1 <= m + g
    BY <1>3, <1>9
  <1>11. Counted(t)'
    BY <1>0, <1>3, <1>4, <1>5, <1>6, <1>8, <1>10 DEF Counted
  <1> QED
    BY <1>0, <1>3, <1>4, <1>5, <1>6, <1>11, OthersCounted

LEMMA CountFault ==
  ASSUME TypeOK, TypeOK', Exclusive, \A x \in Task : Counted(x), NEW w \in Worker, SettleFault(w)
  PROVE  \A x \in Task : Counted(x)'
  <1>0. worker[w].pc \in Holding /\ Goto(w, "drain") /\ faults' = faults + 1 /\ UNCHANGED row
    BY DEF SettleFault, Holding
  <1>1. PICK t \in Task : t = worker[w].task
    BY <1>0, HeldByOne
  <1>2. Holds(w, t) /\ row[t].st = "running" /\ \A v \in Worker : Holds(v, t) => v = w
    BY <1>0, <1>1, HeldByOne
  <1>3. /\ failures'[t] = failures[t] \/ failures'[t] = failures[t] + 1
        /\ \A x \in Task : x # t => failures'[x] = failures[x]
    BY <1>1 DEF SettleFault, TypeOK
  <1>4. /\ \A v \in Worker, x \in Task : Holds(v, x)' => Holds(v, x)
        /\ \A v \in Worker : ~Holds(v, t)'
    BY <1>0, <1>2, LetsGo DEF Holds, Holding
  <1>5. PICK a, f, m, g \in Nat : /\ a = row[t].attempt /\ f = failures[t]
                                  /\ m = AtLeast0(row[t].max) /\ g = faults
    BY Numbers
  <1>6. f < a /\ f <= m + g
    BY <1>2, <1>5 DEF Counted
  <1>7. PICK k \in Nat : k = failures'[t] /\ (k = f \/ k = f + 1)
    BY <1>3, <1>5
  <1>8. k <= a /\ k <= m + (g + 1) /\ k <= m + 1 + (g + 1)
    BY <1>5, <1>6, <1>7
  <1>9. Counted(t)'
    BY <1>0, <1>2, <1>4, <1>5, <1>7, <1>8 DEF Counted
  <1> QED
    BY <1>0, <1>3, <1>4, <1>5, <1>9, OthersCounted

LEMMA CountRevert ==
  ASSUME TypeOK, TypeOK', Exclusive, \A x \in Task : Counted(x), NEW w \in Worker, Revert(w)
  PROVE  \A x \in Task : Counted(x)'
  <1>0. worker[w].pc \in Holding /\ Goto(w, "select") /\ UNCHANGED <<faults, failures>>
    BY DEF Revert, Holding, history
  <1>1. PICK t \in Task : t = worker[w].task
    BY <1>0, HeldByOne
  <1>2. Holds(w, t) /\ row[t].st = "running" /\ \A v \in Worker : Holds(v, t) => v = w
    BY <1>0, <1>1, HeldByOne
  <1>3. PICK a, f, m, g \in Nat : /\ a = row[t].attempt /\ f = failures[t]
                                  /\ m = AtLeast0(row[t].max) /\ g = faults
    BY Numbers
  <1>4. f < a /\ f <= m + g
    BY <1>2, <1>3 DEF Counted
  <1>5. /\ row'[t].st = "pending" /\ row'[t].max = row[t].max /\ row'[t].attempt = a - 1
        /\ \A x \in Task : x # t => row'[x] = row[x]
    <2>1. a > 0
      BY <1>3, <1>4
    <2> QED
      BY <1>1, <1>2, <1>3, <2>1 DEF Revert, Reverted, TypeOK, Row
  <1>6. f <= a - 1 /\ f <= m + 1 + g
    BY <1>3, <1>4
  <1>7. /\ \A v \in Worker, x \in Task : Holds(v, x)' => Holds(v, x)
        /\ \A v \in Worker : ~Holds(v, t)'
    BY <1>0, <1>2, LetsGo DEF Holds, Holding
  <1>8. Counted(t)'
    BY <1>0, <1>3, <1>4, <1>5, <1>6, <1>7 DEF Counted
  <1> QED
    BY <1>0, <1>3, <1>5, <1>7, <1>8, OthersCounted

LEMMA CountNext == TypeOK /\ Exclusive /\ (\A t \in Task : Counted(t)) /\ [Next]_vars => (\A t \in Task : Counted(t))'
  <1> SUFFICES ASSUME TypeOK, Exclusive, \A t \in Task : Counted(t), [Next]_vars
               PROVE  \A t \in Task : Counted(t)'
    OBVIOUS
  <1>0. TypeOK' /\ faults \in Nat
    BY TypeNext, BoundAssumption DEF TypeOK
  <1>1. CASE \/ \E w \in Worker, t \in Task : Dequeue(w, t) \/ DequeueCut(w, t)
             \/ \E w \in Worker : HandleTaskFailure(w) \/ SettleFault(w) \/ Revert(w)
             \/ \E q \in Queue, t \in Task : Enqueue(q, t)
    BY <1>0, <1>1, CountClaim, CountFailure, CountFault, CountRevert, CountEnqueue
  <1>2. CASE ~(\E w \in Worker, t \in Task : Dequeue(w, t))
    <2>0. \A w \in Worker, t \in Task : Holds(w, t)' => Holds(w, t)
      BY <1>2, HoldsSteps
    <2>1. ASSUME UNCHANGED failures, faults' = faults \/ faults' = faults + 1, \A t \in Task : Uncounted(t)
          PROVE  \A t \in Task : Counted(t)'
      <3>1. faults <= faults'
        BY <1>0, <2>1
      <3> QED
        BY <1>0, <2>0, <2>1, <3>1, CountsKept
    <2>2. UNCHANGED row => \A t \in Task : Uncounted(t)
      BY DEF Uncounted
    <2>3. \A S \in SUBSET Task : row' = ResetRunning(S) => \A t \in Task : Uncounted(t)
      BY DEF Uncounted, ResetRunning, TypeOK, Row
    <2>4. ASSUME NEW w \in Worker, WorkerStep(w), ~HandleTaskFailure(w), ~SettleFault(w), ~Revert(w),
                 ~(\E t \in Task : DequeueCut(w, t))
          PROVE  \A t \in Task : Counted(t)'
      <3>1. CASE CompleteTask(w)
        <4>1. \A t \in Task : Uncounted(t)
          BY <3>1 DEF CompleteTask, Uncounted, TypeOK, Row
        <4> QED
          BY <2>1, <3>1, <4>1 DEF CompleteTask, history
      <3>2. CASE ~CompleteTask(w)
        <4>1. UNCHANGED <<row, failures>> /\ (faults' = faults \/ faults' = faults + 1)
          BY <1>2, <2>4, <3>2 DEF WorkerStep, Wake, Poll, Exit, Drained, DequeueFault, Admit, Lookup,
                                  SettleCut, history
        <4> QED
          BY <2>1, <2>2, <4>1
      <3> QED
        BY <3>1, <3>2
    <2>5. ASSUME HostCall, ~(\E q \in Queue, t \in Task : Enqueue(q, t)) PROVE \A t \in Task : Counted(t)'
      <3>1. UNCHANGED <<failures, faults>>
        BY <2>5 DEF HostCall, CreateQueue, Cancel, ClearQueue, history
      <3>2. ASSUME NEW q \in Queue, NEW c \in Requested, NEW r \in Retries, CreateQueue(q, c, r)
            PROVE  \A t \in Task : Uncounted(t)
        BY <2>3, <3>2 DEF CreateQueue
      <3>3. ASSUME NEW x \in Task, Cancel(x) PROVE \A t \in Task : Uncounted(t)
        BY <3>3 DEF Cancel, Uncounted, TypeOK, Row
      <3>4. ASSUME NEW q \in Queue, ClearQueue(q) PROVE \A t \in Task : Uncounted(t)
        BY <3>4 DEF ClearQueue, Uncounted, TypeOK, Row
      <3> QED
        BY <2>1, <2>5, <3>1, <3>2, <3>3, <3>4 DEF HostCall
    <2>6. ASSUME NEW w \in Worker, NEW result \in {"ok", "error"}, CallbackReturns(w, result)
          PROVE  \A t \in Task : Counted(t)'
      BY <2>1, <2>2, <2>6 DEF CallbackReturns, history
    <2>7. ASSUME NEW x \in Task, BackoffElapses(x) PROVE \A t \in Task : Counted(t)'
      <3>1. \A t \in Task : Uncounted(t)
        BY <2>7 DEF BackoffElapses, Uncounted, TypeOK, Row
      <3> QED
        BY <2>1, <2>7, <3>1 DEF BackoffElapses
    <2>8. ASSUME NEW S \in SUBSET Task, RunCleanup(S) PROVE \A t \in Task : Counted(t)'
      <3>1. \A t \in Task : Uncounted(t)
        BY <2>8 DEF RunCleanup, Uncounted, TypeOK, Row
      <3> QED
        BY <2>1, <2>8, <3>1 DEF RunCleanup, history
    <2>9. CASE Life
      <3>1. UNCHANGED failures /\ (faults' = faults \/ faults' = faults + 1)
        BY <2>9 DEF Life, Load, Unregister, CloseCancel, StopCancel, StopLock, Crash, CloseFinish, history
      <3>2. UNCHANGED row \/ row' = ResetRunning(Task)
        BY <2>9 DEF Life, Load, Unregister, CloseCancel, StopCancel, StopLock, Crash, CloseFinish
      <3> QED
        BY <2>1, <2>2, <2>3, <3>1, <3>2
    <2>10. CASE UNCHANGED vars
      BY <2>1, <2>2, <2>10 DEF vars
    <2> QED
      BY <1>1, <2>4, <2>5, <2>6, <2>7, <2>8, <2>9, <2>10 DEF Next
  <1> QED
    BY <1>1, <1>2

\* Attempts given back at shutdowns never make a row forget a failure, so no
\* task fails more often than max_retries + 1 times and once more for every
\* failed statement.
THEOREM RetriesBounded == Spec => []RetryBudget
  <1> DEFINE Counts == \A t \in Task : Counted(t)
  <1>1. Init => Counts
    <2> SUFFICES ASSUME Init, NEW t \in Task PROVE Counted(t)
      OBVIOUS
    <2>1. row[t].st = "none" /\ row[t].attempt = 0 /\ row[t].max = 0 /\ failures[t] = 0 /\ faults = 0
      BY DEF Init
    <2>2. \A w \in Worker : ~Holds(w, t)
      BY DEF Init, Holds, Off, Holding
    <2> QED
      BY <2>1, <2>2 DEF Counted, AtLeast0
  <1>2. TypeOK /\ Exclusive /\ Counts /\ [Next]_vars => Counts'
    BY CountNext
  <1>3. Counts => RetryBudget
    BY DEF Counted, RetryBudget
  <1> HIDE DEF Counts
  <1> QED
    BY <1>1, <1>2, <1>3, TypeInit, TypeNext, ExclusiveInit, ExclusiveNext, PTL DEF Spec

-----------------------------------------------------------------------------
(* Refinement *)

\* The tasks of S, all with status from, get the status to, and no other changes.
StatusMove(S, from, to) ==
    /\ \A t \in S : row[t].st = from
    /\ \A t \in Task : row'[t].st = IF t \in S THEN to ELSE row[t].st

LEMMA MoveImplemented ==
  ASSUME NEW S \in SUBSET Task, NEW from, NEW to, StatusMove(S, from, to)
  PROVE  Jobs!Move(S, from, to)
  BY DEF StatusMove, Jobs!Move

\* The moves of the task queue, each an action of the life cycle.
Moves ==
    \/ \A t \in Task : row'[t].st = row[t].st
    \/ \E t \in Task : \/ StatusMove({t}, "none", "pending") \/ StatusMove({t}, "pending", "running")
                       \/ StatusMove({t}, "running", "completed") \/ StatusMove({t}, "running", "failed")
    \/ \E S \in SUBSET Task : StatusMove(S, "running", "pending") \/ StatusMove(S, "pending", "cancelled")
    \/ \E S \in SUBSET Task : /\ \A t \in S : row[t].st \in Terminal
                              /\ \A t \in Task : row'[t].st = IF t \in S THEN "purged" ELSE row[t].st

LEMMA ResetMoves ==
  ASSUME TypeOK, NEW S \in SUBSET Task, row' = ResetRunning(S)
  PROVE  Moves
  <1>1. PICK R \in SUBSET Task : R = {t \in S : row[t].st = "running"}
    OBVIOUS
  <1>2. StatusMove(R, "running", "pending")
    BY <1>1 DEF StatusMove, ResetRunning, TypeOK, Row
  <1> QED
    BY <1>2 DEF Moves

\* One row gets a status.
LEMMA OneMoves ==
  ASSUME NEW t \in Task, NEW from, NEW to, row[t].st = from, row'[t].st = to,
         \A x \in Task : x # t => row'[x] = row[x]
  PROVE  StatusMove({t}, from, to)
  BY DEF StatusMove

LEMMA WorkerMoves ==
  ASSUME TypeOK, Exclusive, NEW w \in Worker, WorkerStep(w)
  PROVE  Moves
  <1>1. ASSUME NEW t \in Task, Dequeue(w, t) \/ DequeueCut(w, t) PROVE Moves
    <2>1. /\ row[t].st = "pending" /\ row'[t].st = "running"
          /\ \A x \in Task : x # t => row'[x] = row[x]
      BY <1>1 DEF Dequeue, DequeueCut, Claim, Eligible, TypeOK, Row
    <2>2. StatusMove({t}, "pending", "running")
      BY <2>1, OneMoves
    <2> QED
      BY <2>2 DEF Moves
  <1>2. CASE CompleteTask(w) \/ HandleTaskFailure(w) \/ Revert(w)
    <2>1. worker[w].pc \in Holding
      BY <1>2 DEF CompleteTask, HandleTaskFailure, Revert, Holding
    <2>2. PICK t \in Task : t = worker[w].task /\ row[t].st = "running"
      BY <2>1, HeldByOne
    <2>3. row'[t].st \in {"completed", "failed", "pending"} /\ \A x \in Task : x # t => row'[x] = row[x]
      BY <1>2, <2>2 DEF CompleteTask, HandleTaskFailure, Revert, Reverted, TypeOK, Row
    <2>4. \/ StatusMove({t}, "running", "completed") \/ StatusMove({t}, "running", "failed")
          \/ StatusMove({t}, "running", "pending")
      BY <2>2, <2>3, OneMoves
    <2>5. {t} \in SUBSET Task
      OBVIOUS
    <2> QED
      BY <2>4, <2>5 DEF Moves
  <1>3. CASE UNCHANGED row
    BY <1>3 DEF Moves
  <1> QED
    BY <1>1, <1>2, <1>3 DEF WorkerStep, Wake, Poll, Exit, Drained, DequeueFault, Admit, Lookup,
                            SettleFault, SettleCut

LEMMA NextMoves == ASSUME TypeOK, Exclusive, [Next]_vars PROVE Moves
  <1>1. CASE UNCHANGED row
    BY <1>1 DEF Moves
  <1>2. ASSUME NEW q \in Queue, NEW t \in Task, Enqueue(q, t) PROVE Moves
    <2>1. row[t].st = "none" /\ row'[t].st = "pending" /\ \A x \in Task : x # t => row'[x] = row[x]
      BY <1>2 DEF Enqueue, TypeOK
    <2>2. StatusMove({t}, "none", "pending")
      BY <2>1, OneMoves
    <2> QED
      BY <2>2 DEF Moves
  <1>3. ASSUME NEW t \in Task, Cancel(t) PROVE Moves
    <2>1. row[t].st = "pending" /\ row'[t].st = "cancelled" /\ \A x \in Task : x # t => row'[x] = row[x]
      BY <1>3 DEF Cancel, Cancellable, TypeOK, Row
    <2>2. StatusMove({t}, "pending", "cancelled") /\ {t} \in SUBSET Task
      BY <2>1, OneMoves
    <2> QED
      BY <2>2 DEF Moves
  <1>4. ASSUME NEW q \in Queue, ClearQueue(q) PROVE Moves
    <2>1. PICK S \in SUBSET Task : S = {t \in Task : row[t].queue = q /\ row[t].st = "pending"}
      OBVIOUS
    <2>2. StatusMove(S, "pending", "cancelled")
      BY <1>4, <2>1 DEF ClearQueue, StatusMove, TypeOK, Row
    <2> QED
      BY <2>2 DEF Moves
  <1>5. ASSUME NEW t \in Task, BackoffElapses(t) PROVE Moves
    BY <1>5 DEF BackoffElapses, TypeOK, Row, Moves
  <1>6. ASSUME NEW S \in SUBSET Task, RunCleanup(S) PROVE Moves
    <2>1. /\ \A t \in S : row[t].st \in Terminal
          /\ \A t \in Task : row'[t].st = IF t \in S THEN "purged" ELSE row[t].st
      BY <1>6 DEF RunCleanup, TypeOK, Row
    <2> QED
      BY <2>1 DEF Moves
  <1>7. CASE HostCall
    <2>1. ASSUME NEW q \in Queue, NEW c \in Requested, NEW r \in Retries, CreateQueue(q, c, r) PROVE Moves
      BY <2>1, ResetMoves DEF CreateQueue
    <2> QED
      BY <1>2, <1>3, <1>4, <1>7, <2>1 DEF HostCall
  <1>8. CASE Life
    BY <1>1, <1>8, ResetMoves DEF Life, Load, Unregister, CloseCancel, StopCancel, StopLock, Crash, CloseFinish
  <1> QED
    BY <1>1, <1>5, <1>6, <1>7, <1>8, WorkerMoves DEF Next, CallbackReturns, vars

\* The tasks table implements the job life cycle: Enqueue submits, the dequeue
\* claims, settling finishes or releases, the resets of CreateQueue and Close
\* and the revert at shutdown release, cancelling withdraws and the cleanup
\* purges; nothing else moves a task, and none is moved twice.
THEOREM LifecycleImplemented == Spec => LifecycleRefined
  <1> DEFINE phase == [t \in Task |-> row[t].st]
  <1>1. Init => Jobs!Init
    BY DEF Init, Jobs!Init
  <1>2. ASSUME TypeOK, Exclusive, [Next]_vars PROVE [Jobs!Next]_phase
    <2>1. CASE \A t \in Task : row'[t].st = row[t].st
      BY <2>1
    <2>2. ASSUME NEW t \in Task,
                 \/ StatusMove({t}, "none", "pending") \/ StatusMove({t}, "pending", "running")
                 \/ StatusMove({t}, "running", "completed") \/ StatusMove({t}, "running", "failed")
          PROVE  Jobs!Next
      <3>1. {t} \in SUBSET Task
        OBVIOUS
      <3>2. Jobs!Submit(t) \/ Jobs!Claim(t) \/ Jobs!Finish(t)
        BY <2>2, <3>1, MoveImplemented DEF Jobs!Submit, Jobs!Claim, Jobs!Finish
      <3> QED
        BY <3>2 DEF Jobs!Next
    <2>3. ASSUME NEW S \in SUBSET Task,
                 StatusMove(S, "running", "pending") \/ StatusMove(S, "pending", "cancelled")
          PROVE  Jobs!Next
      <3>1. Jobs!Release(S) \/ Jobs!Withdraw(S)
        BY <2>3, MoveImplemented DEF Jobs!Release, Jobs!Withdraw
      <3> QED
        BY <3>1 DEF Jobs!Next
    <2>4. ASSUME NEW S \in SUBSET Task, \A t \in S : row[t].st \in Terminal,
                 \A t \in Task : row'[t].st = IF t \in S THEN "purged" ELSE row[t].st
          PROVE  Jobs!Next
      <3>1. Jobs!Purge(S)
        BY <2>4 DEF Jobs!Purge, Jobs!Ended, Terminal
      <3> QED
        BY <3>1 DEF Jobs!Next
    <2> QED
      BY <1>2, <2>1, <2>2, <2>3, <2>4, NextMoves DEF Moves
  <1> QED
    BY <1>1, <1>2, TypeInit, TypeNext, ExclusiveInit, ExclusiveNext, PTL
    DEF Spec, LifecycleRefined, Jobs!Spec
=============================================================================
