----------------------------- MODULE TaskQueue -----------------------------
(***************************************************************************)
(* The plugin task queue (plugins/host_taskqueue.go) together with the     *)
(* part of the plugin manager that loads, unloads and stops the plugin     *)
(* that owns it.  The tasks table survives crashes; everything else is     *)
(* memory of one service life.                                             *)
(*                                                                         *)
(* Abstractions: a payload and a message carry no information; next_run_at *)
(* is reduced to "due or not" and the worker may pick any due task of its  *)
(* queue (a superset of ORDER BY next_run_at, created_at); the retention   *)
(* period may have elapsed for any terminal task.                          *)
(***************************************************************************)
EXTENDS Integers, FiniteSets

CONSTANTS
    Queue,           \* queue names
    Task,            \* task ids, never reused (id.NewRandom)
    NoTask,          \* "no task held"
    MaxConcurrency,  \* the budget of the plugin's manifest
    Requested,       \* values a plugin may pass as QueueConfig.Concurrency
    Retries,         \* values a plugin may pass as QueueConfig.MaxRetries
    Delayed,         \* queues created with DelayMs > 0: they have a limiter
    MaxLives,        \* bound: service lives (loads of the plugin)
    MaxFaults        \* bound: failed database statements

ASSUME QueueAssumption == IsFiniteSet(Queue) /\ Queue # {}
ASSUME BudgetAssumption == MaxConcurrency \in Nat \ {0}
ASSUME RequestAssumption == Requested \subseteq Int /\ Retries \subseteq Int
ASSUME TaskAssumption == NoTask \notin Task /\ Delayed \subseteq Queue
ASSUME BoundAssumption == MaxLives \in Nat /\ MaxFaults \in Nat

VARIABLES
    row,         \* the tasks table
    cfg,         \* s.queues: configuration of each queue, conc = 0 when absent
    signal,      \* queues with a token in qs.signal, a channel of capacity 1
    worker,      \* the worker goroutines of this life
    timers,      \* tasks with a pending time.AfterFunc of this life
    svc,         \* "open", "closing" once s.ctx is cancelled, "down"
    mgr,         \* "in": the plugin is in manager.plugins, "stopping": and
                 \* Manager.Stop holds manager.mu, "out": it is not
    lives, faults,
    \* history of what the handlers did
    failures,    \* per task: failed attempts handleTaskFailure has seen
    executed,    \* tasks whose callback reached the plugin
    silent,      \* tasks that came due with no timer to announce them
    lifeFaults   \* database statements that failed in this life

history == <<failures, executed, silent, lifeFaults>>
vars == <<row, cfg, signal, worker, timers, svc, mgr, lives, faults,
          failures, executed, silent, lifeFaults>>

Terminal == {"completed", "failed", "cancelled"}
Status   == {"none", "pending", "running", "purged"} \cup Terminal

\* Worker <<q, i>> is the i-th goroutine CreateQueue spawned for queue q.
Worker == Queue \X (1..MaxConcurrency)
WorkersOf(q) == {w \in Worker : w[1] = q}

Off    == [pc |-> "off", task |-> NoTask, attempt |-> 0, result |-> "none"]
At(pc) == [Off EXCEPT !.pc = pc]
Holding == {"wait", "lookup", "call", "returned"}

\* w has dequeued a task and not yet settled it.
Holds(w, t) == worker[w].pc \in Holding /\ worker[w].task = t

Exists(q) == cfg[q].conc > 0

\* The database handle is usable: from newTaskQueueService to db.Close.
DBOpen == svc \in {"open", "closing"}

Absent == [conc |-> 0, max |-> 0]

Init ==
    /\ row = [t \in Task |-> [st |-> "none", queue |-> CHOOSE q \in Queue : TRUE,
                              attempt |-> 0, max |-> 0, next |-> "due"]]
    /\ cfg = [q \in Queue |-> Absent]
    /\ signal = {}
    /\ worker = [w \in Worker |-> Off]
    /\ timers = {}
    /\ svc = "down"
    /\ mgr = "out"
    /\ lives = 0 /\ faults = 0
    /\ failures = [t \in Task |-> 0]
    /\ executed = {} /\ silent = {} /\ lifeFaults = 0

-----------------------------------------------------------------------------
(* Host functions, called by the plugin. *)

\* applyConfigDefaults, for the field the model keeps.
EffectiveConcurrency(c) == IF c <= 0 THEN 1 ELSE c

\* The worker goroutines of the registered queues; their number is the sum of
\* the queues' Concurrency.
Spawned == {w \in Worker : w[2] <= cfg[w[1]].conc}

\* Mutant: the queues that exist already are not counted.
AvailableWhole == MaxConcurrency

\* clampConcurrency: what is left of the budget bounds the request.
Available == MaxConcurrency - Cardinality(Spawned)

\* Mutant: the request is not bounded.
ClampedNever(c) == EffectiveConcurrency(c)

Clamped(c) ==
    IF EffectiveConcurrency(c) > Available THEN Available ELSE EffectiveConcurrency(c)

\* Mutant: stale running rows are left alone.
ResetNothing(S) == row

\* Rows in S that are running go back to pending; attempt is left alone.
ResetRunning(S) ==
    [t \in Task |-> IF t \in S /\ row[t].st = "running"
                    THEN [row[t] EXCEPT !.st = "pending"] ELSE row[t]]

\* CreateQueue: the queue is registered with its workers, which drain at once,
\* and the running rows a previous life left behind become pending again.
CreateQueue(q, c, r) ==
    /\ DBOpen
    /\ Available > 0
    /\ ~Exists(q)
    /\ row' = ResetRunning({t \in Task : row[t].queue = q})
    /\ cfg' = [cfg EXCEPT ![q] = [conc |-> Clamped(c), max |-> r]]
    /\ signal' = signal \ {q}
    /\ worker' = [w \in Worker |-> IF w[1] = q /\ w[2] <= Clamped(c)
                                   THEN At("drain") ELSE worker[w]]
    /\ silent' = {t \in silent : row[t].queue # q}
    /\ UNCHANGED <<timers, svc, mgr, lives, faults, failures, executed,
                   lifeFaults>>

\* Mutant: the wake-up is forgotten.
NotifyNobody(q) == signal

\* notifyWorkers: a non-blocking send on a channel of capacity 1.
Notified(q) == signal \cup {q}

\* Enqueue: insert a pending row, then the non-blocking send of notifyWorkers.
\* One step: a worker that drains between the two leaves a token nobody needs,
\* and a process that dies between them loses the channel too.
Enqueue(q, t) ==
    /\ DBOpen
    /\ Exists(q)
    /\ row[t].st = "none"
    /\ row' = [row EXCEPT ![t] = [st |-> "pending", queue |-> q, attempt |-> 0,
                                  max |-> cfg[q].max, next |-> "due"]]
    /\ signal' = Notified(q)
    /\ UNCHANGED <<cfg, worker, timers, svc, mgr, lives, faults, history>>

\* Mutant: a running task can be cancelled under its worker.
CancellableRunning(t) == row[t].st \in {"pending", "running"}

\* The status guard of the cancelling statement.
Cancellable(t) == row[t].st = "pending"

\* Cancel: only a pending row is changed.
Cancel(t) ==
    /\ DBOpen
    /\ Cancellable(t)
    /\ row' = [row EXCEPT ![t].st = "cancelled"]
    /\ UNCHANGED <<cfg, signal, worker, timers, svc, mgr, lives, faults, history>>

\* ClearQueue: Cancel for every pending row of one queue.
ClearQueue(q) ==
    /\ DBOpen
    /\ Exists(q)
    /\ row' = [t \in Task |-> IF row[t].queue = q /\ row[t].st = "pending"
                              THEN [row[t] EXCEPT !.st = "cancelled"] ELSE row[t]]
    /\ UNCHANGED <<cfg, signal, worker, timers, svc, mgr, lives, faults, history>>

-----------------------------------------------------------------------------
(* The worker goroutine. *)

Goto(w, pc) == worker' = [worker EXCEPT ![w] = At(pc)]

\* select: a signal, or the poll ticker, starts a drain; so both may still do
\* after s.ctx is cancelled, since select picks any ready case.
Wake(w) ==
    /\ worker[w].pc = "select"
    /\ w[1] \in signal
    /\ signal' = signal \ {w[1]}
    /\ Goto(w, "drain")
    /\ UNCHANGED <<row, cfg, timers, svc, mgr, lives, faults, history>>

Poll(w) ==
    /\ worker[w].pc = "select"
    /\ Goto(w, "drain")
    /\ UNCHANGED <<row, cfg, signal, timers, svc, mgr, lives, faults, history>>

\* case <-s.ctx.Done()
Exit(w) ==
    /\ worker[w].pc = "select"
    /\ svc = "closing"
    /\ Goto(w, "off")
    /\ UNCHANGED <<row, cfg, signal, timers, svc, mgr, lives, faults, history>>

\* Mutant: the dequeue statement forgets the status.
EligibleRunning(w) ==
    {t \in Task : row[t].queue = w[1] /\ row[t].st \in {"pending", "running"}}

\* The rows the dequeue statement of w may select.
Eligible(w) ==
    {t \in Task : row[t].queue = w[1] /\ row[t].st = "pending" /\ row[t].next = "due"}

Claim(t) ==
    row' = [row EXCEPT ![t].st = "running", ![t].attempt = @ + 1]

\* processTask, the dequeue: pending -> running and attempt + 1 in one
\* statement.
Dequeue(w, t) ==
    /\ worker[w].pc = "drain"
    /\ svc = "open"
    /\ t \in Eligible(w)
    /\ Claim(t)
    /\ worker' = [worker EXCEPT ![w] =
            [pc |-> IF w[1] \in Delayed THEN "wait" ELSE "lookup",
             task |-> t, attempt |-> row[t].attempt + 1, result |-> "none"]]
    /\ silent' = silent \ {t}
    /\ UNCHANGED <<cfg, signal, timers, svc, mgr, lives, faults, failures,
                   executed, lifeFaults>>

\* The dequeue commits but s.ctx is cancelled before its result is read: the
\* caller sees an error and forgets the row, which stays running.
DequeueCut(w, t) ==
    /\ worker[w].pc = "drain"
    /\ svc = "closing"
    /\ t \in Eligible(w)
    /\ Claim(t)
    /\ Goto(w, "select")
    /\ UNCHANGED <<cfg, signal, timers, svc, mgr, lives, faults, history>>

\* Nothing to dequeue (sql.ErrNoRows), or drainQueue sees s.ctx cancelled.
Drained(w) ==
    /\ worker[w].pc = "drain"
    /\ Eligible(w) = {} \/ svc = "closing"
    /\ Goto(w, "select")
    /\ UNCHANGED <<row, cfg, signal, timers, svc, mgr, lives, faults, history>>

\* The dequeue statement fails: the drain ends with the row still pending.
DequeueFault(w) ==
    /\ worker[w].pc = "drain"
    /\ faults < MaxFaults
    /\ Goto(w, "select")
    /\ faults' = faults + 1
    /\ lifeFaults' = lifeFaults + 1
    /\ UNCHANGED <<row, cfg, signal, timers, svc, mgr, lives, failures,
                   executed, silent>>

\* limiter.Wait returns without error.
Admit(w) ==
    /\ worker[w].pc = "wait"
    /\ worker' = [worker EXCEPT ![w].pc = "lookup"]
    /\ UNCHANGED <<row, cfg, signal, timers, svc, mgr, lives, faults, history>>

\* defaultInvokeCallback looks the plugin up under manager.mu; an unregistered
\* plugin is an error like any other the callback returns.
Lookup(w) ==
    /\ worker[w].pc = "lookup"
    /\ mgr # "stopping"
    /\ worker' = IF mgr = "in"
                 THEN [worker EXCEPT ![w].pc = "call"]
                 ELSE [worker EXCEPT ![w].pc = "returned", ![w].result = "error"]
    /\ executed' = IF mgr = "in" THEN executed \cup {worker[w].task} ELSE executed
    /\ UNCHANGED <<row, cfg, signal, timers, svc, mgr, lives, faults,
                   failures, silent, lifeFaults>>

\* The plugin's nd_task_execute returns, with or without an error.
CallbackReturns(w, result) ==
    /\ worker[w].pc = "call"
    /\ worker' = [worker EXCEPT ![w].pc = "returned", ![w].result = result]
    /\ UNCHANGED <<row, cfg, signal, timers, svc, mgr, lives, faults, history>>

\* completeTask: by id, whatever the row's status.
CompleteTask(w) ==
    /\ worker[w].pc = "returned" /\ worker[w].result = "ok"
    /\ svc = "open"
    /\ row' = [row EXCEPT ![worker[w].task].st = "completed"]
    /\ Goto(w, "drain")
    /\ UNCHANGED <<cfg, signal, timers, svc, mgr, lives, faults, history>>

\* Mutant: one retry too many.
ExhaustedLate(w) == worker[w].attempt > row[worker[w].task].max + 1

\* attempt > maxRetries
Exhausted(w) == worker[w].attempt > row[worker[w].task].max

\* handleTaskFailure: give up, or back off and set a timer for the wake-up.
HandleTaskFailure(w) ==
    LET t == worker[w].task IN
    /\ worker[w].pc = "returned" /\ worker[w].result = "error"
    /\ svc = "open"
    /\ row' = [row EXCEPT ![t].st = IF Exhausted(w) THEN "failed" ELSE "pending",
                          ![t].next = IF Exhausted(w) THEN @ ELSE "backoff"]
    /\ timers' = IF Exhausted(w) THEN timers ELSE timers \cup {t}
    /\ failures' = [failures EXCEPT ![t] = @ + 1]
    /\ Goto(w, "drain")
    /\ UNCHANGED <<cfg, signal, svc, mgr, lives, faults, executed, silent,
                   lifeFaults>>

\* The settling statement fails; the error is only logged and the row stays
\* running.
SettleFault(w) ==
    LET t == worker[w].task IN
    /\ worker[w].pc = "returned"
    /\ svc = "open"
    /\ faults < MaxFaults
    /\ faults' = faults + 1
    /\ lifeFaults' = lifeFaults + 1
    /\ timers' = IF worker[w].result = "ok" \/ Exhausted(w) THEN timers ELSE timers \cup {t}
    /\ failures' = IF worker[w].result = "ok" THEN failures ELSE [failures EXCEPT ![t] = @ + 1]
    /\ Goto(w, "drain")
    /\ UNCHANGED <<row, cfg, signal, svc, mgr, lives, executed, silent>>

\* revertTaskToPending: a running row only, and the attempt is given back.
Reverted(t) ==
    IF row[t].st = "running"
    THEN [row EXCEPT ![t].st = "pending", ![t].attempt = IF @ > 0 THEN @ - 1 ELSE 0]
    ELSE row

\* The limiter or the callback returns after s.ctx was cancelled.
Revert(w) ==
    /\ worker[w].pc \in {"wait", "returned"}
    /\ svc = "closing"
    /\ row' = Reverted(worker[w].task)
    /\ Goto(w, "select")
    /\ UNCHANGED <<cfg, signal, timers, svc, mgr, lives, faults, history>>

\* s.ctx is cancelled between the check of s.ctx.Err and the settling
\* statement, which then fails: the row stays running.
SettleCut(w) ==
    /\ worker[w].pc = "returned"
    /\ svc = "closing"
    /\ Goto(w, "drain")
    /\ UNCHANGED <<row, cfg, signal, timers, svc, mgr, lives, faults, history>>

-----------------------------------------------------------------------------
(* Timers and the cleanup loop. *)

\* The backoff of t ends.  If the service life that scheduled it still runs,
\* its time.AfterFunc sends the signal; otherwise nobody announces it.  The
\* timer, set after the row, fires soon after the row is due: one step, as with
\* Enqueue.
BackoffElapses(t) ==
    /\ row[t].st \in {"pending", "cancelled"}
    /\ row[t].next = "backoff"
    /\ row' = [row EXCEPT ![t].next = "due"]
    /\ signal' = IF t \in timers THEN Notified(row[t].queue) ELSE signal
    /\ timers' = timers \ {t}
    /\ silent' = IF t \in timers THEN silent ELSE silent \cup {t}
    /\ UNCHANGED <<cfg, worker, svc, mgr, lives, faults, failures, executed,
                   lifeFaults>>

\* runCleanup: any terminal rows of the registered queues past retention.
RunCleanup(S) ==
    /\ svc = "open"
    /\ S # {}
    /\ \A t \in S : row[t].st \in Terminal /\ Exists(row[t].queue)
    /\ row' = [t \in Task |-> IF t \in S THEN [row[t] EXCEPT !.st = "purged"] ELSE row[t]]
    /\ UNCHANGED <<cfg, signal, worker, timers, svc, mgr, lives, faults, history>>

-----------------------------------------------------------------------------
(* Life of the service, driven by the plugin manager. *)

\* loadPluginWithConfig: newTaskQueueService, then registration of the plugin.
Load ==
    /\ svc = "down"
    /\ lives < MaxLives
    /\ lives' = lives + 1
    /\ svc' = "open"
    /\ mgr' = "in"
    /\ lifeFaults' = 0
    /\ UNCHANGED <<row, cfg, signal, worker, timers, faults, failures,
                   executed, silent>>

\* unloadPlugin takes the plugin out of the map first ...
Unregister ==
    /\ svc = "open"
    /\ mgr = "in"
    /\ lives < MaxLives
    /\ mgr' = "out"
    /\ UNCHANGED <<row, cfg, signal, worker, timers, svc, lives, faults, history>>

\* ... and then runs plugin.Close, whose taskqueue closer cancels s.ctx.
CloseCancel ==
    /\ svc = "open"
    /\ mgr = "out"
    /\ svc' = "closing"
    /\ UNCHANGED <<row, cfg, signal, worker, timers, mgr, lives, faults, history>>

\* Manager.Stop cancels the context all services derive theirs from ...
StopCancel ==
    /\ svc = "open"
    /\ mgr = "in"
    /\ lives < MaxLives
    /\ svc' = "closing"
    /\ UNCHANGED <<row, cfg, signal, worker, timers, mgr, lives, faults, history>>

\* ... and later closes every plugin with manager.mu held.
StopLock ==
    /\ svc = "closing"
    /\ mgr = "in"
    /\ mgr' = "stopping"
    /\ UNCHANGED <<row, cfg, signal, worker, timers, svc, lives, faults, history>>

\* What every end of a life clears.
EndLife ==
    /\ svc' = "down"
    /\ mgr' = "out"
    /\ cfg' = [q \in Queue |-> Absent]
    /\ signal' = {}
    /\ worker' = [w \in Worker |-> Off]
    /\ timers' = {}

\* Close, once the workers are gone or shutdownTimeout has passed, so at any
\* moment: running rows become pending (unless that statement fails) and the
\* database is closed.  A callback still in flight is abandoned in one step with
\* this: once s.ctx is cancelled the only statement its worker can start is that
\* of revertTaskToPending, which finds no running row after the reset and fails
\* on the closed handle.
CloseFinish(reset) ==
    /\ svc = "closing"
    /\ mgr # "in"
    /\ reset \/ faults < MaxFaults
    /\ faults' = IF reset THEN faults ELSE faults + 1
    /\ row' = IF reset THEN ResetRunning(Task) ELSE row
    /\ EndLife
    /\ UNCHANGED <<lives, history>>

\* The process dies.
Crash ==
    /\ DBOpen
    /\ lives < MaxLives
    /\ EndLife
    /\ UNCHANGED <<row, lives, faults, history>>

-----------------------------------------------------------------------------

HostCall ==
    \/ \E q \in Queue, c \in Requested, r \in Retries : CreateQueue(q, c, r)
    \/ \E q \in Queue, t \in Task : Enqueue(q, t)
    \/ \E t \in Task : Cancel(t)
    \/ \E q \in Queue : ClearQueue(q)

WorkerStep(w) ==
    \/ Wake(w) \/ Poll(w) \/ Exit(w)
    \/ \E t \in Task : Dequeue(w, t) \/ DequeueCut(w, t)
    \/ Drained(w) \/ DequeueFault(w)
    \/ Admit(w) \/ Lookup(w)
    \/ CompleteTask(w) \/ HandleTaskFailure(w) \/ SettleFault(w)
    \/ Revert(w) \/ SettleCut(w)

Life ==
    \/ Load \/ Unregister \/ CloseCancel \/ StopCancel \/ StopLock \/ Crash
    \/ \E reset \in BOOLEAN : CloseFinish(reset)

Next ==
    \/ HostCall
    \/ \E w \in Worker : WorkerStep(w)
    \/ \E w \in Worker, result \in {"ok", "error"} : CallbackReturns(w, result)
    \/ \E t \in Task : BackoffElapses(t)
    \/ \E S \in SUBSET Task : RunCleanup(S)
    \/ Life

Spec == Init /\ [][Next]_vars

-----------------------------------------------------------------------------
(* Properties *)

Row == [st : Status, queue : Queue, attempt : Nat, max : Int, next : {"due", "backoff"}]

WorkerState == [pc : {"off", "drain", "select"} \cup Holding,
                task : Task \cup {NoTask}, attempt : Nat,
                result : {"none", "ok", "error"}]

\* Every variable has its type.
TypeOK ==
    /\ row \in [Task -> Row]
    /\ cfg \in [Queue -> [conc : 0..MaxConcurrency, max : Int]]
    /\ signal \subseteq Queue
    /\ worker \in [Worker -> WorkerState]
    /\ \A w \in Worker : worker[w].pc \in Holding => worker[w].task \in Task
    /\ timers \subseteq Task
    /\ svc \in {"down", "open", "closing"}
    /\ mgr \in {"in", "out", "stopping"}
    /\ lives \in 0..MaxLives /\ faults \in 0..MaxFaults
    /\ failures \in [Task -> Nat]
    /\ executed \subseteq Task /\ silent \subseteq Task
    /\ lifeFaults \in Nat

\* A task is executed by one worker at a time: whoever holds it holds it
\* alone, and its row says running with the attempt number the worker was
\* given, so the writes of completeTask and handleTaskFailure, which name
\* only the id, can not hit a row somebody else has moved on.
ExclusiveExecution ==
    \A w \in Worker, t \in Task : Holds(w, t) =>
        /\ row[t].st = "running"
        /\ row[t].queue = w[1]
        /\ row[t].attempt = worker[w].attempt
        /\ \A v \in Worker : Holds(v, t) => v = w

\* While the service runs, a running row of a registered queue is in some
\* worker's hands: no crash, shutdown or cancellation of an earlier life
\* leaves a task stuck in running, unless a statement of this life failed.
NoOrphans ==
    \A t \in Task :
        (/\ row[t].st = "running"
         /\ Exists(row[t].queue)
         /\ svc = "open"
         /\ lifeFaults = 0) => \E w \in Worker : Holds(w, t)

AtLeast0(n) == IF n < 0 THEN 0 ELSE n

\* The retry budget: giving interrupted attempts back never makes the row
\* forget a failure, so without lost writes handleTaskFailure sees at most
\* max_retries + 1 failures of one task, whatever crashes and shutdowns
\* happen in between.
RetryBudget ==
    \A t \in Task :
        /\ failures[t] <= row[t].attempt
        /\ failures[t] <= AtLeast0(row[t].max) + 1 + faults
        /\ row[t].st = "failed" => failures[t] >= 1

\* The queues of one life never have more workers than the manifest allows.
ConcurrencyBudget ==
    /\ Cardinality(Spawned) <= MaxConcurrency
    /\ {w \in Worker : worker[w].pc # "off"} \subseteq Spawned

\* A due task is announced: while the service runs and no statement failed, a
\* signal is waiting or a worker of the queue is awake and will drain again.
\* The exception is a backoff that a previous life scheduled: its timer died
\* with that life, and only the poll finds it.
NoLostWakeup ==
    \A t \in Task :
        (/\ row[t].st = "pending" /\ row[t].next = "due"
         /\ Exists(row[t].queue)
         /\ svc = "open" /\ lifeFaults = 0
         /\ t \notin silent) =>
            \/ row[t].queue \in signal
            \/ \E w \in WorkersOf(row[t].queue) : worker[w].pc \notin {"off", "select"}

\* A service life starts with no queue, and only the goroutines of a
\* registered queue are alive.
LifeStructure ==
    /\ svc = "down" => \A q \in Queue : ~Exists(q)
    /\ \A w \in Worker : worker[w].pc # "off" => w \in Spawned

\* What the tasks table promises its users, whatever happens underneath.
Jobs == INSTANCE JobLifecycle WITH Job <- Task, phase <- [t \in Task |-> row[t].st]

\* Every step of the task queue is a step, or a stutter, of the job life cycle.
LifecycleRefined == Jobs!Spec

\* A task fails only after the plugin had it: "When a task is ready to execute,
\* the host calls the plugin's nd_task_execute callback function"
\* (plugins/host/task.go:42).  unloadPlugin removes the plugin from the map
\* while the workers still run; a worker that dequeues a ready task then calls
\* nothing, and fails the task.
FailedOnlyAfterExecution ==
    \A t \in Task : row[t].st = "failed" => t \in executed

-----------------------------------------------------------------------------
(* Liveness *)

\* The scheduler runs every goroutine, plugin calls return, backoffs end, and
\* a closed service is loaded again by a plugin that recreates its queues.
\* Nothing makes the plugin enqueue or cancel, or the service fail or close.
Fairness ==
    /\ \A w \in Worker : WF_vars(WorkerStep(w))
    /\ \A w \in Worker : WF_vars(\E result \in {"ok", "error"} : CallbackReturns(w, result))
    /\ \A t \in Task : WF_vars(BackoffElapses(t))
    /\ \A q \in Queue : WF_vars(\E c \in Requested, r \in Retries : CreateQueue(q, c, r))
    /\ WF_vars(Load)
    /\ WF_vars(CloseCancel)
    /\ WF_vars(StopLock)
    /\ WF_vars(CloseFinish(TRUE))

FairSpec == Spec /\ Fairness

\* Every task that was ever accepted is settled: it completes, fails or is
\* cancelled, through crashes, shutdowns and retries.  The one way to keep it
\* from that is a settling statement that fails, which leaves the row running
\* until the next load.
EveryTaskSettles ==
    \A t \in Task :
        row[t].st = "pending" ~>
            \/ row[t].st \in Terminal \cup {"purged"}
            \/ row[t].st = "running" /\ lifeFaults > 0
=============================================================================
