---------------------------- MODULE ScanControl ----------------------------
(***************************************************************************)
(* Who may scan, and when (scanner/controller.go, scanner/watcher.go): the *)
(* running flag and the maintenance mutex, the callers that ask for scans, *)
(* the maintenance job, and the watcher that turns file system events into *)
(* scan requests.  What a scan does to a folder is one step here; the      *)
(* module LibraryScan has its details.                                     *)
(*                                                                         *)
(* Abstractions: the channels between the operating system and the watcher *)
(* are one FIFO; the debounce and retry delays are any time.               *)
(***************************************************************************)
EXTENDS Integers, Sequences, FiniteSets

CONSTANTS
    Folder,
    Caller,          \* goroutines of the API, the scheduler and the services
    Slot,            \* goroutines the watcher starts; their number is a bound
    Keeper,          \* runs of the database maintenance job
    Free,            \* "nobody holds the mutex"
    Batches,         \* the target sets a caller may pass
    MaxInbox,        \* capacity of the event channels
    MaxChanges,      \* bound: changes on disk
    MaxFaults        \* bound: errors of Status and of scans

ASSUME ActorAssumption ==
    /\ Caller \cap Slot = {} /\ (Caller \cup Slot) \cap Keeper = {}
    /\ Free \notin Caller \cup Slot \cup Keeper
ASSUME BatchAssumption == Batches \subseteq SUBSET Folder
ASSUME ControlBounds == MaxInbox \in Nat /\ MaxChanges \in Nat /\ MaxFaults \in Nat

VARIABLES
    running,     \* the atomic flag, "yes" or "no"
    mux,         \* holder of scanMaintenanceMux
    actor,       \* the goroutines inside ScanFolders, with what is left to scan
    keeper,      \* the maintenance runs
    dirty,       \* folders changed since they were last scanned
    changes,     \* changes so far
    inbox,       \* events on their way to the watcher
    targets,     \* the watcher's batch
    timer,       \* the trigger: "off" or "armed"
    faults,
    \* history
    missed,      \* folders with a change the watcher never heard of
    dropped,     \* folders of a batch whose scan was refused or failed
    stalled      \* a failed Status left the batch without a trigger

watcher == <<inbox, targets, timer>>
history == <<missed, dropped, stalled>>
vars == <<running, mux, actor, keeper, dirty, changes, inbox, targets, timer,
          faults, missed, dropped, stalled>>

Actor == Caller \cup Slot
Rest  == [pc |-> "idle", todo |-> {}]

Init ==
    /\ running = "no" /\ mux = Free
    /\ actor = [a \in Actor |-> Rest]
    /\ keeper = [k \in Keeper |-> "idle"]
    /\ dirty = {} /\ changes = 0
    /\ inbox = <<>> /\ targets = {} /\ timer = "off"
    /\ faults = 0
    /\ missed = {} /\ dropped = {} /\ stalled = "no"

-----------------------------------------------------------------------------
(* ScanFolders *)

Goto(a, pc) == actor' = [actor EXCEPT ![a].pc = pc]

\* A caller enters ScanFolders, or ScanAll, which passes no targets.
Ask(c, batch) ==
    /\ actor[c].pc = "idle"
    /\ actor' = [actor EXCEPT ![c] = [pc |-> "ask", todo |-> IF batch = {} THEN Folder ELSE batch]]
    /\ UNCHANGED <<running, mux, keeper, dirty, changes, watcher, faults, history>>

\* Mutant: the flag is set without being compared.
FlagIgnored == TRUE

FlagIsDown == running = "no"

\* lockScan: running.CompareAndSwap(false, true) ...
Win(a) ==
    /\ actor[a].pc = "ask"
    /\ FlagIsDown
    /\ running' = "yes"
    /\ Goto(a, "lock")
    /\ UNCHANGED <<mux, keeper, dirty, changes, watcher, faults, history>>

\* ... or ErrAlreadyScanning, which the watcher's goroutine only logs.
Lose(a) ==
    /\ actor[a].pc = "ask"
    /\ running = "yes"
    /\ actor' = [actor EXCEPT ![a] = Rest]
    /\ dropped' = IF a \in Slot THEN dropped \cup actor[a].todo ELSE dropped
    /\ UNCHANGED <<running, mux, keeper, dirty, changes, watcher, faults, missed, stalled>>

\* Mutant: the scan does not wait for the maintenance to end.
MuxIgnored == TRUE

MuxFree == mux = Free

\* scanMaintenanceMux.Lock()
Lock(a) ==
    /\ actor[a].pc = "lock"
    /\ MuxFree
    /\ mux' = a
    /\ Goto(a, "scan")
    /\ UNCHANGED <<running, keeper, dirty, changes, watcher, faults, history>>

\* The scan reads one of its folders.
ScanFolder(a, f) ==
    /\ actor[a].pc = "scan"
    /\ f \in actor[a].todo
    /\ actor' = [actor EXCEPT ![a].todo = @ \ {f}]
    /\ dirty' = dirty \ {f}
    /\ dropped' = dropped \ {f}
    /\ missed' = missed \ {f}
    /\ UNCHANGED <<running, mux, keeper, changes, watcher, faults, stalled>>

\* The scan ends: it has read everything, or it has failed.
EndScan(a) ==
    /\ actor[a].pc = "scan"
    /\ actor[a].todo = {} \/ faults < MaxFaults
    /\ faults' = IF actor[a].todo = {} THEN faults ELSE faults + 1
    /\ dropped' = IF a \in Slot THEN dropped \cup actor[a].todo ELSE dropped
    /\ actor' = [actor EXCEPT ![a] = [pc |-> "unlock", todo |-> {}]]
    /\ UNCHANGED <<running, mux, keeper, dirty, changes, watcher, missed, stalled>>

\* release: unlock the mutex, then lower the flag.
Unlock(a) ==
    /\ actor[a].pc = "unlock"
    /\ mux' = Free
    /\ Goto(a, "lower")
    /\ UNCHANGED <<running, keeper, dirty, changes, watcher, faults, history>>

\* Mutant: release unlocks the mutex and forgets the flag.
LowerForgotten(a) == actor[a].pc = "lower" /\ UNCHANGED vars

Lower(a) ==
    /\ actor[a].pc = "lower"
    /\ running' = "no"
    /\ Goto(a, "idle")
    /\ UNCHANGED <<mux, keeper, dirty, changes, watcher, faults, history>>

-----------------------------------------------------------------------------
(* LockForMaintenance *)

\* scanMaintenanceMux.TryLock()
TryLock(k) ==
    /\ keeper[k] = "idle"
    /\ mux = Free
    /\ mux' = k
    /\ keeper' = [keeper EXCEPT ![k] = "locked"]
    /\ UNCHANGED <<running, actor, dirty, changes, watcher, faults, history>>

\* Mutant: the flag is not looked at.
YieldsNever == FALSE

\* running.Load(): a scan has the flag and is waiting for the mutex.
Yields == running = "yes"

CheckRunning(k) ==
    /\ keeper[k] = "locked"
    /\ keeper' = [keeper EXCEPT ![k] = IF Yields THEN "idle" ELSE "keep"]
    /\ mux' = IF Yields THEN Free ELSE k
    /\ UNCHANGED <<running, actor, dirty, changes, watcher, faults, history>>

\* OptimizeIfNeeded is done; release.
EndMaintenance(k) ==
    /\ keeper[k] = "keep"
    /\ keeper' = [keeper EXCEPT ![k] = "idle"]
    /\ mux' = Free
    /\ UNCHANGED <<running, actor, dirty, changes, watcher, faults, history>>

-----------------------------------------------------------------------------
(* The watcher *)

\* The event channel has room.
HasRoom == Len(inbox) < MaxInbox

\* A folder changes; the operating system's event is queued, or lost when the
\* channel is full.
Change(f) ==
    /\ changes < MaxChanges
    /\ changes' = changes + 1
    /\ dirty' = dirty \cup {f}
    /\ IF HasRoom
       THEN inbox' = Append(inbox, f) /\ UNCHANGED missed
       ELSE missed' = missed \cup {f} /\ UNCHANGED inbox
    /\ UNCHANGED <<running, mux, actor, keeper, targets, timer, faults, dropped, stalled>>

\* processLibraryEvents passes an event on and Run receives it: into the batch,
\* and the trigger is set again.
Notice ==
    /\ inbox # <<>>
    /\ inbox' = Tail(inbox)
    /\ targets' = targets \cup {Head(inbox)}
    /\ timer' = "armed"
    /\ stalled' = "no"
    /\ UNCHANGED <<running, mux, actor, keeper, dirty, changes, faults, missed, dropped>>

\* Mutant: the trigger is not set again while a scan runs.
RearmedNever == "off"

\* trigger.Reset(w.triggerWait * 3)
Rearmed == "armed"

\* The trigger fires during a scan: try again later.
Postpone ==
    /\ timer = "armed"
    /\ running = "yes"
    /\ timer' = Rearmed
    /\ UNCHANGED <<running, mux, actor, keeper, dirty, changes, inbox, targets,
                   faults, history>>

\* Mutant: the batch is not passed to the goroutine.
HandedNothing == {}

\* The targets of the goroutine's ScanFolders.
Handed == targets

\* The trigger fires and Status sees no scan: the batch goes to a goroutine of
\* its own, which will call ScanFolders.
Fire(a) ==
    /\ timer = "armed"
    /\ running = "no"
    /\ actor[a].pc = "idle"
    /\ timer' = "off"
    /\ targets' = {}
    /\ actor' = [actor EXCEPT ![a] = [pc |-> "ask", todo |-> Handed]]
    /\ UNCHANGED <<running, mux, keeper, dirty, changes, inbox, faults, history>>

\* Status returns an error: the batch is kept, but the trigger is not set.
StatusFault ==
    /\ timer = "armed"
    /\ faults < MaxFaults
    /\ faults' = faults + 1
    /\ timer' = "off"
    /\ stalled' = "yes"
    /\ UNCHANGED <<running, mux, actor, keeper, dirty, changes, inbox, targets,
                   missed, dropped>>

-----------------------------------------------------------------------------

ActorStep(a) ==
    \/ Win(a) \/ Lose(a) \/ Lock(a) \/ EndScan(a) \/ Unlock(a) \/ Lower(a)
    \/ \E f \in Folder : ScanFolder(a, f)

WatcherStep == Notice \/ Postpone \/ StatusFault \/ \E a \in Slot : Fire(a)

Next ==
    \/ \E c \in Caller, b \in Batches : Ask(c, b)
    \/ \E a \in Actor : ActorStep(a)
    \/ \E k \in Keeper : TryLock(k) \/ CheckRunning(k) \/ EndMaintenance(k)
    \/ \E f \in Folder : Change(f)
    \/ WatcherStep

Spec == Init /\ [][Next]_vars

-----------------------------------------------------------------------------
(* Properties *)

ActorState == [pc : {"idle", "ask", "lock", "scan", "unlock", "lower"}, todo : SUBSET Folder]

\* Every variable has its type.
TypeOK ==
    /\ running \in {"yes", "no"}
    /\ mux \in Actor \cup Keeper \cup {Free}
    /\ actor \in [Actor -> ActorState]
    /\ keeper \in [Keeper -> {"idle", "locked", "keep"}]
    /\ dirty \subseteq Folder /\ changes \in 0..MaxChanges
    /\ inbox \in Seq(Folder) /\ Len(inbox) <= MaxInbox
    /\ targets \subseteq Folder /\ timer \in {"off", "armed"}
    /\ faults \in 0..MaxFaults
    /\ missed \subseteq Folder /\ dropped \subseteq Folder /\ stalled \in {"yes", "no"}

Flagged == {"lock", "scan", "unlock", "lower"}

\* "There can be only one": the flag is up exactly while one goroutine is
\* between winning it and lowering it, so Status never reports an idle scanner
\* during a scan, and two scans never overlap.
OneScanAtATime ==
    /\ running = "yes" <=> \E a \in Actor : actor[a].pc \in Flagged
    /\ \A a, b \in Actor : (actor[a].pc \in Flagged /\ actor[b].pc \in Flagged) => a = b

\* A scan and a maintenance run never overlap, nor do two maintenance runs.
MaintenanceExcludesScan ==
    /\ \A a \in Actor, k \in Keeper : ~(actor[a].pc = "scan" /\ keeper[k] = "keep")
    /\ \A j, k \in Keeper : (keeper[j] = "keep" /\ keeper[k] = "keep") => j = k

\* A maintenance run that finds a scan waiting for the mutex gives way: once a
\* scan has won the flag, no maintenance begins before it has run.
NoMaintenanceAhead ==
    [][(\E a \in Actor : actor[a].pc = "lock") =>
        \A k \in Keeper : keeper'[k] = "keep" => keeper[k] = "keep"]_vars

\* A batch of targets has a trigger, unless reading the status has failed.
BatchHasTrigger == targets # {} => timer = "armed" \/ stalled = "yes"

\* A change is somewhere on its way to a scan: an event, in the batch, in the
\* hands of a goroutine, or known to be lost.
ChangeAccountedFor ==
    \A f \in dirty :
        \/ f \in {inbox[i] : i \in 1..Len(inbox)}
        \/ f \in targets \cup missed \cup dropped
        \/ \E a \in Slot : f \in actor[a].todo

-----------------------------------------------------------------------------
(* Liveness *)

\* Goroutines run, scans and maintenance runs end, timers fire.  sync.Mutex
\* hands a contended lock to a waiter that has waited for a millisecond, and
\* TryLock fails while it does, so Lock is strongly fair.  Nobody has to call,
\* change a file or start a maintenance run.
Fairness ==
    /\ \A a \in Actor : WF_vars(ActorStep(a)) /\ SF_vars(Lock(a))
    /\ \A k \in Keeper : WF_vars(CheckRunning(k) \/ EndMaintenance(k))
    /\ WF_vars(Notice)
    /\ SF_vars(\E a \in Slot : Fire(a))

FairSpec == Spec /\ Fairness

\* A caller that wins the flag gets to scan: the maintenance job does not keep
\* it waiting for ever, and then the scanner is free again.
FlagIsReleased ==
    \A a \in Actor : actor[a].pc = "lock" ~> actor[a].pc = "idle"

\* A change is scanned, or was lost in one of the known ways.
ChangeHandled ==
    \A f \in Folder : f \in dirty ~> (f \notin dirty \/ f \in missed \cup dropped \/ stalled = "yes")

=============================================================================
