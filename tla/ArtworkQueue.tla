--------------------------- MODULE ArtworkQueue ---------------------------
(***************************************************************************)
(* The acquisition of artwork: the queue of items to resolve, the worker   *)
(* pools that drain it, the images and the item states they store, and the *)
(* prune that reclaims what nothing references                             *)
(* (core/artwork/worker.go, processor.go, prune.go, image_store.go,        *)
(* housekeeping.go and their repositories).                                *)
(*                                                                         *)
(* An item is one entity's primary image.  A time is abstracted to what    *)
(* the code compares: retry_at to two values, since a worker only asks     *)
(* whether the row still has the one it dequeued; due to a flag; the clock *)
(* against enqueued_at to whether the next retry would fall past the       *)
(* twelve hours of giveUpAfter, which it does sooner the more attempts     *)
(* there were; the age of files and image rows to a choice of the prune,   *)
(* since an hour may pass between any two steps.  The order of a batch by  *)
(* priority is left out, since a batch holds at least 16 rows.             *)
(***************************************************************************)
EXTENDS Naturals, FiniteSets

CONSTANTS
  Item,        \* the entities with artwork
  Rechecked,   \* the items of a kind the periodic jobs visit again; the
               \* others are tracks, whose images are embedded
  Albums,      \* the items for which a backfill may search YouTube
  Image,       \* contents of images, identified by their hash
  Finds,       \* the images that may ever be found for an item, and whether
               \* their bytes go to the store: those of a folder or an upload
               \* stay where they are
  Pools,       \* the kinds each pool drains: a partition of Item
  Slots,       \* the concurrency of a pool
  MaxEvents    \* changes, announcements, new rows, prunes and faults

NoImage == "none"

ASSUME PoolsAssumption ==
  /\ UNION Pools = Item
  /\ \A p, q \in Pools : p # q => p \cap q = {}
  /\ Rechecked \subseteq Item /\ Albums \subseteq Rechecked

ASSUME FindsAssumption ==
  Finds \in [Item -> SUBSET [hash : Image, stored : BOOLEAN]]

ASSUME BoundsAssumption ==
  Slots \in Nat \ {0} /\ MaxEvents \in Nat

VARIABLES
  exists,    \* the entities in the library
  source,    \* what a complete resolution of an item finds now
  queue,     \* table artwork_queue
  art,       \* table item_artwork
  images,    \* table artwork: the hashes with a row
  files,     \* the hashes with a file in the image store
  work,      \* what the worker is doing with each item
  pruning,   \* the step of the prune that holds the write lock
  doomed,    \* the files its sweep has chosen
  dirty,     \* history: items whose source changed, could not be read or was
             \* replaced by a search's, since a fresh row announced them
  abandoned, \* history: items whose row was given up
  events

vars == <<exists, source, queue, art, images, files, work, pruning, doomed,
          dirty, abandoned, events>>

Images(i) == {f.hash : f \in Finds[i]}

NoRow == [queued |-> FALSE]

\* ArtworkPriorityRecheck, ...Backfill, and ...Scan or ...Bump
Recheck == 0
Backfill == 1
Urgent == 2

\* spent: the next retry would fall past enqueued_at + giveUpAfter.
Row == [queued : {TRUE}, at : 0..1, due : BOOLEAN, prio : 0..2, spent : BOOLEAN]

\* The state row of an item; hash NoImage is the known-absent state.
Unresolved == [known |-> FALSE]

State == [known : {TRUE}, hash : Image \cup {NoImage}, stored : BOOLEAN]

Absent == [known |-> TRUE, hash |-> NoImage, stored |-> FALSE]

Resolved(i) == art[i].known /\ art[i].hash # NoImage

Idle == [pc |-> "idle"]

TypeOK ==
  /\ exists \subseteq Item
  /\ source \in [Item -> Image \cup {NoImage}]
  /\ queue \in [Item -> Row \cup {NoRow}]
  /\ art \in [Item -> State \cup {Unresolved}]
  /\ images \subseteq Image /\ files \subseteq Image
  /\ work \in [Item -> {Idle} \cup
       [pc : {"taken", "absent", "place", "image", "item", "settle"},
        row : Row, out : {"found", "stale", "absent", "failed"},
        state : State \cup {Unresolved}]]
  /\ pruning \in {"off", "items", "queue", "orphans", "sweep", "remove"}
  /\ doomed \subseteq Image
  /\ dirty \subseteq Item /\ abandoned \subseteq Item
  /\ events \in 0..MaxEvents

Fresh(at, prio) ==
  [queued |-> TRUE, at |-> at, due |-> TRUE, prio |-> prio, spent |-> FALSE]

\* The first start: no artwork is resolved yet, and the backfill has queued
\* every item of its kinds, which are those the periodic jobs visit.
Init ==
  /\ exists = Item
  /\ source \in [Item -> Image \cup {NoImage}]
  /\ \A i \in Item : source[i] \in Images(i) \cup {NoImage}
  /\ queue = [i \in Item |-> IF i \in Rechecked THEN Fresh(0, Backfill) ELSE NoRow]
  /\ art = [i \in Item |-> Unresolved]
  /\ images = {} /\ files = {}
  /\ work = [i \in Item |-> Idle]
  /\ pruning = "off" /\ doomed = {}
  /\ dirty = {} /\ abandoned = {}
  /\ events = 0

Event == events < MaxEvents /\ events' = events + 1

---------------------------------------------------------------------------
(* The queue                                                               *)

\* A time no worker has seen in the row of i.
Now(i) == IF work[i].pc = "idle" THEN 0 ELSE 1 - work[i].row.at

\* A row that is due now with its whole retry budget.
Put(i, prio) ==
  /\ queue' = [queue EXCEPT ![i] = Fresh(Now(i), prio)]
  /\ dirty' = dirty \ {i}
  /\ abandoned' = abandoned \ {i}

Keep == UNCHANGED <<queue, dirty, abandoned>>

\* MAX(priority, excluded.priority)
Raised(i, prio) ==
  IF queue[i].queued THEN IF queue[i].prio > prio THEN queue[i].prio ELSE prio
  ELSE prio

\* ON CONFLICT raises the priority and starts the row anew.
Enqueue(i, prio) == Put(i, Raised(i, prio))

\* Mutant: the row is started anew, as by Enqueue.
EnqueuePreservingNothing(i) == Enqueue(i, Urgent)

\* ON CONFLICT only raises the priority.
EnqueuePreservingBackoff(i) ==
  \/ ~queue[i].queued /\ Put(i, Urgent)
  \/ /\ queue[i].queued /\ queue' = [queue EXCEPT ![i].prio = Raised(i, Urgent)]
     /\ UNCHANGED <<dirty, abandoned>>

\* ON CONFLICT DO NOTHING, for the items the SELECT finds.
InsertIfNotQueued(i, prio, selected) ==
  IF selected /\ ~queue[i].queued THEN Put(i, prio) ELSE Keep

EnqueueIfMissing(i) == InsertIfNotQueued(i, Urgent, ~art[i].known)

Unchanged(i) == queue[i].queued /\ queue[i].at = work[i].row.at

\* Mutant: the row is deleted by its key alone.
DeleteIfUnchangedAlways(i) ==
  queue' = [queue EXCEPT ![i] = NoRow]

DeleteIfUnchanged(i) ==
  queue' = IF Unchanged(i) THEN [queue EXCEPT ![i] = NoRow] ELSE queue

\* A later retry_at, so the row is not due; enqueued_at stays.  With this the
\* worker is done with the row, so nobody has a retry_at to tell the new one from.
MarkFailedIfUnchanged(i) ==
  queue' = IF Unchanged(i) THEN [queue EXCEPT ![i].due = FALSE] ELSE queue

---------------------------------------------------------------------------
(* Who enqueues                                                            *)

\* The image of i, or i itself, changes on disk or at an agent.
Change(i) ==
  /\ Event
  /\ \E h \in Images(i) \cup {NoImage} :
       /\ h # source[i] \/ i \notin exists
       /\ source' = [source EXCEPT ![i] = h]
  /\ exists' = exists \cup {i}
  /\ dirty' = dirty \cup {i}
  /\ UNCHANGED <<queue, art, images, files, work, pruning, doomed, abandoned>>

\* The entity leaves the library.
Remove(i) ==
  /\ Event
  /\ i \in exists
  /\ exists' = exists \ {i}
  /\ UNCHANGED <<source, queue, art, images, files, work, pruning, doomed,
                 dirty, abandoned>>

\* The scan of a changed folder, the import of a playlist, or the backfill
\* after a change of the configuration; a full scan asks only for what has
\* no state row.
Announce(i) ==
  /\ Event
  /\ i \in exists
  /\ \/ Enqueue(i, Urgent)
     \/ i \in Rechecked /\ Enqueue(i, Backfill)
     \/ EnqueueIfMissing(i)
  /\ UNCHANGED <<exists, source, art, images, files, work, pruning, doomed>>

\* A row that is there may be asked for any number of times.
Requested(i) == IF queue[i].queued THEN UNCHANGED events ELSE Event

\* The periodic rechecks: items without a state row, and stale absent rows.
PeriodicRecheck(i) ==
  /\ i \in Rechecked
  /\ Requested(i)
  /\ \/ InsertIfNotQueued(i, Recheck, art[i] = Absent)
     \/ InsertIfNotQueued(i, Recheck, ~art[i].known /\ i \in exists)
  /\ UNCHANGED <<exists, source, art, images, files, work, pruning, doomed>>

\* An item whose row is dropped before it is queued again, in two statements.
\* A re-imported track is only dropped: it is queued when it is viewed.
DeleteForItems(i) ==
  /\ Event
  /\ art' = [art EXCEPT ![i] = Unresolved]
  /\ UNCHANGED <<exists, source, queue, images, files, work, pruning, doomed,
                 dirty, abandoned>>

\* The bytes a state row points at cannot be served.
Dangling(i) ==
  /\ i \in exists /\ Resolved(i)
  /\ \/ art[i].hash \notin images
     \/ art[i].stored /\ art[i].hash \notin files
     \/ art[i].hash # source[i]

\* A request for the image: nothing known, absent an hour ago, or dangling.
View(i) ==
  /\ ~art[i].known \/ art[i] = Absent \/ Dangling(i)
  /\ Requested(i)
  /\ EnqueuePreservingBackoff(i)
  /\ UNCHANGED <<exists, source, art, images, files, work, pruning, doomed>>

---------------------------------------------------------------------------
(* The worker                                                              *)

Goto(i, pc) == work' = [work EXCEPT ![i].pc = pc]

Settle(i, out) ==
  work' = [work EXCEPT ![i].pc = "settle", ![i].out = out, ![i].state = Unresolved]

\* A pool takes every due row of its kinds, without marking them, once it is
\* done with the previous batch.
Drain(p) ==
  LET batch == {i \in p : queue[i].queued /\ queue[i].due}
  IN  /\ \A i \in p : work[i].pc = "idle"
      /\ batch # {}
      /\ work' = [i \in Item |->
           IF i \in batch
           THEN [pc |-> "taken", row |-> queue[i], out |-> "failed",
                 state |-> Unresolved]
           ELSE work[i]]
      /\ UNCHANGED <<exists, source, queue, art, images, files, pruning,
                     doomed, dirty, abandoned, events>>

Busy(p) == {i \in p : work[i].pc \notin {"idle", "taken"}}

\* What the resolver returns: an error, no image, the image, or an image of a
\* source that comes after one that failed.  Where a local source cannot be
\* read it may also return one that comes after it as the image (chainState
\* drops localErr: a later scan is to announce the item), or no image at all
\* (the tiles of a playlist, and ffmpeg, fail without localError).  For a row
\* of the backfill it may return what a search on YouTube has found.
Resolve(i) ==
  /\ work[i].pc = "taken"
  /\ \A p \in Pools : i \in p => Cardinality(Busy(p)) < Slots
  /\ \/ Settle(i, "failed") /\ UNCHANGED <<dirty, events>>
     \/ /\ i \in exists /\ Goto(i, "absent")
        /\ \/ source[i] = NoImage /\ UNCHANGED <<dirty, events>>
           \/ source[i] # NoImage /\ Event /\ dirty' = dirty \cup {i}
     \/ /\ i \in exists
        /\ \E f \in Finds[i], out \in {"found", "stale"} :
             /\ \/ /\ source[i] # NoImage /\ (out = "stale" \/ f.hash = source[i])
                   /\ UNCHANGED <<dirty, events>>
                \/ /\ source[i] # NoImage /\ out = "found" /\ f.hash # source[i]
                   /\ Event /\ dirty' = dirty \cup {i}
                \/ /\ i \in Albums /\ work[i].row.prio = Backfill /\ f.stored
                   /\ dirty' = IF out = "found" /\ f.hash # source[i]
                               THEN dirty \cup {i} ELSE dirty
                   /\ UNCHANGED events
             /\ work' = [work EXCEPT ![i].pc = "place", ![i].out = out,
                  ![i].state = [known |-> TRUE, hash |-> f.hash, stored |-> f.stored]]
  /\ UNCHANGED <<exists, source, queue, art, images, files, pruning, doomed,
                 abandoned>>

\* A step of the acquisition, or its error.
OrFail(i, step, next) ==
  \/ step /\ next /\ UNCHANGED events
  \/ Event /\ Settle(i, "failed") /\ UNCHANGED <<art, images, files>>

WriteAbsent(i) ==
  /\ work[i].pc = "absent"
  /\ OrFail(i, /\ art' = [art EXCEPT ![i] = Absent]
               /\ UNCHANGED <<images, files>>,
            Settle(i, "absent"))
  /\ UNCHANGED <<exists, source, queue, pruning, doomed, dirty, abandoned>>

\* Mutant: persist does not take the lock.
UnlockedAlways == TRUE

\* No prune holds the lock that persist takes for reading.
Unlocked == pruning = "off"

\* ImageStore.Write creates the file or renews its mtime.
PlaceBytes(i) ==
  /\ work[i].pc = "place"
  /\ Unlocked
  /\ OrFail(i, /\ files' = IF work[i].state.stored
                           THEN files \cup {work[i].state.hash} ELSE files
               /\ UNCHANGED <<art, images>>,
            Goto(i, "image"))
  /\ UNCHANGED <<exists, source, queue, pruning, doomed, dirty, abandoned>>

PutImage(i) ==
  /\ work[i].pc = "image"
  /\ OrFail(i, /\ images' = images \cup {work[i].state.hash}
               /\ UNCHANGED <<art, files>>,
            Goto(i, "item"))
  /\ UNCHANGED <<exists, source, queue, pruning, doomed, dirty, abandoned>>

PutItemArtwork(i) ==
  /\ work[i].pc = "item"
  /\ OrFail(i, /\ art' = [art EXCEPT ![i] = work[i].state]
               /\ UNCHANGED <<images, files>>,
            Settle(i, work[i].out))
  /\ UNCHANGED <<exists, source, queue, pruning, doomed, dirty, abandoned>>

\* A failure past the retry budget of the row that was dequeued.
Exhausted(i) == work[i].out \in {"stale", "failed"} /\ work[i].row.spent

\* Art that is served is kept; otherwise the item is recorded absent where a
\* periodic job can find it again.
GiveUp(i) ==
  art' = IF work[i].out = "failed" /\ i \in Rechecked /\ ~Resolved(i)
         THEN [art EXCEPT ![i] = Absent] ELSE art

\* The row is deleted or put off; an error of that leaves it as it was.
Process(i) ==
  /\ work[i].pc = "settle"
  /\ work' = [work EXCEPT ![i] = Idle]
  /\ \/ /\ IF work[i].out \in {"found", "absent"} \/ Exhausted(i)
           THEN DeleteIfUnchanged(i) ELSE MarkFailedIfUnchanged(i)
        /\ abandoned' = IF Exhausted(i) /\ Unchanged(i)
                        THEN abandoned \cup {i} ELSE abandoned
        /\ UNCHANGED events
     \/ Event /\ UNCHANGED <<queue, abandoned>>
  /\ IF Exhausted(i) THEN GiveUp(i) ELSE UNCHANGED art
  /\ UNCHANGED <<exists, source, images, files, pruning, doomed, dirty>>

---------------------------------------------------------------------------
(* The prune                                                               *)

\* persist holds the read lock from its first write to its last.
RunPrune ==
  /\ Event
  /\ pruning = "off"
  /\ \A i \in Item : work[i].pc \notin {"image", "item"}
  /\ pruning' = "items"
  /\ UNCHANGED <<exists, source, queue, art, images, files, work, doomed,
                 dirty, abandoned>>

PurgeDanglingItems ==
  /\ pruning = "items" /\ pruning' = "queue"
  /\ art' = [i \in Item |-> IF i \in exists THEN art[i] ELSE Unresolved]
  /\ UNCHANGED <<exists, source, queue, images, files, work, doomed, dirty,
                 abandoned, events>>

PurgeDangling ==
  /\ pruning = "queue" /\ pruning' = "orphans"
  /\ queue' = [i \in Item |-> IF i \in exists THEN queue[i] ELSE NoRow]
  /\ UNCHANGED <<exists, source, art, images, files, work, doomed, dirty,
                 abandoned, events>>

Referenced == {art[i].hash : i \in {j \in Item : Resolved(j)}}

\* Those created more than an hour ago.
PurgeOrphans ==
  /\ pruning = "orphans" /\ pruning' = "sweep"
  /\ \E old \in SUBSET (images \ Referenced) : images' = images \ old
  /\ UNCHANGED <<exists, source, queue, art, files, work, doomed, dirty,
                 abandoned, events>>

\* GetMimeByHash, and the files of more than an hour ago the walk will remove.
Sweep ==
  /\ pruning = "sweep" /\ pruning' = "remove"
  /\ doomed' \in SUBSET (files \ images)
  /\ UNCHANGED <<exists, source, queue, art, images, files, work, dirty,
                 abandoned, events>>

RemoveFiles ==
  /\ pruning = "remove" /\ pruning' = "off"
  /\ files' = files \ doomed
  /\ doomed' = {}
  /\ UNCHANGED <<exists, source, queue, art, images, work, dirty, abandoned,
                 events>>

\* An error of a step ends the prune.
PruneFails ==
  /\ Event
  /\ pruning # "off" /\ pruning' = "off"
  /\ doomed' = {}
  /\ UNCHANGED <<exists, source, queue, art, images, files, work, dirty,
                 abandoned>>

---------------------------------------------------------------------------
(* Time and restarts                                                       *)

\* The backoff of a row ends.
Elapse(i) ==
  /\ queue[i].queued /\ ~queue[i].due
  /\ queue' = [queue EXCEPT ![i].due = TRUE]
  /\ UNCHANGED <<exists, source, art, images, files, work, pruning, doomed,
                 dirty, abandoned, events>>

\* The retry budget of the row a worker has ends, and that of the row in the
\* table unless that is another one by now.  The clock is only looked at when
\* a failure is settled, so that is where it is let pass.
Spend(i) ==
  /\ work[i].pc = "settle" /\ work[i].out \in {"stale", "failed"}
  /\ ~work[i].row.spent
  /\ work' = [work EXCEPT ![i].row.spent = TRUE]
  /\ queue' = IF Unchanged(i) THEN [queue EXCEPT ![i].spent = TRUE] ELSE queue
  /\ UNCHANGED <<exists, source, art, images, files, pruning, doomed, dirty,
                 abandoned, events>>

\* The process stops; the tables and the store stay.
Crash ==
  /\ Event
  /\ pruning # "off" \/ \E i \in Item : work[i].pc # "idle"
  /\ work' = [i \in Item |-> Idle]
  /\ pruning' = "off" /\ doomed' = {}
  /\ UNCHANGED <<exists, source, queue, art, images, files, dirty, abandoned>>

WorkStep(i) ==
  \/ Resolve(i) \/ WriteAbsent(i) \/ PlaceBytes(i) \/ PutImage(i)
  \/ PutItemArtwork(i) \/ Process(i)

PruneStep ==
  PurgeDanglingItems \/ PurgeDangling \/ PurgeOrphans \/ Sweep \/ RemoveFiles

Next ==
  \/ \E i \in Item :
       \/ Change(i) \/ Remove(i) \/ Announce(i) \/ PeriodicRecheck(i)
       \/ DeleteForItems(i) \/ View(i) \/ WorkStep(i) \/ Elapse(i) \/ Spend(i)
  \/ \E p \in Pools : Drain(p)
  \/ RunPrune \/ PruneStep \/ PruneFails
  \/ Crash

Spec == Init /\ [][Next]_vars

\* The pools poll for as long as the process runs, the workers and the prune
\* are goroutines that are never blocked for good, and time passes: one of the
\* failures of a row that fails over and over comes after its budget has ended.
FairSpec ==
  /\ Spec
  /\ \A i \in Item : WF_vars(WorkStep(i)) /\ WF_vars(Elapse(i)) /\ SF_vars(Spend(i))
  /\ \A p \in Pools : WF_vars(Drain(p))
  /\ WF_vars(PruneStep)

---------------------------------------------------------------------------
(* Properties                                                              *)

\* A change that was announced by a fresh queue row is never lost, also when
\* a worker that read the old image finishes later (worker.go:243, "A scan
\* that re-enqueued this row mid-flight reset its retry_at"): an item with a
\* state row and no queue row shows what a resolution finds now, unless its
\* retries ran out.  What is settled wrongly is what the worker could not read:
\* a source behind an unreadable one, or, against resolve.go:30 ("a transient
\* I/O fault never records absent"), no image at all for a playlist whose tiles
\* or a track whose ffmpeg failed; and a search's image stays until the next
\* row that is no backfill.
SettledIsCurrent ==
  \A i \in exists \ (dirty \cup abandoned) :
    art[i].known /\ ~queue[i].queued => art[i].hash = source[i]

\* The prune never takes the row or the bytes of an image that an item's
\* state row refers to, whatever the worker acquires meanwhile
\* (worker.go:126 RunPrune, processor.go:152 persist).
ReferencedIsKept ==
  \A i \in Item : Resolved(i) =>
    /\ art[i].hash \in images
    /\ art[i].stored => art[i].hash \in files

\* Every queue row is resolved or given up, whatever the sources answer and
\* however often the item is viewed meanwhile: the budget runs from
\* enqueued_at, which only a scan or a backfill renews (worker.go:248-276).
\* That holds of deleted entities too; prune.go:27 ("would otherwise retry
\* forever") is about the rows that the recheck of their absent state inserts
\* again.
EveryRowSettles == \A i \in Item : queue[i].queued ~> ~queue[i].queued
=============================================================================
