------------------------- MODULE ArtworkQueueProofs -------------------------
(***************************************************************************)
(* Proofs about ArtworkQueue, for any sets of items and images, any pools, *)
(* any concurrency and any bounds.                                         *)
(***************************************************************************)
EXTENDS ArtworkQueue, TLAPS

-----------------------------------------------------------------------------
(* Type correctness *)

BusyState ==
    [pc : {"taken", "absent", "place", "image", "item", "settle"},
     row : Row, out : {"found", "stale", "absent", "failed"},
     state : State \cup {Unresolved}]

\* A row that still has the retry_at a worker dequeued is the row it dequeued,
\* with the same budget: whoever renews it meanwhile gives it another retry_at.
\* Only its priority may have been raised.  And what it stores is an image.
InHand(i) ==
    /\ work[i].pc # "idle" =>
           /\ work[i].row.due
           /\ Unchanged(i) => queue[i].due /\ queue[i].spent = work[i].row.spent
    /\ work[i].pc \in {"place", "image", "item"} =>
           work[i].state.known /\ work[i].state.hash \in Image

Typed == TypeOK /\ \A i \in Item : InHand(i)

LEMMA Constants ==
  /\ Slots \in Nat /\ MaxEvents \in Nat
  /\ NoRow \notin Row /\ NoRow.queued = FALSE
  /\ \A at \in 0..1, prio \in 0..2 : Fresh(at, prio) \in Row
  /\ Absent \in State /\ Idle \notin BusyState
  <1>1. Slots \in Nat /\ MaxEvents \in Nat
    BY BoundsAssumption
  <1>2. NoRow \notin Row /\ NoRow.queued = FALSE /\ Absent \in State
    BY DEF NoRow, Row, Absent, State, NoImage
  <1>3. \A at \in 0..1, prio \in 0..2 : Fresh(at, prio) \in Row
    BY DEF Fresh, Row
  <1>4. Idle \notin BusyState
    BY DEF Idle, BusyState
  <1> QED
    BY <1>1, <1>2, <1>3, <1>4

\* The state of a worker with an item in hand.
LEMMA BusyWork ==
  ASSUME TypeOK, NEW i \in Item, work[i].pc # "idle"
  PROVE  /\ work[i] \in BusyState /\ work[i].row \in Row /\ work[i].row.at \in 0..1
         /\ work[i].state \in State \cup {Unresolved}
  <1>1. work[i] \in BusyState
    BY DEF TypeOK, BusyState, Idle
  <1> QED
    BY <1>1 DEF BusyState, Row

LEMMA NowInRange ==
  ASSUME TypeOK, NEW i \in Item
  PROVE  Now(i) \in 0..1 /\ (work[i].pc # "idle" => Now(i) # work[i].row.at)
  BY BusyWork DEF Now

LEMMA TypedInit == Init => Typed
  <1> SUFFICES ASSUME Init PROVE Typed
    OBVIOUS
  <1>1. TypeOK
    BY Constants, PoolsAssumption DEF Init, TypeOK, Backfill
  <1>2. \A i \in Item : InHand(i)
    BY DEF Init, InHand, Idle
  <1> QED
    BY <1>1, <1>2 DEF Typed

\* What an enqueue does to the queue: nothing, a fresh row, or a higher priority.
Raise(i) ==
    /\ queue[i].queued /\ queue' = [queue EXCEPT ![i].prio = Raised(i, Urgent)]
    /\ UNCHANGED <<dirty, abandoned>>

Enqueued(i) == Keep \/ Raise(i) \/ \E prio \in 0..2 : Put(i, prio)

LEMMA RaisedInRange ==
  ASSUME Typed, NEW i \in Item, NEW prio \in 0..2
  PROVE  Raised(i, prio) \in 0..2
  <1>1. queue[i].queued => queue[i].prio \in 0..2
    BY Constants DEF Typed, TypeOK, Row
  <1> QED
    BY <1>1 DEF Raised

\* The ways to enqueue an item come to one of these.
LEMMA EnqueueForms ==
  ASSUME Typed, NEW i \in Item, Announce(i) \/ PeriodicRecheck(i) \/ View(i)
  PROVE  /\ Enqueued(i)
         /\ UNCHANGED <<exists, source, art, images, files, work, pruning, doomed>>
  <1>1. Recheck \in 0..2 /\ Backfill \in 0..2 /\ Urgent \in 0..2
    BY DEF Recheck, Backfill, Urgent
  <1>2. ASSUME NEW prio \in 0..2, Enqueue(i, prio) PROVE Enqueued(i)
    BY <1>2, RaisedInRange DEF Enqueue, Enqueued
  <1>3. ASSUME NEW prio \in 0..2, NEW selected, InsertIfNotQueued(i, prio, selected)
        PROVE  Enqueued(i)
    BY <1>3 DEF InsertIfNotQueued, Enqueued
  <1>4. ASSUME EnqueuePreservingBackoff(i) PROVE Enqueued(i)
    BY <1>1, <1>4 DEF EnqueuePreservingBackoff, Enqueued, Raise
  <1>5. CASE Announce(i)
    BY <1>1, <1>2, <1>3, <1>5 DEF Announce, EnqueueIfMissing
  <1>6. CASE PeriodicRecheck(i)
    BY <1>1, <1>3, <1>6 DEF PeriodicRecheck
  <1>7. CASE View(i)
    BY <1>4, <1>7 DEF View
  <1> QED
    BY <1>5, <1>6, <1>7

\* A raised row is the same one for a worker.
LEMMA RaiseKeeps ==
  ASSUME Typed, NEW i \in Item, Raise(i)
  PROVE  /\ queue' \in [Item -> Row \cup {NoRow}]
         /\ \A j \in Item : j # i => queue'[j] = queue[j]
         /\ queue'[i].queued = queue[i].queued /\ queue'[i].at = queue[i].at
         /\ queue'[i].due = queue[i].due /\ queue'[i].spent = queue[i].spent
  <1>1. queue[i] \in Row
    BY Constants DEF Raise, Typed, TypeOK
  <1>2. Raised(i, Urgent) \in 0..2
    BY RaisedInRange DEF Urgent
  <1> QED
    BY <1>1, <1>2 DEF Raise, Typed, TypeOK, Row

\* A fresh row comes under a time the worker has not seen.
LEMMA TypedPut ==
  ASSUME Typed, NEW i \in Item, Enqueued(i), UNCHANGED work
  PROVE  /\ queue' \in [Item -> Row \cup {NoRow}]
         /\ dirty' \subseteq Item /\ abandoned' \subseteq Item
         /\ \A j \in Item : InHand(j)'
  <1>1. ASSUME NEW prio \in 0..2, Put(i, prio)
        PROVE  /\ queue' \in [Item -> Row \cup {NoRow}]
               /\ dirty' \subseteq Item /\ abandoned' \subseteq Item
               /\ \A j \in Item : InHand(j)'
    <2>1. Fresh(Now(i), prio) \in Row /\ Fresh(Now(i), prio).at = Now(i)
      BY NowInRange, Constants DEF Fresh, Row, Typed
    <2>2. /\ queue' \in [Item -> Row \cup {NoRow}]
          /\ queue'[i] = Fresh(Now(i), prio)
          /\ \A j \in Item : j # i => queue'[j] = queue[j]
      BY <1>1, <2>1 DEF Put, Typed, TypeOK
    <2>3. InHand(i)'
      BY <2>1, <2>2, NowInRange DEF InHand, Unchanged, Typed
    <2>4. \A j \in Item : j # i => InHand(j)'
      BY <2>2 DEF InHand, Unchanged, Typed
    <2> QED
      BY <1>1, <2>2, <2>3, <2>4 DEF Put, Typed, TypeOK
  <1>2. CASE Keep
    BY <1>2 DEF Keep, Typed, TypeOK, InHand, Unchanged
  <1>3. CASE Raise(i)
    <2>1. \A j \in Item : InHand(j)'
      BY <1>3, RaiseKeeps DEF Typed, InHand, Unchanged
    <2> QED
      BY <1>3, <2>1, RaiseKeeps DEF Raise, Typed, TypeOK
  <1> QED
    BY <1>1, <1>2, <1>3 DEF Enqueued

LEMMA TypedOutside ==
  ASSUME Typed, NEW i \in Item,
         Change(i) \/ Remove(i) \/ Announce(i) \/ PeriodicRecheck(i) \/ DeleteForItems(i) \/ View(i)
  PROVE  Typed'
  <1>0. events' \in 0..MaxEvents
    BY Constants DEF Typed, TypeOK, Event, Requested, Change, Remove, Announce, PeriodicRecheck,
                     DeleteForItems, View
  <1>1. CASE Change(i)
    <2>1. source' \in [Item -> Image \cup {NoImage}]
      <3>1. \A h \in Images(i) : h \in Image
        BY FindsAssumption DEF Images
      <3> QED
        BY <1>1, <3>1 DEF Change, Typed, TypeOK
    <2> QED
      BY <1>0, <1>1, <2>1 DEF Change, Typed, TypeOK, InHand, Unchanged
  <1>2. CASE Remove(i)
    BY <1>0, <1>2 DEF Remove, Typed, TypeOK, InHand, Unchanged
  <1>3. CASE Announce(i) \/ PeriodicRecheck(i) \/ View(i)
    <2>1. /\ Enqueued(i)
          /\ UNCHANGED <<exists, source, art, images, files, work, pruning, doomed>>
      BY <1>3, EnqueueForms
    <2> QED
      BY <1>0, <2>1, TypedPut DEF Typed, TypeOK
  <1>4. CASE DeleteForItems(i)
    BY <1>0, <1>4 DEF DeleteForItems, Typed, TypeOK, InHand, Unchanged
  <1> QED
    BY <1>1, <1>2, <1>3, <1>4

\* What the worker writes to its own record keeps the row it has dequeued.
LEMMA TypedGoto ==
  ASSUME Typed, NEW i \in Item, work[i].pc # "idle", UNCHANGED queue,
         \/ Goto(i, "absent")
         \/ /\ work[i].pc \in {"place", "image"}
            /\ \E pc \in {"image", "item"} : Goto(i, pc)
         \/ \E out \in {"found", "stale", "absent", "failed"} : Settle(i, out)
  PROVE  /\ work' \in [Item -> {Idle} \cup BusyState]
         /\ \A j \in Item : InHand(j)'
         /\ \A j \in Item : j # i => work'[j] = work[j]
         /\ work'[i].row = work[i].row
         /\ \A pc : Goto(i, pc) => /\ work'[i].pc = pc /\ work'[i].out = work[i].out
                                   /\ work'[i].state = work[i].state
         /\ \A out : Settle(i, out) => work'[i].pc = "settle" /\ work'[i].out = out
  <1>1. work[i] \in BusyState
    BY BusyWork DEF Typed
  <1>2. work \in [Item -> {Idle} \cup BusyState]
    BY DEF Typed, TypeOK, BusyState
  <1>3. work'[i] \in BusyState /\ work'[i].row = work[i].row
    BY <1>1, <1>2 DEF Goto, Settle, BusyState
  <1>4. /\ \A j \in Item : j # i => work'[j] = work[j]
        /\ work' \in [Item -> {Idle} \cup BusyState]
    BY <1>1, <1>2, <1>3 DEF Goto, Settle
  <1>5. \A j \in Item : InHand(j)'
    <2>1. InHand(i)'
      BY <1>1, <1>2, <1>3 DEF Typed, InHand, Unchanged, Goto, Settle, BusyState
    <2>2. \A j \in Item : j # i => InHand(j)'
      BY <1>4 DEF Typed, InHand, Unchanged
    <2> QED
      BY <2>1, <2>2
  <1>6. \A pc : Goto(i, pc) => /\ work'[i].pc = pc /\ work'[i].out = work[i].out
                               /\ work'[i].state = work[i].state
    BY <1>1, <1>2 DEF Goto, BusyState
  <1>7. \A out : Settle(i, out) => work'[i].pc = "settle" /\ work'[i].out = out
    BY <1>1, <1>2 DEF Settle, BusyState
  <1> QED
    BY <1>3, <1>4, <1>5, <1>6, <1>7

\* The image a resolution has found.
LEMMA ResolvePlaces ==
  ASSUME Typed, NEW i \in Item, work[i].pc = "taken", NEW f \in Finds[i],
         NEW out \in {"found", "stale"}, UNCHANGED queue,
         work' = [work EXCEPT ![i].pc = "place", ![i].out = out,
                    ![i].state = [known |-> TRUE, hash |-> f.hash, stored |-> f.stored]]
  PROVE  /\ work' \in [Item -> {Idle} \cup BusyState]
         /\ \A j \in Item : InHand(j)'
         /\ \A j \in Item : j # i => work'[j] = work[j]
         /\ work'[i].pc = "place" /\ work'[i].out = out /\ work'[i].row = work[i].row
         /\ work'[i].state = [known |-> TRUE, hash |-> f.hash, stored |-> f.stored]
         /\ f.hash \in Image
  <1>0. f.hash \in Image /\ f.stored \in BOOLEAN
    BY FindsAssumption
  <1>1. [known |-> TRUE, hash |-> f.hash, stored |-> f.stored] \in State
    BY <1>0 DEF State
  <1>2. work[i] \in BusyState /\ work \in [Item -> {Idle} \cup BusyState]
    BY BusyWork DEF Typed, TypeOK, BusyState
  <1>3. /\ work'[i] \in BusyState
        /\ work'[i].pc = "place" /\ work'[i].out = out /\ work'[i].row = work[i].row
        /\ work'[i].state = [known |-> TRUE, hash |-> f.hash, stored |-> f.stored]
    BY <1>1, <1>2 DEF BusyState
  <1>4. /\ \A j \in Item : j # i => work'[j] = work[j]
        /\ work' \in [Item -> {Idle} \cup BusyState]
    BY <1>2, <1>3
  <1>5. InHand(i)'
    <2>1. InHand(i) /\ work'[i].state.known /\ work'[i].state.hash \in Image
      BY <1>0, <1>3 DEF Typed
    <2> QED
      BY <1>3, <2>1 DEF InHand, Unchanged
  <1>6. \A j \in Item : j # i => InHand(j)'
    BY <1>4 DEF Typed, InHand, Unchanged
  <1> QED
    BY <1>0, <1>3, <1>4, <1>5, <1>6

\* The row of a failed item is put off.
LEMMA MarkFailedTyped ==
  ASSUME Typed, NEW i \in Item, MarkFailedIfUnchanged(i)
  PROVE  /\ queue' \in [Item -> Row \cup {NoRow}]
         /\ \A j \in Item : j # i => queue'[j] = queue[j]
         /\ queue'[i].queued = queue[i].queued
  <1>1. CASE ~Unchanged(i)
    BY <1>1 DEF MarkFailedIfUnchanged, Typed, TypeOK
  <1>2. CASE Unchanged(i)
    <2>1. queue[i] \in Row
      BY <1>2, Constants DEF Unchanged, Typed, TypeOK
    <2>2. /\ queue'[i] = [queue[i] EXCEPT !.due = FALSE]
          /\ \A j \in Item : j # i => queue'[j] = queue[j]
          /\ queue' = [queue EXCEPT ![i] = queue'[i]]
      BY <1>2, <2>1 DEF MarkFailedIfUnchanged, Typed, TypeOK, Row
    <2>3. queue'[i] \in Row /\ queue'[i].queued = queue[i].queued
      BY <2>1, <2>2 DEF Row
    <2> QED
      BY <2>2, <2>3 DEF Typed, TypeOK
  <1> QED
    BY <1>1, <1>2

LEMMA DeleteTyped ==
  ASSUME Typed, NEW i \in Item, DeleteIfUnchanged(i)
  PROVE  /\ queue' \in [Item -> Row \cup {NoRow}]
         /\ \A j \in Item : j # i => queue'[j] = queue[j]
  BY DEF DeleteIfUnchanged, Typed, TypeOK

LEMMA TypedWork ==
  ASSUME Typed, NEW i \in Item, WorkStep(i)
  PROVE  Typed'
  <1>1. CASE Resolve(i)
    <2>1. work[i].pc = "taken" /\ UNCHANGED queue
      BY <1>1 DEF Resolve
    <2>2. work' \in [Item -> {Idle} \cup BusyState] /\ \A j \in Item : InHand(j)'
      <3>1. CASE Settle(i, "failed") \/ Goto(i, "absent")
        BY <2>1, <3>1, TypedGoto
      <3>2. CASE \E f \in Finds[i], out \in {"found", "stale"} :
                   work' = [work EXCEPT ![i].pc = "place", ![i].out = out,
                     ![i].state = [known |-> TRUE, hash |-> f.hash, stored |-> f.stored]]
        BY <2>1, <3>2, ResolvePlaces
      <3> QED
        BY <1>1, <3>1, <3>2 DEF Resolve
    <2>3. events' \in 0..MaxEvents /\ dirty' \subseteq Item
      BY <1>1, Constants DEF Resolve, Event, Typed, TypeOK
    <2> QED
      BY <1>1, <2>2, <2>3 DEF Resolve, Typed, TypeOK, BusyState
  <1>2. CASE WriteAbsent(i) \/ PlaceBytes(i) \/ PutImage(i) \/ PutItemArtwork(i)
    <2>1. /\ work[i].pc # "idle" /\ UNCHANGED queue
          /\ work[i].out \in {"found", "stale", "absent", "failed"}
      BY <1>2, BusyWork DEF WriteAbsent, PlaceBytes, PutImage, PutItemArtwork, Typed, BusyState
    <2>2. work' \in [Item -> {Idle} \cup BusyState] /\ \A j \in Item : InHand(j)'
      BY <1>2, <2>1, TypedGoto DEF WriteAbsent, PlaceBytes, PutImage, PutItemArtwork, OrFail
    <2>3. events' \in 0..MaxEvents
      BY <1>2, Constants DEF WriteAbsent, PlaceBytes, PutImage, PutItemArtwork, OrFail, Event, Typed, TypeOK
    <2>4. work[i].state \in State \cup {Unresolved}
      BY <2>1, BusyWork DEF Typed
    <2>5. art' \in [Item -> State \cup {Unresolved}]
      BY <1>2, <2>4, Constants DEF WriteAbsent, PlaceBytes, PutImage, PutItemArtwork, OrFail, Typed, TypeOK
    <2>6. images' \subseteq Image
      BY <1>2 DEF WriteAbsent, PlaceBytes, PutImage, PutItemArtwork, OrFail, Typed, TypeOK, InHand
    <2>7. files' \subseteq Image
      BY <1>2 DEF WriteAbsent, PlaceBytes, PutImage, PutItemArtwork, OrFail, Typed, TypeOK, InHand
    <2>8. UNCHANGED <<exists, source, queue, pruning, doomed, dirty, abandoned>>
      BY <1>2 DEF WriteAbsent, PlaceBytes, PutImage, PutItemArtwork
    <2> QED
      BY <2>2, <2>3, <2>5, <2>6, <2>7, <2>8 DEF Typed, TypeOK, BusyState
  <1>3. CASE Process(i)
    <2>1. work[i].pc = "settle" /\ work[i] \in BusyState /\ work[i].row \in Row
      BY <1>3, BusyWork DEF Process, Typed
    <2>2. /\ queue' \in [Item -> Row \cup {NoRow}]
          /\ \A j \in Item : j # i => queue'[j] = queue[j]
      <3>1. CASE UNCHANGED queue
        BY <3>1 DEF Typed, TypeOK
      <3>2. CASE IF work[i].out \in {"found", "absent"} \/ Exhausted(i)
                 THEN DeleteIfUnchanged(i) ELSE MarkFailedIfUnchanged(i)
        BY <3>2, DeleteTyped, MarkFailedTyped
      <3> QED
        BY <1>3, <3>1, <3>2 DEF Process
    <2>3. /\ work' \in [Item -> {Idle} \cup BusyState] /\ work'[i] = Idle
          /\ \A j \in Item : j # i => work'[j] = work[j]
      BY <1>3 DEF Process, Typed, TypeOK, BusyState
    <2>4. \A j \in Item : InHand(j)'
      BY <2>2, <2>3 DEF Typed, InHand, Unchanged, Idle
    <2>5. events' \in 0..MaxEvents /\ abandoned' \subseteq Item
      BY <1>3, Constants DEF Process, Event, Typed, TypeOK
    <2>6. art' \in [Item -> State \cup {Unresolved}]
      BY <1>3, Constants DEF Process, GiveUp, Typed, TypeOK
    <2> QED
      BY <1>3, <2>2, <2>3, <2>4, <2>5, <2>6 DEF Process, Typed, TypeOK, BusyState
  <1> QED
    BY <1>1, <1>2, <1>3 DEF WorkStep

LEMMA TypedStep == Typed /\ [Next]_vars => Typed'
  <1> SUFFICES ASSUME Typed, [Next]_vars PROVE Typed'
    OBVIOUS
  <1>1. ASSUME NEW i \in Item, Elapse(i) PROVE Typed'
    <2>1. queue[i] \in Row /\ ~queue[i].due
      BY <1>1, Constants DEF Elapse, Typed, TypeOK
    <2>2. /\ queue' \in [Item -> Row \cup {NoRow}]
          /\ \A j \in Item : j # i => queue'[j] = queue[j]
          /\ queue'[i].at = queue[i].at /\ queue'[i].queued = queue[i].queued
      BY <1>1, <2>1 DEF Elapse, Typed, TypeOK, Row
    <2>3. \A j \in Item : InHand(j)'
      BY <1>1, <2>1, <2>2 DEF Elapse, Typed, InHand, Unchanged
    <2> QED
      BY <1>1, <2>2, <2>3 DEF Elapse, Typed, TypeOK
  <1>2. ASSUME NEW p \in Pools, Drain(p) PROVE Typed'
    <2> DEFINE batch == {i \in p : queue[i].queued /\ queue[i].due}
    <2>1. \A i \in Item : i \in batch => queue[i] \in Row /\ queue[i].due
      BY Constants DEF Typed, TypeOK
    <2>2. \A i \in Item : IF i \in batch
            THEN /\ work'[i] = [pc |-> "taken", row |-> queue[i], out |-> "failed",
                                state |-> Unresolved]
            ELSE work'[i] = work[i]
      BY <1>2 DEF Drain
    <2>3. \A i \in Item : work'[i] \in {Idle} \cup BusyState
      <3>1. \A i \in Item : work[i] \in {Idle} \cup BusyState
        BY DEF Typed, TypeOK, BusyState
      <3>2. \A r \in Row : [pc |-> "taken", row |-> r, out |-> "failed",
                            state |-> Unresolved] \in BusyState
        BY DEF BusyState
      <3> QED
        BY <2>1, <2>2, <3>1, <3>2
    <2>4. work' \in [Item -> {Idle} \cup BusyState]
      BY <1>2, <2>3 DEF Drain
    <2>5. \A i \in Item : InHand(i)'
      BY <1>2, <2>1, <2>2 DEF Drain, Typed, InHand, Unchanged
    <2> QED
      BY <1>2, <2>4, <2>5 DEF Drain, Typed, TypeOK, BusyState
  <1>3. CASE RunPrune \/ PruneFails
    BY <1>3, Constants DEF RunPrune, PruneFails, Event, Typed, TypeOK, InHand, Unchanged
  <1>4. CASE PruneStep
    <2>1. CASE PurgeDanglingItems
      BY <1>4, <2>1 DEF PurgeDanglingItems, Typed, TypeOK, InHand, Unchanged
    <2>2. CASE PurgeDangling
      <3>1. \A i \in Item : queue'[i] = queue[i] \/ queue'[i] = NoRow
        BY <2>2 DEF PurgeDangling
      <3>2. queue' \in [Item -> Row \cup {NoRow}]
        BY <2>2 DEF PurgeDangling, Typed, TypeOK
      <3>3. \A i \in Item : InHand(i)'
        BY <2>2, <3>1, Constants DEF PurgeDangling, Typed, InHand, Unchanged
      <3> QED
        BY <2>2, <3>2, <3>3 DEF PurgeDangling, Typed, TypeOK
    <2>3. CASE PurgeOrphans
      BY <2>3 DEF PurgeOrphans, Typed, TypeOK, InHand, Unchanged
    <2>4. CASE Sweep
      BY <2>4 DEF Sweep, Typed, TypeOK, InHand, Unchanged
    <2>5. CASE RemoveFiles
      BY <2>5 DEF RemoveFiles, Typed, TypeOK, InHand, Unchanged
    <2> QED
      BY <1>4, <2>1, <2>2, <2>3, <2>4, <2>5 DEF PruneStep
  <1>5. ASSUME NEW i \in Item, Spend(i) PROVE Typed'
    <2>1. work[i] \in BusyState /\ work[i].row \in Row
      BY <1>5, BusyWork DEF Spend, Typed
    <2>2. /\ work'[i] \in BusyState /\ work'[i].row = [work[i].row EXCEPT !.spent = TRUE]
          /\ work' = [work EXCEPT ![i] = work'[i]]
      BY <1>5, <2>1 DEF Spend, Typed, TypeOK, BusyState, Row
    <2>3. work' \in [Item -> {Idle} \cup BusyState]
      BY <2>2 DEF Typed, TypeOK, BusyState
    <2>4. Unchanged(i) => queue[i] \in Row
      BY Constants DEF Unchanged, Typed, TypeOK
    <2>5. /\ queue' \in [Item -> Row \cup {NoRow}]
          /\ \A j \in Item : j # i => queue'[j] = queue[j]
          /\ queue'[i] = IF Unchanged(i) THEN [queue[i] EXCEPT !.spent = TRUE] ELSE queue[i]
      BY <1>5, <2>4 DEF Spend, Typed, TypeOK, Row
    <2>6. InHand(i)'
      <3>1. /\ work[i].pc = "settle" /\ work'[i].pc = "settle"
            /\ work'[i].row.at = work[i].row.at /\ work'[i].row.due = work[i].row.due
            /\ work'[i].row.spent
        BY <1>5, <2>1, <2>2 DEF Spend, Typed, TypeOK, BusyState, Row
      <3>2. CASE Unchanged(i)
        <4>1. queue'[i].due = queue[i].due /\ queue'[i].spent
          BY <2>4, <2>5, <3>2 DEF Row
        <4> QED
          BY <3>1, <3>2, <4>1 DEF Typed, InHand
      <3>3. CASE ~Unchanged(i)
        BY <2>5, <3>1, <3>3 DEF Typed, InHand, Unchanged
      <3> QED
        BY <3>2, <3>3
    <2>7. \A j \in Item : j # i => InHand(j)'
      BY <2>2, <2>5 DEF Typed, TypeOK, InHand, Unchanged
    <2> QED
      BY <1>5, <2>3, <2>5, <2>6, <2>7 DEF Spend, Typed, TypeOK, BusyState
  <1>6. CASE Crash
    BY <1>6, Constants DEF Crash, Event, Typed, TypeOK, InHand, Idle
  <1>7. CASE UNCHANGED vars
    BY <1>7 DEF vars, Typed, TypeOK, InHand, Unchanged
  <1> QED
    BY <1>1, <1>2, <1>3, <1>4, <1>5, <1>6, <1>7, TypedOutside, TypedWork DEF Next

\* Every variable keeps its type, and a queue row with the retry_at a worker
\* dequeued is the row it dequeued, with the same retry budget: a worker that
\* gives up never deletes a row with budget left.
THEOREM QueueTyped == Spec => []Typed
  BY TypedInit, TypedStep, PTL DEF Spec

-----------------------------------------------------------------------------
(* What is referenced is kept *)

\* The lock: no acquisition is between its first and its last write while the
\* prune runs.
LockHeld == pruning # "off" => \A i \in Item : work[i].pc \notin {"image", "item"}

\* What an acquisition has written so far is there, and it is about an image.
Placed(i) ==
    work[i].pc \in {"place", "image", "item"} =>
        LET state == work[i].state IN
        /\ state.known /\ state.hash \in Image
        /\ work[i].pc # "place" /\ state.stored => state.hash \in files
        /\ work[i].pc = "item" => state.hash \in images

\* The files chosen by the sweep have no image row.
DoomedIsOrphan ==
    /\ pruning # "remove" => doomed = {}
    /\ doomed \cap images = {}

Kept ==
    /\ LockHeld
    /\ \A i \in Item : Placed(i)
    /\ DoomedIsOrphan
    /\ ReferencedIsKept

LEMMA KeptInit == Init => Kept
  BY DEF Init, Kept, LockHeld, Placed, DoomedIsOrphan, ReferencedIsKept, Resolved, Idle, Unresolved

\* A step that leaves the acquisitions, the tables and the store alone, or
\* only forgets an item's state.
LEMMA KeptUntouched ==
  ASSUME Typed, Kept, UNCHANGED <<images, files, work, pruning, doomed>>,
         \A i \in Item : art'[i] = art[i] \/ ~Resolved(i)'
  PROVE  Kept'
  BY DEF Kept, LockHeld, Placed, DoomedIsOrphan, ReferencedIsKept, Resolved

\* A step of one worker that takes nothing away.
LEMMA KeptOneWorker ==
  ASSUME Typed, Kept, NEW i \in Item, UNCHANGED <<pruning, doomed>>,
         \A j \in Item : j # i => work'[j] = work[j],
         images \subseteq images', files \subseteq files',
         pruning = "off" \/ (UNCHANGED images /\ work'[i].pc \notin {"image", "item"}),
         Placed(i)',
         \A j \in Item : \/ art'[j] = art[j] \/ ~Resolved(j)'
                         \/ /\ art'[j].hash \in images'
                            /\ art'[j].stored => art'[j].hash \in files'
  PROVE  Kept'
  <1>1. LockHeld'
    BY DEF Kept, LockHeld
  <1>2. \A j \in Item : Placed(j)'
    BY DEF Kept, Placed
  <1>3. DoomedIsOrphan'
    BY DEF Kept, DoomedIsOrphan
  <1>4. ReferencedIsKept'
    BY DEF Kept, ReferencedIsKept, Resolved
  <1> QED
    BY <1>1, <1>2, <1>3, <1>4 DEF Kept

LEMMA KeptWork ==
  ASSUME Typed, Kept, NEW i \in Item, WorkStep(i)
  PROVE  Kept'
  <1>1. CASE Resolve(i)
    <2>1. /\ work[i].pc = "taken" /\ UNCHANGED <<queue, pruning, doomed, art, images, files>>
      BY <1>1 DEF Resolve
    <2>2. CASE Settle(i, "failed") \/ Goto(i, "absent")
      <3>1. work'[i].pc \in {"settle", "absent"} /\ \A j \in Item : j # i => work'[j] = work[j]
        BY <2>1, <2>2, TypedGoto
      <3>2. Placed(i)'
        BY <3>1 DEF Placed
      <3> QED
        BY <2>1, <3>1, <3>2, KeptOneWorker
    <2>3. ASSUME NEW f \in Finds[i], NEW out \in {"found", "stale"},
                 work' = [work EXCEPT ![i].pc = "place", ![i].out = out,
                   ![i].state = [known |-> TRUE, hash |-> f.hash, stored |-> f.stored]]
          PROVE  Kept'
      <3>1. /\ \A j \in Item : j # i => work'[j] = work[j]
            /\ work'[i].pc = "place" /\ f.hash \in Image
            /\ work'[i].state = [known |-> TRUE, hash |-> f.hash, stored |-> f.stored]
        BY <2>1, <2>3, ResolvePlaces
      <3>2. Placed(i)'
        BY <3>1 DEF Placed
      <3> QED
        BY <2>1, <3>1, <3>2, KeptOneWorker
    <2> QED
      BY <1>1, <2>2, <2>3 DEF Resolve
  <1>2. ASSUME Settle(i, "failed") \/ Settle(i, "absent"), work[i].pc # "idle",
               UNCHANGED <<queue, pruning, doomed, images, files>>,
               art' = art \/ art' = [art EXCEPT ![i] = Absent]
        PROVE  Kept'
    <2>1. work'[i].pc = "settle" /\ \A j \in Item : j # i => work'[j] = work[j]
      BY <1>2, TypedGoto
    <2>2. Placed(i)'
      BY <2>1 DEF Placed
    <2>3. \A j \in Item : art'[j] = art[j] \/ ~Resolved(j)'
      BY <1>2 DEF Typed, TypeOK, Resolved, Absent
    <2> QED
      BY <1>2, <2>1, <2>2, <2>3, KeptOneWorker
  <1>3. CASE WriteAbsent(i)
    BY <1>2, <1>3 DEF WriteAbsent, OrFail
  <1>4. CASE PlaceBytes(i)
    <2>1. CASE /\ files' = IF work[i].state.stored
                           THEN files \cup {work[i].state.hash} ELSE files
               /\ Goto(i, "image") /\ UNCHANGED <<art, images>>
      <3>1. /\ work[i].pc = "place" /\ pruning = "off" /\ UNCHANGED <<queue, pruning, doomed>>
            /\ work[i].state.known /\ work[i].state.hash \in Image
        BY <1>4 DEF PlaceBytes, Unlocked, Kept, Placed
      <3>2. /\ work'[i].pc = "image" /\ work'[i].state = work[i].state
            /\ \A j \in Item : j # i => work'[j] = work[j]
        BY <2>1, <3>1, TypedGoto
      <3>3. files \subseteq files' /\ (work[i].state.stored => work[i].state.hash \in files')
        BY <2>1
      <3>4. Placed(i)'
        BY <3>1, <3>2, <3>3 DEF Placed
      <3> QED
        BY <2>1, <3>1, <3>2, <3>3, <3>4, KeptOneWorker
    <2> QED
      BY <1>2, <1>4, <2>1 DEF PlaceBytes, OrFail
  <1>5. CASE PutImage(i)
    <2>1. CASE /\ images' = images \cup {work[i].state.hash}
               /\ Goto(i, "item") /\ UNCHANGED <<art, files>>
      <3>1. /\ work[i].pc = "image" /\ pruning = "off" /\ UNCHANGED <<queue, pruning, doomed>>
            /\ work[i].state.known /\ work[i].state.hash \in Image
            /\ work[i].state.stored => work[i].state.hash \in files
        BY <1>5 DEF PutImage, Kept, Placed, LockHeld
      <3>2. /\ work'[i].pc = "item" /\ work'[i].state = work[i].state
            /\ \A j \in Item : j # i => work'[j] = work[j]
        BY <2>1, <3>1, TypedGoto
      <3>3. images \subseteq images' /\ work[i].state.hash \in images'
        BY <2>1
      <3>4. Placed(i)'
        BY <2>1, <3>1, <3>2, <3>3 DEF Placed
      <3> QED
        BY <2>1, <3>1, <3>2, <3>3, <3>4, KeptOneWorker
    <2> QED
      BY <1>2, <1>5, <2>1 DEF PutImage, OrFail
  <1>6. CASE PutItemArtwork(i)
    <2>1. CASE /\ art' = [art EXCEPT ![i] = work[i].state]
               /\ Settle(i, work[i].out) /\ UNCHANGED <<images, files>>
      <3>0. work[i].out \in {"found", "stale", "absent", "failed"}
        BY <1>6, BusyWork DEF PutItemArtwork, Typed, BusyState
      <3>1. /\ work[i].pc = "item" /\ UNCHANGED <<queue, pruning, doomed>>
            /\ work[i].state.hash \in images
            /\ work[i].state.stored => work[i].state.hash \in files
        BY <1>6 DEF PutItemArtwork, Kept, Placed
      <3>2. work'[i].pc = "settle" /\ \A j \in Item : j # i => work'[j] = work[j]
        BY <2>1, <3>0, <3>1, TypedGoto
      <3>3. art'[i] = work[i].state /\ \A j \in Item : j # i => art'[j] = art[j]
        BY <2>1 DEF Typed, TypeOK
      <3>4. Placed(i)'
        BY <3>2 DEF Placed
      <3> QED
        BY <2>1, <3>1, <3>2, <3>3, <3>4, KeptOneWorker
    <2> QED
      BY <1>2, <1>6, <2>1 DEF PutItemArtwork, OrFail
  <1>7. CASE Process(i)
    <2>1. /\ work'[i] = Idle /\ \A j \in Item : j # i => work'[j] = work[j]
          /\ UNCHANGED <<pruning, doomed, images, files>>
      BY <1>7 DEF Process, Typed, TypeOK
    <2>2. \A j \in Item : art'[j] = art[j] \/ ~Resolved(j)'
      BY <1>7 DEF Process, GiveUp, Typed, TypeOK, Resolved, Absent
    <2>3. Placed(i)' /\ work'[i].pc = "idle"
      BY <2>1 DEF Placed, Idle
    <2> QED
      BY <2>1, <2>2, <2>3, KeptOneWorker
  <1> QED
    BY <1>1, <1>3, <1>4, <1>5, <1>6, <1>7 DEF WorkStep

LEMMA KeptPrune ==
  ASSUME Typed, Kept, PruneStep \/ RunPrune \/ PruneFails
  PROVE  Kept'
  <1>1. CASE RunPrune
    BY <1>1 DEF RunPrune, Kept, LockHeld, Placed, DoomedIsOrphan, ReferencedIsKept, Resolved
  <1>2. CASE PruneFails
    BY <1>2 DEF PruneFails, Kept, LockHeld, Placed, DoomedIsOrphan, ReferencedIsKept, Resolved
  <1>3. CASE PurgeDanglingItems
    <2>1. \A i \in Item : art'[i] = art[i] \/ ~Resolved(i)'
      BY <1>3 DEF PurgeDanglingItems, Resolved, Unresolved
    <2> QED
      BY <1>3, <2>1 DEF PurgeDanglingItems, Kept, LockHeld, Placed, DoomedIsOrphan, ReferencedIsKept, Resolved
  <1>4. CASE PurgeDangling
    BY <1>4 DEF PurgeDangling, Kept, LockHeld, Placed, DoomedIsOrphan, ReferencedIsKept, Resolved
  <1>5. CASE PurgeOrphans
    <2>1. \A j \in Item : Resolved(j) => art[j].hash \in Referenced
      BY DEF Referenced
    <2>2. images' \subseteq images /\ images \cap Referenced \subseteq images'
      BY <1>5 DEF PurgeOrphans
    <2>3. ReferencedIsKept'
      BY <1>5, <2>1, <2>2 DEF PurgeOrphans, Kept, ReferencedIsKept, Resolved
    <2>4. LockHeld' /\ DoomedIsOrphan'
      BY <1>5, <2>2 DEF PurgeOrphans, Kept, LockHeld, DoomedIsOrphan
    <2>5. \A i \in Item : Placed(i)'
      BY <1>5 DEF PurgeOrphans, Kept, LockHeld, Placed
    <2> QED
      BY <2>3, <2>4, <2>5 DEF Kept
  <1>6. CASE Sweep
    BY <1>6 DEF Sweep, Kept, LockHeld, Placed, DoomedIsOrphan, ReferencedIsKept, Resolved
  <1>7. CASE RemoveFiles
    <2>1. ReferencedIsKept'
      BY <1>7 DEF RemoveFiles, Kept, ReferencedIsKept, Resolved, DoomedIsOrphan
    <2>2. LockHeld' /\ DoomedIsOrphan'
      BY <1>7 DEF RemoveFiles, Kept, LockHeld, DoomedIsOrphan
    <2>3. \A i \in Item : Placed(i)'
      BY <1>7 DEF RemoveFiles, Kept, LockHeld, Placed
    <2> QED
      BY <2>1, <2>2, <2>3 DEF Kept
  <1> QED
    BY <1>1, <1>2, <1>3, <1>4, <1>5, <1>6, <1>7 DEF PruneStep

LEMMA KeptStep == Typed /\ Kept /\ [Next]_vars => Kept'
  <1> SUFFICES ASSUME Typed, Kept, [Next]_vars PROVE Kept'
    OBVIOUS
  <1>1. ASSUME NEW i \in Item,
               Change(i) \/ Remove(i) \/ Announce(i) \/ PeriodicRecheck(i) \/ View(i) \/ Elapse(i)
        PROVE  Kept'
    BY <1>1, KeptUntouched DEF Change, Remove, Announce, PeriodicRecheck, View, Elapse
  <1>2. ASSUME NEW i \in Item, DeleteForItems(i) PROVE Kept'
    <2>1. \A j \in Item : art'[j] = art[j] \/ ~Resolved(j)'
      BY <1>2 DEF DeleteForItems, Typed, TypeOK, Resolved, Unresolved
    <2> QED
      BY <1>2, <2>1, KeptUntouched DEF DeleteForItems
  <1>3. ASSUME NEW p \in Pools, Drain(p) PROVE Kept'
    <2>1. \A i \in Item : work'[i] = work[i] \/ work'[i].pc = "taken"
      BY <1>3 DEF Drain
    <2> QED
      BY <1>3, <2>1 DEF Drain, Kept, LockHeld, Placed, DoomedIsOrphan, ReferencedIsKept, Resolved
  <1>4. ASSUME NEW i \in Item, Spend(i) PROVE Kept'
    <2>1. /\ \A j \in Item : j # i => work'[j] = work[j]
          /\ work'[i].pc = "settle" /\ UNCHANGED <<art, images, files, pruning, doomed>>
      BY <1>4, BusyWork DEF Spend, Typed, TypeOK, BusyState
    <2>2. Placed(i)'
      BY <2>1 DEF Placed
    <2> QED
      BY <2>1, <2>2, KeptOneWorker
  <1>5. CASE Crash
    BY <1>5 DEF Crash, Kept, LockHeld, Placed, DoomedIsOrphan, ReferencedIsKept, Resolved, Idle
  <1>6. CASE UNCHANGED vars
    BY <1>6, KeptUntouched DEF vars
  <1> QED
    BY <1>1, <1>2, <1>3, <1>4, <1>5, <1>6, KeptWork, KeptPrune DEF Next

\* The prune never takes the row or the bytes of an image that an item's state
\* refers to, whatever the workers acquire meanwhile.
THEOREM ReferencedKept == Spec => []ReferencedIsKept
  <1>1. Kept => ReferencedIsKept
    BY DEF Kept
  <1> QED
    BY <1>1, TypedInit, TypedStep, KeptInit, KeptStep, PTL DEF Spec

-----------------------------------------------------------------------------
(* What is settled is current *)

\* What a worker is about to store, or has stored, is what a resolution finds
\* now.
Faithful(i) ==
    /\ work[i].pc = "absent" => source[i] = NoImage
    /\ work[i].pc \in {"place", "image", "item"} =>
           /\ work[i].out \in {"found", "stale"}
           /\ work[i].out = "found" => work[i].state.hash = source[i]
    /\ work[i].pc = "settle" /\ work[i].out \in {"found", "absent"} /\ art[i].known =>
           art[i].hash = source[i]

\* A worker may only be wrong about an item when a fresh row has been queued
\* behind its back, which it will leave there.
Announced(i) ==
    i \in exists /\ i \notin dirty /\ work[i].pc # "idle" =>
        /\ queue[i].queued
        /\ Unchanged(i) => Faithful(i)

ShowsSource(i) ==
    i \in exists \ (dirty \cup abandoned) /\ art[i].known /\ ~queue[i].queued =>
        art[i].hash = source[i]

Current == \A i \in Item : Announced(i) /\ ShowsSource(i)

LEMMA CurrentInit == Init => Current
  BY DEF Init, Current, Announced, ShowsSource, Idle, Unresolved

\* An item whose row, work and source a step leaves alone.
LEMMA CurrentFrame ==
  ASSUME NEW j \in Item, Announced(j), ShowsSource(j),
         work'[j] = work[j], queue'[j] = queue[j], source'[j] = source[j],
         art'[j] = art[j] \/ ~art'[j].known,
         j \in exists' /\ j \notin dirty' => j \in exists /\ j \notin dirty,
         j \in abandoned => j \in abandoned'
  PROVE  Announced(j)' /\ ShowsSource(j)'
  BY DEF Announced, ShowsSource, Faithful, Unchanged

\* An item that has just been put in the queue.
LEMMA CurrentPut ==
  ASSUME Typed, Current, NEW i \in Item, Enqueued(i),
         UNCHANGED <<exists, source, art, work>>
  PROVE  Current'
  <1>1. ASSUME NEW prio \in 0..2, Put(i, prio) PROVE Current'
    <2>1. Fresh(Now(i), prio).at = Now(i) /\ Fresh(Now(i), prio).queued
      BY DEF Fresh
    <2>2. /\ queue'[i] = Fresh(Now(i), prio) /\ \A j \in Item : j # i => queue'[j] = queue[j]
      BY <1>1 DEF Put, Typed, TypeOK
    <2>3. Announced(i)' /\ ShowsSource(i)'
      BY <2>1, <2>2, NowInRange DEF Announced, ShowsSource, Unchanged, Typed
    <2>4. ASSUME NEW j \in Item, j # i PROVE Announced(j)' /\ ShowsSource(j)'
      BY <1>1, <2>2, <2>4, CurrentFrame DEF Put, Current
    <2> QED
      BY <2>3, <2>4 DEF Current
  <1>2. CASE Keep
    BY <1>2, CurrentFrame DEF Keep, Current
  <1>3. CASE Raise(i)
    <2>1. Announced(i)' /\ ShowsSource(i)'
      BY <1>3, RaiseKeeps DEF Raise, Current, Announced, ShowsSource, Faithful, Unchanged
    <2>2. ASSUME NEW j \in Item, j # i PROVE Announced(j)' /\ ShowsSource(j)'
      BY <1>3, <2>2, RaiseKeeps, CurrentFrame DEF Raise, Current
    <2> QED
      BY <2>1, <2>2 DEF Current
  <1> QED
    BY <1>1, <1>2, <1>3 DEF Enqueued

LEMMA CurrentOutside ==
  ASSUME Typed, Current, NEW i \in Item,
         Change(i) \/ Remove(i) \/ Announce(i) \/ PeriodicRecheck(i) \/ DeleteForItems(i) \/ View(i)
  PROVE  Current'
  <1>1. CASE Change(i)
    <2>1. Announced(i)' /\ ShowsSource(i)'
      BY <1>1 DEF Change, Announced, ShowsSource
    <2>2. \A j \in Item : j # i => source'[j] = source[j]
      BY <1>1 DEF Change, Typed, TypeOK
    <2>3. ASSUME NEW j \in Item, j # i PROVE Announced(j)' /\ ShowsSource(j)'
      BY <1>1, <2>2, <2>3, CurrentFrame DEF Change, Current
    <2> QED
      BY <2>1, <2>3 DEF Current
  <1>2. CASE Remove(i)
    BY <1>2, CurrentFrame DEF Remove, Current
  <1>3. CASE Announce(i) \/ PeriodicRecheck(i) \/ View(i)
    <2>1. /\ Enqueued(i)
          /\ UNCHANGED <<exists, source, art, images, files, work, pruning, doomed>>
      BY <1>3, EnqueueForms
    <2> QED
      BY <2>1, CurrentPut
  <1>4. CASE DeleteForItems(i)
    <2>1. \A j \in Item : art'[j] = art[j] \/ ~art'[j].known
      BY <1>4 DEF DeleteForItems, Typed, TypeOK, Unresolved
    <2> QED
      BY <1>4, <2>1, CurrentFrame DEF DeleteForItems, Current
  <1> QED
    BY <1>1, <1>2, <1>3, <1>4

\* A step of the acquisition of i: the row stays, and so does what it says of
\* the other items.
LEMMA CurrentOneWorker ==
  ASSUME Typed, Current, NEW i \in Item, work[i].pc # "idle",
         UNCHANGED <<exists, source, queue, abandoned>>,
         dirty' = dirty \/ dirty' = dirty \cup {i},
         \A j \in Item : j # i => work'[j] = work[j] /\ art'[j] = art[j],
         work'[i].row = work[i].row,
         i \in exists /\ i \notin dirty' /\ Unchanged(i) /\ Faithful(i) => Faithful(i)'
  PROVE  Current'
  <1>1. ASSUME NEW j \in Item, j # i PROVE Announced(j)' /\ ShowsSource(j)'
    BY <1>1, CurrentFrame DEF Current
  <1>2. Announced(i)'
    BY DEF Current, Announced, Unchanged
  <1>3. ShowsSource(i)'
    BY DEF Current, Announced, ShowsSource
  <1> QED
    BY <1>1, <1>2, <1>3 DEF Current

LEMMA CurrentWork ==
  ASSUME Typed, Current, NEW i \in Item, WorkStep(i)
  PROVE  Current'
  <1>1. CASE Resolve(i)
    <2>1. /\ work[i].pc = "taken"
          /\ UNCHANGED <<exists, source, queue, abandoned, art>>
      BY <1>1 DEF Resolve
    <2>2. CASE Settle(i, "failed") /\ UNCHANGED <<dirty, events>>
      <3>1. /\ work'[i].pc = "settle" /\ work'[i].out = "failed" /\ work'[i].row = work[i].row
            /\ \A j \in Item : j # i => work'[j] = work[j]
        BY <2>1, <2>2, TypedGoto
      <3>2. Faithful(i)'
        BY <3>1 DEF Faithful
      <3> QED
        BY <2>1, <2>2, <3>1, <3>2, CurrentOneWorker
    <2>3. CASE Goto(i, "absent") /\ \/ source[i] = NoImage /\ UNCHANGED <<dirty, events>>
                                    \/ dirty' = dirty \cup {i}
      <3>1. /\ work'[i].pc = "absent" /\ work'[i].row = work[i].row
            /\ \A j \in Item : j # i => work'[j] = work[j]
        BY <2>1, <2>3, TypedGoto
      <3>2. i \notin dirty' => Faithful(i)'
        BY <2>1, <2>3, <3>1 DEF Faithful
      <3> QED
        BY <2>1, <2>3, <3>1, <3>2, CurrentOneWorker
    <2>4. ASSUME NEW f \in Finds[i], NEW out \in {"found", "stale"},
                 \/ (out = "stale" \/ f.hash = source[i]) /\ dirty' = dirty
                 \/ dirty' = dirty \cup {i},
                 work' = [work EXCEPT ![i].pc = "place", ![i].out = out,
                   ![i].state = [known |-> TRUE, hash |-> f.hash, stored |-> f.stored]]
          PROVE  Current'
      <3>1. /\ \A j \in Item : j # i => work'[j] = work[j]
            /\ work'[i].pc = "place" /\ work'[i].out = out /\ work'[i].row = work[i].row
            /\ work'[i].state = [known |-> TRUE, hash |-> f.hash, stored |-> f.stored]
        BY <2>1, <2>4, ResolvePlaces
      <3>2. i \notin dirty' => Faithful(i)'
        BY <2>1, <2>4, <3>1 DEF Faithful
      <3> QED
        BY <2>1, <2>4, <3>1, <3>2, CurrentOneWorker
    <2> QED
      BY <1>1, <2>2, <2>3, <2>4 DEF Resolve
  <1>2. ASSUME work[i].pc # "idle", Settle(i, "failed"), UNCHANGED art,
               UNCHANGED <<exists, source, queue, dirty, abandoned>>
        PROVE  Current'
    <2>1. /\ work'[i].pc = "settle" /\ work'[i].out = "failed" /\ work'[i].row = work[i].row
          /\ \A j \in Item : j # i => work'[j] = work[j]
      BY <1>2, TypedGoto
    <2>2. Faithful(i)'
      BY <2>1 DEF Faithful
    <2> QED
      BY <1>2, <2>1, <2>2, CurrentOneWorker
  <1>3. CASE WriteAbsent(i)
    <2>1. CASE art' = [art EXCEPT ![i] = Absent] /\ Settle(i, "absent")
      <3>1. /\ work[i].pc = "absent" /\ UNCHANGED <<exists, source, queue, dirty, abandoned>>
        BY <1>3 DEF WriteAbsent
      <3>2. /\ work'[i].pc = "settle" /\ work'[i].out = "absent" /\ work'[i].row = work[i].row
            /\ \A j \in Item : j # i => work'[j] = work[j]
        BY <2>1, <3>1, TypedGoto
      <3>3. art'[i].hash = NoImage /\ \A j \in Item : j # i => art'[j] = art[j]
        BY <2>1 DEF Typed, TypeOK, Absent
      <3>4. Faithful(i) => Faithful(i)'
        BY <3>1, <3>2, <3>3 DEF Faithful
      <3> QED
        BY <3>1, <3>2, <3>3, <3>4, CurrentOneWorker
    <2> QED
      BY <1>2, <1>3, <2>1 DEF WriteAbsent, OrFail
  <1>4. CASE PlaceBytes(i) \/ PutImage(i)
    <2>1. /\ work[i].pc \in {"place", "image"}
          /\ UNCHANGED <<exists, source, queue, dirty, abandoned>>
      BY <1>4 DEF PlaceBytes, PutImage
    <2>2. CASE (Goto(i, "image") \/ Goto(i, "item")) /\ UNCHANGED art
      <3>1. /\ work'[i].pc \in {"image", "item"} /\ work'[i].row = work[i].row
            /\ work'[i].state = work[i].state /\ work'[i].out = work[i].out
            /\ \A j \in Item : j # i => work'[j] = work[j]
        BY <2>1, <2>2, TypedGoto
      <3>2. Faithful(i) => Faithful(i)'
        BY <2>1, <3>1 DEF Faithful
      <3> QED
        BY <2>1, <2>2, <3>1, <3>2, CurrentOneWorker
    <2> QED
      BY <1>2, <1>4, <2>1, <2>2 DEF PlaceBytes, PutImage, OrFail
  <1>5. CASE PutItemArtwork(i)
    <2>1. CASE art' = [art EXCEPT ![i] = work[i].state] /\ Settle(i, work[i].out)
      <3>0. work[i].out \in {"found", "stale", "absent", "failed"}
        BY <1>5, BusyWork DEF PutItemArtwork, Typed, BusyState
      <3>1. /\ work[i].pc = "item" /\ UNCHANGED <<exists, source, queue, dirty, abandoned>>
        BY <1>5 DEF PutItemArtwork
      <3>2. /\ work'[i].pc = "settle" /\ work'[i].out = work[i].out /\ work'[i].row = work[i].row
            /\ \A j \in Item : j # i => work'[j] = work[j]
        BY <2>1, <3>0, <3>1, TypedGoto
      <3>3. art'[i] = work[i].state /\ \A j \in Item : j # i => art'[j] = art[j]
        BY <2>1 DEF Typed, TypeOK
      <3>4. Faithful(i) => Faithful(i)'
        BY <3>1, <3>2, <3>3 DEF Faithful
      <3> QED
        BY <3>1, <3>2, <3>3, <3>4, CurrentOneWorker
    <2> QED
      BY <1>2, <1>5, <2>1 DEF PutItemArtwork, OrFail
  <1>6. CASE Process(i)
    <2>1. /\ work[i].pc = "settle" /\ work[i] \in BusyState /\ work[i].row \in Row
          /\ UNCHANGED <<exists, source, dirty>>
      BY <1>6, BusyWork DEF Process, Typed
    <2>2. /\ work'[i] = Idle /\ \A j \in Item : j # i => work'[j] = work[j]
          /\ \A j \in Item : j # i => art'[j] = art[j]
      BY <1>6 DEF Process, GiveUp, Typed, TypeOK
    <2>3. Announced(i)'
      BY <2>2 DEF Announced, Idle
    <2>4. CASE UNCHANGED <<queue, abandoned>>
      <3>1. ShowsSource(i)'
        BY <2>1, <2>4 DEF Current, Announced, ShowsSource
      <3>2. ASSUME NEW j \in Item, j # i PROVE Announced(j)' /\ ShowsSource(j)'
        BY <2>1, <2>2, <2>4, <3>2, CurrentFrame DEF Current
      <3> QED
        BY <2>3, <3>1, <3>2 DEF Current
    <2>5. CASE /\ IF work[i].out \in {"found", "absent"} \/ Exhausted(i)
                  THEN DeleteIfUnchanged(i) ELSE MarkFailedIfUnchanged(i)
               /\ abandoned' = IF Exhausted(i) /\ Unchanged(i)
                               THEN abandoned \cup {i} ELSE abandoned
      <3>1. CASE work[i].out \in {"found", "absent"} \/ Exhausted(i)
        <4>1. /\ \A j \in Item : j # i => queue'[j] = queue[j]
              /\ ~Unchanged(i) => queue' = queue
          BY <2>5, <3>1, DeleteTyped DEF DeleteIfUnchanged
        <4>2. ASSUME NEW j \in Item, j # i PROVE Announced(j)' /\ ShowsSource(j)'
          BY <2>1, <2>2, <2>5, <4>1, <4>2, CurrentFrame DEF Current
        <4>3. ASSUME ~Unchanged(i) PROVE ShowsSource(i)'
          BY <2>1, <4>1, <4>3 DEF Current, Announced, ShowsSource
        <4>4. ASSUME Unchanged(i), Exhausted(i) PROVE ShowsSource(i)'
          <5>1. i \in abandoned'
            BY <2>5, <4>4
          <5> QED
            BY <5>1 DEF ShowsSource
        <4>5. ASSUME Unchanged(i), ~Exhausted(i) PROVE ShowsSource(i)'
          <5>1. art' = art /\ abandoned' = abandoned /\ work[i].out \in {"found", "absent"}
            BY <1>6, <2>5, <3>1, <4>5 DEF Process
          <5> QED
            BY <2>1, <4>5, <5>1 DEF Current, Announced, ShowsSource, Faithful
        <4> QED
          BY <2>3, <4>2, <4>3, <4>4, <4>5 DEF Current
      <3>2. CASE work[i].out \notin {"found", "absent"} /\ ~Exhausted(i)
        <4>1. /\ \A j \in Item : j # i => queue'[j] = queue[j]
              /\ queue'[i].queued = queue[i].queued
          BY <2>5, <3>2, MarkFailedTyped
        <4>2. ASSUME NEW j \in Item, j # i PROVE Announced(j)' /\ ShowsSource(j)'
          BY <2>1, <2>2, <2>5, <3>2, <4>1, <4>2, CurrentFrame DEF Current
        <4>3. ShowsSource(i)'
          BY <2>1, <4>1 DEF Current, Announced, ShowsSource
        <4> QED
          BY <2>3, <4>2, <4>3 DEF Current
      <3> QED
        BY <3>1, <3>2
    <2> QED
      BY <1>6, <2>4, <2>5 DEF Process
  <1> QED
    BY <1>1, <1>3, <1>4, <1>5, <1>6 DEF WorkStep

LEMMA CurrentStep == Typed /\ Current /\ [Next]_vars => Current'
  <1> SUFFICES ASSUME Typed, Current, [Next]_vars PROVE Current'
    OBVIOUS
  <1>1. ASSUME NEW i \in Item, Elapse(i) PROVE Current'
    <2>1. queue[i] \in Row /\ ~queue[i].due
      BY <1>1, Constants DEF Elapse, Typed, TypeOK
    <2>2. /\ \A j \in Item : j # i => queue'[j] = queue[j]
          /\ queue'[i].at = queue[i].at /\ queue'[i].queued = queue[i].queued
      BY <1>1, <2>1 DEF Elapse, Typed, TypeOK, Row
    <2>3. ASSUME NEW j \in Item, j # i PROVE Announced(j)' /\ ShowsSource(j)'
      BY <1>1, <2>2, <2>3, CurrentFrame DEF Elapse, Current
    <2>4. Announced(i)' /\ ShowsSource(i)'
      BY <1>1, <2>2 DEF Elapse, Current, Announced, ShowsSource, Faithful, Unchanged
    <2> QED
      BY <2>3, <2>4 DEF Current
  <1>2. ASSUME NEW p \in Pools, Drain(p) PROVE Current'
    <2>1. UNCHANGED <<exists, source, queue, art, dirty, abandoned>>
      BY <1>2 DEF Drain
    <2>2. ASSUME NEW i \in Item PROVE Announced(i)' /\ ShowsSource(i)'
      <3>1. CASE work'[i] = work[i]
        BY <2>1, <3>1, CurrentFrame DEF Current
      <3>2. CASE work'[i] # work[i]
        <4>1. work'[i].pc = "taken" /\ queue[i].queued
          BY <1>2, <3>2 DEF Drain
        <4> QED
          BY <2>1, <4>1 DEF Current, Announced, ShowsSource, Faithful
      <3> QED
        BY <3>1, <3>2
    <2> QED
      BY <2>2 DEF Current
  <1>3. CASE RunPrune \/ PruneFails \/ PurgeOrphans \/ Sweep \/ RemoveFiles
    <2>1. UNCHANGED <<exists, source, queue, art, work, dirty, abandoned>>
      BY <1>3 DEF RunPrune, PruneFails, PurgeOrphans, Sweep, RemoveFiles
    <2> QED
      BY <2>1, CurrentFrame DEF Current
  <1>4. CASE PurgeDanglingItems
    <2>1. \A j \in Item : art'[j] = art[j] \/ ~art'[j].known
      BY <1>4 DEF PurgeDanglingItems, Unresolved
    <2> QED
      BY <1>4, <2>1, CurrentFrame DEF PurgeDanglingItems, Current
  <1>5. CASE PurgeDangling
    <2>1. UNCHANGED <<exists, source, art, work, dirty, abandoned>>
      BY <1>5 DEF PurgeDangling
    <2>2. ASSUME NEW i \in Item PROVE Announced(i)' /\ ShowsSource(i)'
      <3>1. CASE i \in exists
        <4>1. queue'[i] = queue[i]
          BY <1>5, <3>1 DEF PurgeDangling
        <4> QED
          BY <2>1, <4>1, CurrentFrame DEF Current
      <3>2. CASE i \notin exists
        BY <2>1, <3>2 DEF Announced, ShowsSource
      <3> QED
        BY <3>1, <3>2
    <2> QED
      BY <2>2 DEF Current
  <1>6. CASE Crash
    <2>1. ASSUME NEW i \in Item PROVE Announced(i)' /\ ShowsSource(i)'
      BY <1>6 DEF Crash, Current, Announced, ShowsSource, Idle
    <2> QED
      BY <2>1 DEF Current
  <1>7. ASSUME NEW i \in Item, Spend(i) PROVE Current'
    <2>1. /\ work[i] \in BusyState /\ UNCHANGED <<exists, source, art, dirty, abandoned>>
          /\ Unchanged(i) => queue[i] \in Row
      BY <1>7, BusyWork, Constants DEF Spend, Unchanged, Typed, TypeOK
    <2>2. /\ \A j \in Item : j # i => queue'[j] = queue[j] /\ work'[j] = work[j]
          /\ queue'[i].at = queue[i].at /\ queue'[i].queued = queue[i].queued
          /\ work'[i].pc = work[i].pc /\ work'[i].out = work[i].out
          /\ work'[i].row.at = work[i].row.at /\ work'[i].state = work[i].state
      BY <1>7, <2>1 DEF Spend, Typed, TypeOK, BusyState, Row
    <2>3. ASSUME NEW j \in Item, j # i PROVE Announced(j)' /\ ShowsSource(j)'
      BY <2>1, <2>2, <2>3, CurrentFrame DEF Current
    <2>4. Announced(i)' /\ ShowsSource(i)'
      BY <2>1, <2>2 DEF Current, Announced, ShowsSource, Faithful, Unchanged
    <2> QED
      BY <2>3, <2>4 DEF Current
  <1>8. CASE UNCHANGED vars
    BY <1>8, CurrentFrame DEF vars, Current
  <1> QED
    BY <1>1, <1>2, <1>3, <1>4, <1>5, <1>6, <1>7, <1>8, CurrentOutside, CurrentWork DEF Next, PruneStep

\* An item with a state row and no queue row shows what a resolution finds now,
\* unless its source changed unannounced or was misread, a search replaced it,
\* or its retries ran out: a worker that read the old image never deletes the
\* row that announced the new one.
THEOREM SettledCurrent == Spec => []SettledIsCurrent
  <1>1. Typed /\ Current => SettledIsCurrent
    BY DEF Typed, TypeOK, Current, ShowsSource, SettledIsCurrent
  <1> QED
    BY <1>1, TypedInit, TypedStep, CurrentInit, CurrentStep, PTL DEF Spec
=============================================================================
