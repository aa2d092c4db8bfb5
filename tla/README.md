# Navidrome: models, checks and proofs

This directory is a formal-methods companion of the Navidrome sources in `src/`. It holds TLA+
modules that model the parts of the server where concurrency, persistence and failure meet, TLC
configurations that check them on small instances, and TLAPS proofs of every safety property and
refinement for every instance. `PROJECT.json` has the machine-readable index: the runs, for every definition
the source lines it stands for, the hazards, the findings and the theorems.

## 1. The system

Navidrome is one Go process around one SQLite database and directories of music files.

| Component | State it keeps | Operations | Works with |
|---|---|---|---|
| Library scan (`scanner/scanner.go`, phases 1-4) | library rows (`last_scan_started_at`, `last_scan_at`, `full_scan_in_progress`), folder rows with hashes, tracks, albums | `scanFolders`: prepare, phases, maintenance, `ScanEnd` | called by the controller; reads the file system; feeds the artwork queue |
| Scan controller (`scanner/controller.go`) | `running` flag, `scanMaintenanceMux` | `ScanAll`, `ScanFolders`, `LockForMaintenance`, `Status` | called by APIs, scheduler, start-up, watcher, music downloads |
| Watcher (`scanner/watcher.go`, `core/storage/local/watcher.go`) | batch of targets, trigger timer, event channels | debounce loop | operating system events; calls the controller |
| Plugin task queue (`plugins/host_taskqueue.go`) | SQLite `tasks` table per plugin; in memory queues, workers, signals, timers | `CreateQueue`, `Enqueue`, `Cancel`, `ClearQueue`, workers, cleanup, `Close` | called by plugins; calls plugins back; opened and closed by the plugin manager |
| Plugin manager (`plugins/manager*.go`) | map of loaded plugins under `manager.mu` | load, unload, stop, enable, update | owns the host services |
| Music downloads (`core/music/service.go`) | `music_download_job` table, one wake-up channel, two workers | create, promote, read and resolve, claim, process, requeue at start | yt-dlp and beets; asks for scans; used by the API and the radio |
| Personal radio (`core/personalradio`) | tables of sessions, items, discoveries and feedback events; in memory the sessions being planned | create, refill, plan, feedback, delete, clean up | submits downloads, deletes files, asks for scans |
| Scrobbling (`core/scrobbler`) | `scrobble_buffer` table, scrobblers of plugins, now-playing cache | report, buffer, drain with backoff, refresh | external services and plugins |
| Artwork queue (`core/artwork`) | `artwork_queue`, `item_artwork` and `artwork` tables, image store, per-agent breakers | enqueue, drain pools, acquire, give up, prune | fed by the scan, by requests and by periodic jobs |
| SSE broker (`server/events`) | connected clients, bounded channels | subscribe, publish, drop | everything that changes data |
| Streaming limits, throttle, jukebox, caches | tokens, play queue, cache entries | acquire and release, skip and switch, load once | request handlers |
| Data-only parts (quick picks, ranking, matching, playlists, agents, APIs, UI) | little of their own | scoring, parsing, translation | |

The hard behaviours are these. Jobs survive crashes in a table while the goroutines that work on
them do not. A scan takes minutes, is made of many transactions, can be cut short anywhere and is
resumed by a scan of another kind, while the files change underneath. Several parties ask for scans
at once. Wake-ups are non-blocking sends that merge. Shutdown cancels, waits with a timeout and
then goes on regardless. Whole rows are written back from copies taken earlier. Files are checked,
removed and recorded in separate steps. The list under `hazards` in `PROJECT.json` has each one at its line.

What makes each component correct:

* task queue: no task is executed by two workers, none is stuck or forgotten, retries are bounded,
  the worker budget holds, and the table never shows a task leaving a final state;
* scan: what a later scan skips has been imported, what was saved half-finished is completed, a
  full scan covers everything, and the database catches up with the files;
* scan control: one scan at a time, never together with maintenance; a change that was noticed is
  scanned;
* downloads: one worker per job, one job per play request, no lost promotion, every job settles;
* radio: the queue is filled to its watermark and not beyond, every download is shown to end, a
  discovery is kept only for a reason and deleted only while nobody wants it;
* scrobbles: at least once, in order, and no user starves another;
* artwork: what is shown is what the last announced change made of it, what is referred to is kept,
  and retries end.

## 2. Modules

| Module | Models | Role |
|---|---|---|
| `TaskQueue` | `host_taskqueue.go`, load/unload/stop of `manager*.go` | detailed specification |
| `JobLifecycle` | what a persistent job queue promises | abstract specification, implemented by `TaskQueue` |
| `LibraryScan` | `scanner.go`, phases 1 and 3, library and folder rows, start-up scan | detailed specification |
| `ScanControl` | `controller.go`, `watcher.go`, the maintenance job | detailed specification |
| `MusicDownload` | `core/music/service.go`, its repository, the way yt-dlp and beets report errors | detailed specification, implements `JobLifecycle` too |
| `RadioSession` | `Create`, `Refill` and the planner of `core/personalradio/service.go` | detailed specification |
| `RadioDiscovery` | feedback, deletion and cleanup of discoveries | detailed specification |
| `Scrobbling` | `buffered_scrobbler.go`, the scrobblers of `play_tracker.go`, plugin load and unload | detailed specification |
| `ArtworkQueue` | `core/artwork` worker, processor, prune, store, housekeeping and their repositories | detailed specification |
| `MC*` | small instances for TLC | |
| `TaskQueueProofs`, `ScanControlProofs`, `LibraryScanProofs`, `MusicDownloadProofs`, `RadioSessionProofs`, `RadioDiscoveryProofs`, `ScrobblingProofs`, `ArtworkQueueProofs` | | theorems about the module each extends |

The modules lean on each other by what they assume and show. `LibraryScan` assumes one scan at a
time, which `ScanControl` shows; `ScanControl` has the work of a scan on a folder as one step, whose
details `LibraryScan` has. `RadioSession` assumes that download jobs end, which `MusicDownload` shows
(`EveryJobSettles`). `RadioDiscovery` takes over where `RadioSession` records a discovery. The task
queue and the download jobs are shown to implement the same abstract `JobLifecycle`.

### TaskQueue

`row` is the tasks table; everything else is memory of one *life* of the service, from
`newTaskQueueService` to `db.Close` or a crash. A worker goroutine is a record with a program
counter: `select` and `drain` are the loop of `worker`/`drainQueue`; `wait`, `lookup`, `call` and
`returned` are the places inside `processTask` where other goroutines or a shutdown can get in
between (the limiter, the plugin lookup under `manager.mu`, the callback, the settling statement).
SQL statements are atomic; each can fail (`DequeueFault`, `SettleFault`) or be cut off by the
cancelled context after it has committed (`DequeueCut`, `SettleCut`). `signal` is the set of queues
whose capacity-1 channel is full. `timers` are the `time.AfterFunc`s that die with the process.
`svc` and `mgr` are the two halves of closing: the service's context, and the plugin's entry in
`manager.plugins` (with `stopping` for `Manager.Stop` holding the lock while it closes plugins).

`next_run_at` is reduced to due or not due, and a worker may take any due task of its queue; the
code's `ORDER BY` is one of these choices. `failures`, `executed`, `silent` and `lifeFaults` are
history variables: no guard of the code's actions reads them.

### LibraryScan

The contents of a folder are a version number and 0 stands for "does not exist"; every change makes
a version that was never there before, as it gives some file or the directory another modification
time or size. Timestamps are only ever compared, so the comparisons are the state: `fresh` are the
folders with `updated_at >= last_scan_started_at`, `touched` those whose album has
`imported_at > last_scan_at`. Phase 1 is a pipeline, so each folder has its own `stage`. The walk
takes the directory's time. `ProcessFolder` chooses the files later than their tracks
(`phase_1_folders.go:240`; a full scan takes all) and parses their tags; `StatFiles` takes the files'
times afterwards, as `core/storage/local/local.go:77-87` does, and those become the tracks'
`updated_at` (`stamp`). The hash is computed again when the folder is saved, from the walk's
directory time and the files' current sizes and times: `Hash` is a value no folder on disk ever has
(`Garbled`) when they differ. `Interrupt` is a phase that returns an error, a shutdown or a crash:
memory is lost, tables stay. `stale`, `unkept`, `owed`, `unread`, `overlooked` and `cut` are history
variables; only `overlooked` stands for something the code compares, the times of single files,
which a folder's version does not have.

Three exceptions appear in the properties, each kept as small as the code allows:

* `unread`: a folder saved although some or all of its tags could not be read (`ProcessFault`). The
  code warns and goes on, and quick scans do not try again. That such a folder's tracks whose files
  are gone are marked missing all the same is left out.
* `overlooked`: a folder with a file that is not later than its track, yet has other tags: it was
  replaced by an older file, or edited after `ReadTags` parsed it and before it took its time. Quick
  scans pass such a file over; a full scan mends it.
* `cut`: a library whose own scan was cut short when it needed maintenance and had no incomplete
  album. The next scan resumes it, but finds nothing to do, so it detects no changes and skips GC and
  statistics. A scan cut short while an album was incomplete is no exception: phase 3 of the next scan
  saves that album, which counts as a change.

### ScanControl

`lockScan` is two steps (compare-and-swap of `running`, then the mutex) and so is its release;
`LockForMaintenance` is a `TryLock` and a look at the flag. The watcher's loop reads the status,
empties its batch and starts a goroutine (`Fire`), which asks for the scan in a later step. Selective
watching, the default, is modelled. `dirty` says which folders have changed since a scan read them;
`missed`, `dropped` and `stalled` record the known ways to lose a change.

### MusicDownload

`row` is the table, `worker` the two goroutines `run(ctx, origin)`, each with its own copy of the job
it has claimed, and `handler` the API requests between two statements. A worker goes through
`lookup`, `download`, `import`, `scan` and `settle`, the places where it writes its row or leaves the
process; in each it may fail, or be interrupted when the server stops. `Killed` is what happens to an
external command whose context is cancelled: the adapters turn it into a plain error. `wake` is the
one channel of capacity one that both workers wait on, beside a timer (`PollElapses`). Song and album
jobs differ in their lookups only.

### RadioSession

`item` is the table of one session's items without the seed. `Refill` reads the session, may save it
(a change of mode), reads the items and follows the download of each one (`CheckItem`), writing whole
rows from its copy; then it may start a planner. The planner reads the items again, drafts library
and discovery items, creating a download job for each of the latter before any row exists, and
appends them in one transaction. Which candidates are chosen is left open. Feedback is accepted for
any row of the session, whatever its status.

### RadioDiscovery

One row of `discovery_track` per track, the outcome of each item, and the ledger of feedback events.
`Feedback` is one transaction; a repeated event id is ignored. The id is optional: an event without
one (`NoId`) is applied each time it arrives, and `bare` and `bareStarts` keep account of those. A
deletion is a goroutine that checks
whether the file is protected, removes it and waits for a scan, and writes the row from its copy:
three steps that keeping, starring and downloading again can get between. `raced` records the
deletions that were past the check when that happened.

### Scrobbling

Rows of one service's buffer, in the order of insertion. Each loading of the plugin gets a scrobbler
of its own (`run`), and an old one that was stopped finishes the call it is in: two of them may work
on the same rows. `Unload` closes the instance a call is using (`inst`), and such a call may end in
the unrecoverable error that makes the scrobbler drop the row: those rows are in `severed`, apart
from the ones the plugin has refused. A report is three steps (the scrobblers of the moment, the row, the wake-up).

### ArtworkQueue

An item is an entity's primary image. `source` is what a complete resolution finds now, `Finds` what
it may ever find and whether the bytes are copied to the store. A worker holds the row it has
dequeued, with its priority; times are reduced to what the code compares (see the module's header).
In particular the retry budget is the clock's: a row is `spent` when its next retry would fall past
`enqueued_at + giveUpAfter` (`worker.go:249`), which `Spend` lets happen between a failure and its
settling, where the code looks at the clock. Views and rechecks of a row that is queued are free, so
they may come any number of times. An acquisition is resolve, place bytes, write the image row, write
the state row, settle the queue row; each may fail. `RunPrune` takes the write lock and goes through
its five statements one by one; whether an hour has passed for a file or an image row is its choice.

What the resolver may return beside the source is part of `Resolve`: an image of a source that comes
after one that failed (`stale`, retried); such an image as if it were the source, where the one that
failed is local, without a retry; no image, where a playlist's tiles or ffmpeg fail
(`resolve.go:293-323`, `397-411`); and, for an album's row of the backfill, the image of a search on
YouTube (`resolve.go:149`). An item settled wrongly in one of these ways is in `dirty` until a fresh
row announces it again.

## 3. Runs

| Run | Instance | Result |
|---|---|---|
| `taskqueue` | 2 queues (one rate-limited), 2 tasks, budget 2, requests 0 and 3, 1 retry, 2 lives, 1 fault | pass: `TypeOK`, `ExclusiveExecution`, `NoOrphans`, `RetryBudget`, `ConcurrencyBudget`, `NoLostWakeup` |
| `taskqueue_live` | 1 queue, 2 workers, 2 tasks, 2 lives, 1 fault, fair | pass: `EveryTaskSettles`, `LifecycleRefined` |
| `taskqueue_unload` | 1 queue | finding 1 |
| `libraryscan` | 1 library, 2 folders, quick/full/selective requests, 2 changes, 2 interruptions, 1 fault | pass: `SkippedIsImported`, `IncompleteAlbumsTouched`, `ResumeIsSound`, `MarkedFullScanCovers` |
| `libraryscan_live` | 2 libraries with a folder each, quick and selective requests and the full scan after a migration, 1 change, 2 interruptions, 1 fault, fair | pass: `UnkeptOnlyByInterruption`, `DatabaseCatchesUp` |
| `scancontrol` | 1 caller, 2 watcher goroutines, 2 maintenance runs, 2 folders, 2 changes, inbox of 1, 1 fault, fair | pass: `OneScanAtATime`, `MaintenanceExcludesScan`, `BatchHasTrigger`, `ChangeAccountedFor`, `NoMaintenanceAhead`, `FlagIsReleased`, `ChangeHandled` |
| `musicdownload` | 1 user, a song and an album, 3 kinds of request, 2 handlers, 2 jobs, 2 lives, 1 fault, fair | pass: `ExclusiveClaim`, `OnePlayJob`, `PriorityKept`, `DownloadLifecycle`, `EveryJobSettles` |
| `musicdownload_interrupt` | the same without faults | finding 2 |
| `radiosession` | 2 handlers, 2 planners, watermark 1, 2 items, 2 mishaps, fair | pass: `AppendNeverCollides`, `DownloadBudget`, `DiscoveryRecorded`, `EveryDownloadShown` |
| `radiodiscovery` | 1 track played as 2 items, 5 feedback events of which one without an id that may arrive twice, 2 deleters, 2 downloads, 1 fault, 1 crash, fair | pass: `KeptIsEarned`, `KeptSurvives`, `DoomedIsSettled` |
| `scrobbling` | 2 users, one blocked, 2 rows, 2 scrobblers, 1 mishap, fair | pass: `NoScrobbleLost`, `RepeatedOnlyByMishap`, `SentInOrder`, `UserServed` |
| `artwork` | an album and a track in one pool of 1 slot, 2 images, 2 outside events, fair | pass: `SettledIsCurrent`, `ReferencedIsKept`, `EveryRowSettles` |

Why the bounds are enough to be interesting:

* two workers on one queue and two tasks are needed for a worker to find a row another one has
  touched; two queues for the shared budget; two lives for everything a crash or shutdown leaves
  behind; one fault in each place for the lost writes;
* two interruptions give *quick scan, interrupted; full scan that resumes it, interrupted; third
  scan*, the shortest history in which marks and stamps of different scans mix; two changes allow a
  folder to change between walk and parse, parse and stat, or stat and save, twice in a row;
* two libraries let one fail to start, lose its root or be cut short while the other's scan goes on
  or maintains it alone; two interruptions let the scan that resumes the first be cut short too;
* two handlers and two jobs are what `FindOrCreatePlay` has to serialise, and a GET can write the row
  the worker is writing;
* two Refills with a planner each, and room for two items with a watermark of one, are the smallest
  queue that can be overfilled;
* five feedback events give an early and a late skip, a second play and an explicit keep, in any
  order and repeated at will, the start without an id counting twice (`MaxBare`); two deleters meet on
  one row;
* two scrobblers are one that was stopped and its successor; two rows of one user have an order;
* two outside events are a change and its announcement, or an announcement and a prune, during an
  acquisition, or a fault of the resolver and a change; the images are shared by two items, one copied
  to the store and one not. With one slot the writes of two acquisitions do not interleave with each
  other; they meet only in images both refer to, and the proofs are for any number of slots;
* two watcher goroutines can hold batches at the same time, and two changes overflow an inbox of
  one.

Tasks are a symmetry set in `taskqueue`, and folders in `libraryscan`, whose requests select either; no run that checks liveness uses symmetry. The deadlock check
is off in `radiodiscovery`, `scrobbling` and `artwork`: these systems really come to rest, with every
event used up, nothing doomed, no row buffered or every goroutine asleep, and a wake-up or a view
from outside would be the next step. In the other runs a caller, a poll or a scan can always go on.

Every property of a passing run has a mutant, a plausible bug of the code (a dropped guard, a
missing reset, a swapped order), under which TLC reports that property violated. They are defined
next to the operator they replace and are listed in `PROJECT.json`.

### Fairness

* `TaskQueue`: the Go scheduler runs every worker, plugin calls return, timers fire, and a closed
  service is loaded again by a plugin that creates its queues, as plugins do in their init function.
  Nothing forces the plugin to enqueue or cancel, nor the service to fail or close. A task may end
  `running` only if a settling statement failed in this life.
* `LibraryScan`: a scan goes on unless interrupted, and the scheduler asks for quick scans for ever
  (the periodic scan is configured by default); strong fairness of the request says that it does not
  find another scan running every single time.
* `ScanControl`: goroutines run and scans and maintenance end. `sync.Mutex` hands a contended lock
  to a waiter after a millisecond, so `Lock` is strongly fair. Strong fairness of `Fire` assumes
  that callers leave gaps: if the trigger always fired during somebody's scan, the batch would be
  postponed for ever.
* `MusicDownload`: workers run, external commands end, and a process that was told to stop is started
  again. Nobody is forced to ask for anything, and nothing forces the wake-up: the timer of `waitFor`
  is enough.
* `RadioSession`: a client polls while an item is downloading, as the web player does, and jobs end.
  Planners need not be fair for the property checked.
* `RadioDiscovery`: the hourly ticker and the goroutines that delete. Feedback is never forced.
* `Scrobbling`: the senders run, and a request that has stored a row goes on to send the wake-up.
  Playback reports, which refresh the scrobblers, are not forced; hence the exceptions of `UserServed`.
* `ArtworkQueue`: workers, pools and the prune run, and a backoff ends. Strong fairness of `Spend` says
  that the clock goes on: a row that fails over and over has a failure after its twelve hours. Views,
  rechecks and announcements are not forced, nor are they kept from happening.

## 4. Findings

Each is a `violation` run: the property states what a comment or the documentation says.

1. `FailedOnlyAfterExecution` (`manager.go:521`): "When a task is ready to execute, the host calls the
   plugin's nd_task_execute callback function" (`plugins/host/task.go:42`), but a task dequeued while
   its plugin is being unloaded is counted as a failed attempt, and with no retries left it fails for
   good, without the callback. A stop of the server is not affected: it cancels the workers first.
2. `InterruptedJobRetried` (`core/music/service.go:396`): a download whose external command is killed
   by a shutdown is marked failed, since the adapters do not wrap the context's error.

### Observations without a run

These came up while modelling. They follow from the code as modelled and are the reason for the
exceptions stated in some properties.

* Task queue: `Close`, after `shutdownTimeout`, resets the rows of running callbacks without giving
  their attempt back (`host_taskqueue.go:584`), although line 492 says that an interrupted attempt
  does not count. Up to `db.Close` a worker so abandoned could still start one statement, the revert
  of its row to pending, which finds no running row any more; `CloseFinish` therefore ends the workers
  at once.
* Scan: a file edited between the parsing of its tags and the taking of its time, or replaced by one
  with an earlier time, is passed over by every quick scan, and its folder is then skipped by its
  hash (`overlooked`); a full scan that resumes an interrupted quick scan skips the folders that scan has saved
  (`scanner.go:218`), and leaves no mark when it is interrupted in turn; a selective scan clears the
  mark of an interrupted full scan (`scanner.go:334`); a quick request promoted to a full scan does
  not set `changesDetected`, nor does any scan that resumes one cut short between phase 3 and
  maintenance, so these may end without GC and statistics (`cut`); the flag of a full scan required by a migration is deleted before the scan has
  begun (`cmd/root.go:212`).
* Watcher: it empties its batch before its scan is accepted (`watcher.go:100`); the variable
  `dropped` of `ScanControl` is about that.
* Music: a catalog lookup shared with another caller who cancels requeues the job without a limit; a
  running job's priority is not raised; a worker goes on claiming after the context is cancelled
  until a call notices.
* Radio: a Refill that changes the mode can make an ended session active again (`UpdateSession`
  writes its copy); an item whose `UpsertDiscovery` failed is ready, but its feedback is refused and
  its file never expires; a download job is created before its item, so a planner that dies leaves a
  download nobody waits for.
* Discoveries: a track starred or kept between the check and the removal loses its file; one that is
  downloaded again while its deletion waits for the scan is marked deleted; a deleter's copy can
  lower `play_starts`; a start reported without an event id is counted every time it arrives, which
  `persistence/personal_radio_feedback_test.go:130-135` pins, so a client that repeats its request can
  keep a track by one play.
* Scrobbles: a wake-up given to a scrobbler that is being replaced strands its row until the next
  scrobble; a plugin unloaded in the middle of a call answers with an unrecoverable error
  (`plugins/scrobbler_adapter.go:172-187`) and the scrobble is discarded (`severed`), while
  `plugins/README.md:1305` says of a reload that existing requests complete first; a row stored after the rows of
  a removed plugin were discarded stays.
* Artwork: `Refresh` is two statements, and a crash in between leaves the item unresolved until it is
  viewed or rechecked; a full scan asks only for items without a state row; a fault of a playlist's
  tiles or of ffmpeg is recorded as absent, against `resolve.go:30` ("a transient I/O fault never
  records absent"); the image a backfill found by a search is replaced by what the other sources have
  once the album is queued for any other reason; a row of a deleted entity is given up like any other,
  and it is the recheck of its absent state that queues it again until the prune (`prune.go:27`).

## 5. Proofs

All proofs are for arbitrary constants that satisfy the named assumptions of the modules: the
sets of requests, events and finds are of the right type, the sets of goroutines are disjoint, the
bounds on changes, faults and lives are natural numbers, the concurrency of a manifest and the
watermark of the radio are positive, and queues and libraries are finite sets (`QueueAssumption`,
`LibraryAssumption`: both are rows of a table). TLC evaluates the assumptions in
every run. Every safety property of every passing run is stated by a theorem: what TLC shows on a
small instance holds for any number of workers, callers, rows, users, libraries and faults.

Each module begins with the inductive invariant, then shows that `Init` implies it and that each
action keeps it, one lemma or case per action, and ends with `BY ..., PTL DEF Spec`. The invariants
matter more than the steps, since they say why the code is right:

`TaskQueueProofs`

* `TypeCorrect`: `TypeOK`. The interesting part is that `Clamped` stays within the budget
  (`ClampedRange`), from the finiteness of the worker set.
* `ExclusiveExecutionHolds`: inductive together with `TypeOK` and `LifeStructure` (a life begins
  without queues, and only goroutines of a registered queue are alive): without it, `CreateQueue`
  could reset the row of a worker that is still at work. The key fact is that a row held by a worker
  is running, so no other dequeue, cancel or cleanup selects it.
* `WorkersWithinBudget`: `ConcurrencyBudget` from `Budgeted`, a bound on the set of all workers
  spawned, by adding up the sets of `CreateQueue`; `clampConcurrency` is what makes the sum fit.
* `NoTaskOrphaned`: `NoOrphans` needs exclusiveness, since a row that one worker settles must not be
  in the hands of another.
* `NoWakeupLost`: a task that becomes due is announced by a signal or by a worker that is awake
  (`Announced`). A worker falls asleep only after a dequeue that found nothing due, so a token
  dropped because the channel was full is never missed.
* `RetriesBounded`: `RetryBudget` from `Counted`, which relates the failures of a row to its attempt
  number in every place the attempt may be counted or given back.
* `LifecycleImplemented`: `TaskQueue` implements `JobLifecycle`. `Moves` says what a step may do to
  the statuses of the table, and each move is a step or a stutter of the abstract specification.

`ScanControlProofs`

* `ControlTyped`: `TypeOK`, including the bound of the event queue.
* `OneScanHolds`: `OneScanAtATime` is inductive with the types: a goroutine enters the flagged
  section only by `Win` and leaves it only by `Lower`.
* `MaintenanceExcluded`: by the strengthening `MuxHeld` (whoever is between its lock and its unlock
  is the holder of the mutex).
* `MaintenanceGivesWay`: an action property, from `OneScanHolds`: a goroutine that waits for the
  mutex has the flag up, and `CheckRunning` then yields.
* `BatchKeepsTrigger`: `BatchHasTrigger`, inductive as it stands.
* `ChangesAccountedFor`: needs `RestEmpty`, that a goroutine slot is reused only when it has nothing
  left to scan; otherwise `Fire` would overwrite a batch.

`LibraryScanProofs`

* `ScanTyped`: `TypeOK` and `Staged` (the pipeline holds folders of the scan's libraries, in phase 1).
* `SkippedImported`: needs `Dated`: versions are never reused; a folder parsed, or its files' times
  taken, while the disk still has the version the walk saw has that version; and tags and times of the
  saved tracks are of one version but for the exceptions. That is why the hash is taken from the
  walk's time, and why a quick scan that imports nothing may save the current hash.
* `AlbumsNotForgotten`: `IncompleteAlbumsTouched` needs `Completed` (after phase 3 no album of the
  scan's libraries is incomplete), as `ScanEnd` moves `last_scan_at` past every album.
* `ResumeSkipsImported`: `ResumeIsSound` needs `Marked`: a quick scan has no library that bears the
  mark of a full scan, so what a scan saves in a marked library was imported by a full one.
* `MarkedCovered`: the action property `MarkedFullScanCovers`, from `Covered`: in an undisturbed scan
  of everything each folder is in the pipeline, and what has left it was imported.
* `MaintenanceOwed`: `UnkeptOnlyByInterruption`, from `Tended` and `Completed`: a library that needs
  maintenance and is not in `cut` is remembered, by the running scan's `changes` or by an incomplete
  album of its own that the scan, or the one that resumes it, will save. The argument is per library:
  what befalls another library's scan is no excuse.

`MusicDownloadProofs`

* `DownloadsTyped`: `TypeOK`.
* `RowsOwned`: the invariant `Owned` the others rest on. A worker's copy of its job is the row
  (a promotion passes over running jobs), a GET's copy is of a row that has succeeded and differs
  from it in the file only, and rows not created yet are blank.
* `ClaimsExclusive`: `ExclusiveClaim`; the two workers' jobs are of different origins.
* `PrioritiesKept`, `OnePlayJobEver` and `LifecycleImplemented` (`DownloadLifecycle`): from `TableStep`,
  which says once what any step may do to the table: rewrite a row without changing its status,
  insert one, move one, or requeue the running ones.

`RadioSessionProofs`

* `SessionTyped`: `Typed` and `Positions` together. A position is a natural number only because the
  table always has a first free one behind its rows, so types and positions need each other. `OnePlan`
  (the flag in memory admits one planner), `Fresh` (an id belongs to one row) and `Copied` (a
  request's copy differs from the row in its status only) are the rest.
* `AppendsNeverCollide`: a consequence: the draft of the one planner is behind the table, and nobody
  else appends.
* `DiscoveriesRecorded`: with `DraftedDownload`, every discovery is drafted as a download, so it gets
  ready only in `CheckItem`, on the way to `UpsertDiscovery`.
* `DownloadsWithinBudget`: `Budget` counts the slots a planner still has open as taken; the table's
  downloads, the draft's and the open slots stay within the watermark.

`RadioDiscoveryProofs`

* `DiscoveryTyped`: `TypeOK`.
* `KeptFilesSurvive`: the action property `KeptSurvives`, from `RaceNoted`: a deletion past its check
  of a track that is protected passed the check before.
* `KeptTracksEarned`: `KeptIsEarned` with `Counted` (no row, and no copy of a row, counts more starts
  than were reported: those of the ledger and those without an id) and `Reported` (what an item's outcome says was reported).

`ScrobblingProofs`

* `ScrobblingTyped`: `TypeOK`, and whoever works on a row has one.
* `NothingLost`: `NoScrobbleLost` with `InHand`: the row a scrobbler sends is the first of its user
  stored before it, and the row it removes was taken, refused or severed.
* `OrderKept`: the action property `SentInOrder`, from the same invariant.
* `RepeatsPaidFor`: `RepeatedOnlyByMishap` by an account: what was sent, the stopped scrobblers that
  still wait for an answer, the send still to come and the replacement still due are together at most
  one more than the mishaps.

`ArtworkQueueProofs`

* `QueueTyped`: `TypeOK` and `InHand`: a queue row that still has the `retry_at` a worker has dequeued
  is the row it has dequeued, with the same budget. So whoever gives up deletes no row that was renewed.
* `ReferencedKept`: `ReferencedIsKept` with `LockHeld` (no acquisition is between its writes while
  the prune runs), `Placed` (what an acquisition has written is there) and `DoomedIsOrphan`.
* `SettledCurrent`: `SettledIsCurrent` with `Announced`: a worker is wrong about an item only when a
  fresh row was queued behind its back, which its conditional deletion leaves there.

Only model-checked: the liveness properties `EveryTaskSettles`, `DatabaseCatchesUp`, `FlagIsReleased`,
`ChangeHandled`, `EveryJobSettles`, `EveryDownloadShown`, `DoomedIsSettled`, `UserServed` and
`EveryRowSettles`, as liveness under fairness and `ENABLED` are out of the prover's reach; and the two
violations of section 4, which are counterexamples. The proofs are about the models: that these
agree with the code is what the map in `PROJECT.json` is for.

## 6. What is not modelled, and the plan

Not modelled for good: SQL, HTTP, parsing, tag reading, ranking, the UI. Payloads, messages and log
lines carry no information. A second process on the same database (a scan from the command line) is
outside the flag the code uses and outside `ScanControl`.

Most of the repository is of that kind: of about 100 000 lines, generated plugin interfaces and
their generator, the Subsonic, Jellyfin and native APIs, the parsers of tags, lyrics, playlists and
catalog answers, configuration, SQL criteria, ranking and the command line make up the largest part.
They transform data and keep no state over which processes could disagree, so a model of them would be
a transcription. The map therefore covers a small share of the lines: the parts that hold persistent
or shared state.

Within the modelled components these are left out: now-playing sessions and play counts; the
per-agent circuit breaker and file variants of artwork, and the order of its rows by priority; the
limit of 100 rows a cleanup of discoveries takes at a time; the ranking of the radio and its
taste statistics; phases 2 and 4 of the scan; watching of single libraries; enabling, updating and
compiling plugins. The jukebox (a queue shared without a lock, around the external player mpv), the
SSE broker, the transcoding limiter and the caches are not modelled.

Order of work from here:

1. The jukebox (its handlers and the track switcher share the queue's index without a lock), the
   artwork breaker and phase 2 of the scan (which moved track gets which identity).
2. An abstract specification of what a scan promises, which `LibraryScan` implements, as
   `JobLifecycle` is for the two job tables.
