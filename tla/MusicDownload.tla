--------------------------- MODULE MusicDownload ---------------------------
(***************************************************************************)
(* Music download jobs (core/music/service.go and the repository of        *)
(* music_download_job): requests create or promote job rows, one worker    *)
(* per origin claims and processes them, and a restart requeues what was   *)
(* running.  The table and the music folder survive crashes; workers, the  *)
(* wake-up channel and requests in progress do not.                        *)
(*                                                                         *)
(* Abstractions: titles, messages and times carry no information; job ids  *)
(* are numbered in the order of created_at; a song or album is one member  *)
(* of Song, matched with the library when a scan has indexed it.  An       *)
(* external call and the local statements up to the next write of the row  *)
(* are one step.                                                           *)
(***************************************************************************)
EXTENDS Integers

CONSTANTS
    Song,        \* catalog ids of songs and albums
    User,
    Handler,     \* goroutines serving API requests
    Requests,    \* the download requests users and the radio may make
    MaxJobs,     \* bound: rows ever inserted
    MaxLives,    \* bound: lives of the process
    MaxFaults    \* bound: failed statements, lookups cancelled by another caller

Origin == {"manual", "radio"}
PlayNow == 200    \* playNowDownloadPriority

Request == [user : User, kind : {"song", "album"}, song : Song, origin : Origin,
            prio : Nat, play : {"yes", "no"}]

ASSUME RequestAssumption == Requests \subseteq Request /\ Requests # {}
ASSUME BoundAssumption == MaxJobs \in Nat /\ MaxLives \in Nat /\ MaxFaults \in Nat

Job == 1..MaxJobs
NoJob == 0

VARIABLES
    row,      \* the table music_download_job
    created,  \* number of rows inserted
    worker,   \* run(ctx, origin)
    handler,  \* API requests in progress
    wake,     \* s.wake, a channel of capacity 1
    up,       \* "up", "stopping" once ctx is cancelled, "down"
    onDisk,   \* songs imported into the music folder
    indexed,  \* found there by a scan
    lives, faults,
    byPlay    \* history: rows inserted by FindOrCreatePlay

library == <<onDisk, indexed>>
vars == <<row, created, worker, handler, wake, up, onDisk, indexed, lives, faults, byPlay>>

Settled == {"success", "failed"}
Status  == {"none", "queued", "running"} \cup Settled

Row == [st : Status, want : Requests, prio : Nat, file : {"yes", "no"}]

AnyRequest == CHOOSE r \in Requests : TRUE
New(r, st) == [st |-> st, want |-> r, file |-> "no",
               prio |-> IF r.play = "yes" THEN PlayNow ELSE r.prio]
Blank == [New(AnyRequest, "none") EXCEPT !.prio = 0]

\* A worker's job and its own copy of the row, and how processDownload ended.
Stages == {"lookup", "download", "import", "scan", "settle"}
Idle == [pc |-> "claim", job |-> NoJob, copy |-> Blank, err |-> "none"]
Busy(o) == worker[o].pc \in Stages

NoRequest == [pc |-> "idle", want |-> AnyRequest, job |-> NoJob, copy |-> Blank]

Init ==
    /\ row = [j \in Job |-> Blank]
    /\ created = 0
    /\ worker = [o \in Origin |-> [Idle EXCEPT !.pc = "off"]]
    /\ handler = [h \in Handler |-> NoRequest]
    /\ wake = 0
    /\ up = "down"
    /\ onDisk = {} /\ indexed = {}
    /\ lives = 0 /\ faults = 0
    /\ byPlay = {}

Fault == faults < MaxFaults /\ faults' = faults + 1

-----------------------------------------------------------------------------
(* API requests. *)

\* The jobs a play request of user u for song s may reuse.
Active(u, s) ==
    {j \in Job : /\ row[j].st \in {"queued", "running"}
                 /\ row[j].want.kind = "song"
                 /\ row[j].want.user = u /\ row[j].want.song = s}

\* order by priority desc, created_at asc
Before(j, k) == \/ row[j].prio > row[k].prio
                \/ row[j].prio = row[k].prio /\ j <= k

\* ... with a running job first.
FirstActive(j, S) ==
    /\ j \in S
    /\ \A k \in S : \/ row[j].st = "running" /\ row[k].st = "queued"
                    \/ row[j].st = row[k].st /\ Before(j, k)

Raised(p) == IF p < PlayNow THEN PlayNow ELSE p

\* Mutant: the priority of a running row is raised too.
PromotedRunning(j) == [row EXCEPT ![j].prio = Raised(@)]

\* promoteActivePlayTx: only a waiting row is changed.
Promoted(j) ==
    IF row[j].st = "queued" THEN [row EXCEPT ![j].prio = Raised(@)] ELSE row

\* A play request is answered with an active job of the same user and song.
Reuse(r) ==
    \E j \in Job :
        /\ FirstActive(j, Active(r.user, r.song))
        /\ row' = Promoted(j)
        /\ wake' = 1
        /\ UNCHANGED <<created, byPlay, faults>>

Insert(r) ==
    /\ created < MaxJobs
    /\ created' = created + 1
    /\ row' = [row EXCEPT ![created + 1] = New(r, "queued")]
    /\ byPlay' = IF r.play = "yes" THEN byPlay \cup {created + 1} ELSE byPlay
    /\ wake' = 1
    /\ UNCHANGED faults

\* The check of a manual song: it is not in the library yet.
NotInLibrary(r) == r.kind = "song" /\ r.origin = "manual" => r.song \notin indexed

\* CreateDownload for a song that is not to be played at once, or an album.  A
\* request that fails the check or the insertion changes nothing.
CreateDownload(r) ==
    /\ up # "down"
    /\ r.play = "no"
    /\ NotInLibrary(r)
    /\ Insert(r)
    /\ UNCHANGED <<worker, handler, up, library, lives>>

\* CreateDownload for a play request, up to the insertion: PromoteActivePlay,
\* and the check of the library when there is no job to promote.
PlayDownload(h, r) ==
    /\ up # "down"
    /\ r.play = "yes"
    /\ handler[h].pc = "idle"
    /\ \/ Reuse(r) /\ UNCHANGED handler
       \/ /\ Active(r.user, r.song) = {}
          /\ NotInLibrary(r)
          /\ handler' = [handler EXCEPT ![h] = [NoRequest EXCEPT !.pc = "create", !.want = r]]
          /\ UNCHANGED <<row, wake, created, byPlay, faults>>
    /\ UNCHANGED <<worker, up, library, lives>>

\* Mutant: the result of the earlier PromoteActivePlay is trusted.
FindOrCreatePlayBlind(r) == Insert(r)

\* One transaction that begins with a write.
FindOrCreatePlay(r) ==
    IF Active(r.user, r.song) = {} THEN Insert(r) ELSE Reuse(r)

Answered(h) == handler' = [handler EXCEPT ![h] = NoRequest]

\* The rest of the request, when the catalog could be asked.
CreatePlayJob(h) ==
    /\ handler[h].pc = "create"
    /\ \/ FindOrCreatePlay(handler[h].want)
       \/ UNCHANGED <<row, created, byPlay, wake, faults>>
    /\ Answered(h)
    /\ UNCHANGED <<worker, up, library, lives>>

\* Mutant: any song job without a file is resolved.
ResolvableAny(j) == row[j].want.kind = "song" /\ row[j].st # "none" /\ row[j].file = "no"

\* GetDownload resolves a finished song that was not indexed in time.
Resolvable(j) == row[j].want.kind = "song" /\ row[j].st = "success" /\ row[j].file = "no"

GetDownload(h, j) ==
    /\ up # "down"
    /\ handler[h].pc = "idle"
    /\ Resolvable(j)
    /\ handler' = [handler EXCEPT ![h] =
           [NoRequest EXCEPT !.pc = "resolve", !.job = j, !.copy = row[j]]]
    /\ UNCHANGED <<row, created, worker, wake, up, library, lives, faults, byPlay>>

\* resolveDownloadedSong on a GET: the whole row is written from the copy.
ResolveOnGet(h) ==
    /\ handler[h].pc = "resolve"
    /\ \/ /\ handler[h].copy.want.song \in indexed
          /\ row' = [row EXCEPT ![handler[h].job] = [handler[h].copy EXCEPT !.file = "yes"]]
          /\ UNCHANGED faults
       \/ handler[h].copy.want.song \notin indexed /\ UNCHANGED <<row, faults>>
       \/ Fault /\ UNCHANGED row
    /\ Answered(h)
    /\ UNCHANGED <<created, worker, wake, up, library, lives, byPlay>>

-----------------------------------------------------------------------------
(* The worker of origin o. *)

Queued(o) == {j \in Job : row[j].st = "queued" /\ row[j].want.origin = o}

\* ClaimNext: the first queued row of the origin becomes running.  The worker
\* goes to sleep when there is none or the transaction fails.
ClaimNext(o) ==
    /\ worker[o].pc = "claim"
    /\ \/ \E j \in Queued(o) :
              /\ \A k \in Queued(o) : Before(j, k)
              /\ row' = [row EXCEPT ![j].st = "running"]
              /\ worker' = [worker EXCEPT ![o] =
                     [pc |-> "lookup", job |-> j, copy |-> [row[j] EXCEPT !.st = "running"],
                      err |-> "none"]]
              /\ UNCHANGED faults
       \/ Queued(o) = {} /\ worker' = [worker EXCEPT ![o].pc = "wait"] /\ UNCHANGED <<row, faults>>
       \/ Fault /\ worker' = [worker EXCEPT ![o].pc = "wait"] /\ UNCHANGED row
    /\ UNCHANGED <<created, handler, wake, up, library, lives, byPlay>>

\* Mutant: a worker sleeps until it is woken.
PollNever == FALSE

\* The timer of waitFor: two seconds, or five after an error.
PollElapses == TRUE

\* waitFor returns true: the wake-up, which only one worker gets, or the timer.
Wake(o) ==
    /\ worker[o].pc = "wait"
    /\ \/ wake = 1 /\ wake' = 0
       \/ PollElapses /\ UNCHANGED wake
    /\ worker' = [worker EXCEPT ![o].pc = "claim"]
    /\ UNCHANGED <<row, created, handler, up, library, lives, faults, byPlay>>

\* waitFor returns false: ctx is done.
Leave(o) ==
    /\ worker[o].pc = "wait"
    /\ up = "stopping"
    /\ worker' = [worker EXCEPT ![o].pc = "off"]
    /\ UNCHANGED <<row, created, handler, wake, up, library, lives, faults, byPlay>>

Goto(o, pc, copy, err) ==
    worker' = [worker EXCEPT ![o] = [@ EXCEPT !.pc = pc, !.copy = copy, !.err = err]]

\* jobs.Update(job) writes the whole row from the worker's copy; an error of
\* it ends processDownload.
Update(o, copy, pc) ==
    \/ /\ row' = [row EXCEPT ![worker[o].job] = copy]
       /\ Goto(o, pc, copy, "none")
       /\ UNCHANGED faults
    \/ /\ Fault /\ UNCHANGED row
       /\ Goto(o, "settle", copy, "other")

\* processDownload returns an error; nothing is written yet.
Fail(o, err) == Goto(o, "settle", worker[o].copy, err) /\ UNCHANGED <<row, faults>>

\* The recording or the album is looked up and its size saved.  The catalog
\* client passes an error of its context on, its own or that of the caller
\* whose identical lookup it shares (requests.Do).
Lookup(o) ==
    /\ worker[o].pc = "lookup"
    /\ \/ Update(o, worker[o].copy, "download")
       \/ Fail(o, "other")
       \/ up = "stopping" /\ Fail(o, "ctx")
       \/ Fault /\ UNCHANGED row /\ Goto(o, "settle", worker[o].copy, "ctx")
    /\ UNCHANGED <<created, handler, wake, up, library, lives, byPlay>>

\* yt-dlp and beets are killed when ctx is cancelled, and their clients format
\* the error as text: the service can not tell it from any other failure.
Killed(o) == up = "stopping" /\ Fail(o, "killed")

\* The song, or the next track of the album, whose counter is saved after each.
Download(o) ==
    /\ worker[o].pc = "download"
    /\ \/ /\ worker[o].copy.want.kind = "song"
          /\ Goto(o, "import", worker[o].copy, "none")
          /\ UNCHANGED <<row, faults>>
       \/ /\ worker[o].copy.want.kind = "album"
          /\ \E pc \in {"download", "import"} : Update(o, worker[o].copy, pc)
       \/ Fail(o, "other")
       \/ Killed(o)
    /\ UNCHANGED <<created, handler, wake, up, library, lives, byPlay>>

\* The songs in the music folder after an import; an album's tracks are not
\* followed further.
Imported(o) ==
    onDisk \cup {s \in Song : worker[o].copy.want.kind = "song" /\ worker[o].copy.want.song = s}

\* tagger.Import moves the files and then writes their tags: it may fail with
\* the files in the music folder.
Import(o) ==
    /\ worker[o].pc = "import"
    /\ \/ /\ Goto(o, "scan", worker[o].copy, "none")
          /\ onDisk' = Imported(o)
          /\ UNCHANGED <<row, faults>>
       \/ /\ Fail(o, "other") \/ Killed(o)
          /\ onDisk' \in {onDisk, Imported(o)}
    /\ UNCHANGED <<created, handler, wake, up, indexed, lives, byPlay>>

\* scanLibrary, whose scan may be refused, and resolveDownloadedSong: a match
\* is saved with the row still running, and forgotten when that fails.
ScanAndResolve(o) ==
    /\ worker[o].pc = "scan"
    /\ indexed' \in {indexed, onDisk}
    /\ LET copy == worker[o].copy
           found == /\ copy.want.kind = "song" /\ copy.file = "no"
                    /\ copy.want.song \in indexed'
           match == [copy EXCEPT !.file = "yes"]
       IN \/ ~found /\ Goto(o, "settle", copy, "none") /\ UNCHANGED <<row, faults>>
          \/ /\ found /\ row' = [row EXCEPT ![worker[o].job] = match]
             /\ Goto(o, "settle", match, "none") /\ UNCHANGED faults
          \/ found /\ Fault /\ UNCHANGED row /\ Goto(o, "settle", copy, "none")
    /\ UNCHANGED <<created, handler, wake, up, onDisk, lives, byPlay>>

Outcome(err) == CASE err = "none" -> "success"
                  [] err = "ctx"  -> "queued"
                  [] OTHER        -> "failed"

\* The end of process.  When the update fails the row stays running until the
\* next start.
Settle(o) ==
    /\ worker[o].pc = "settle"
    /\ \/ /\ row' = [row EXCEPT ![worker[o].job] =
                        [worker[o].copy EXCEPT !.st = Outcome(worker[o].err)]]
          /\ UNCHANGED faults
       \/ Fault /\ UNCHANGED row
    /\ worker' = [worker EXCEPT ![o] = Idle]
    /\ UNCHANGED <<created, handler, wake, up, library, lives, byPlay>>

WorkerStep(o) ==
    \/ ClaimNext(o) \/ Wake(o) \/ Lookup(o) \/ Download(o)
    \/ Import(o) \/ ScanAndResolve(o) \/ Settle(o)

-----------------------------------------------------------------------------
(* The process and its surroundings. *)

\* Mutant: failed jobs are given another chance.
RequeueUnfinished ==
    [j \in Job |-> IF row[j].st \in {"running", "failed"} THEN [row[j] EXCEPT !.st = "queued"] ELSE row[j]]

RequeueRunning ==
    [j \in Job |-> IF row[j].st = "running" THEN [row[j] EXCEPT !.st = "queued"] ELSE row[j]]

\* Start: recovery, whose error is only logged, then the two workers.
Start ==
    /\ up = "down" /\ lives < MaxLives
    /\ lives' = lives + 1
    /\ up' = "up"
    /\ \/ row' = RequeueRunning /\ UNCHANGED faults
       \/ Fault /\ UNCHANGED row
    /\ worker' = [o \in Origin |-> Idle]
    /\ UNCHANGED <<created, handler, wake, library, byPlay>>

Stop ==
    /\ up = "up" /\ lives < MaxLives
    /\ up' = "stopping"
    /\ UNCHANGED <<row, created, worker, handler, wake, library, lives, faults, byPlay>>

\* The process ends, by a crash or some time after Stop.
Die ==
    /\ up # "down" /\ lives < MaxLives
    /\ up' = "down"
    /\ worker' = [o \in Origin |-> [Idle EXCEPT !.pc = "off"]]
    /\ handler' = [h \in Handler |-> NoRequest]
    /\ wake' = 0
    /\ UNCHANGED <<row, created, library, lives, faults, byPlay>>

\* A scan asked for by someone else.
LibraryScanned ==
    /\ up # "down"
    /\ indexed' = onDisk
    /\ UNCHANGED <<row, created, worker, handler, wake, up, onDisk, lives, faults, byPlay>>

Next ==
    \/ \E h \in Handler :
          \/ \E r \in Requests : PlayDownload(h, r)
          \/ CreatePlayJob(h) \/ ResolveOnGet(h)
          \/ \E j \in Job : GetDownload(h, j)
    \/ \E r \in Requests : CreateDownload(r)
    \/ \E o \in Origin : WorkerStep(o) \/ Leave(o)
    \/ Start \/ Stop \/ Die \/ LibraryScanned

Spec == Init /\ [][Next]_vars

\* The workers are goroutines of a running process, external commands end, and
\* a process that is down or has been told to stop is started again.
FairSpec ==
    /\ Spec
    /\ \A o \in Origin : WF_vars(WorkerStep(o))
    /\ WF_vars(Start) /\ WF_vars(up = "stopping" /\ Die)

-----------------------------------------------------------------------------
(* Properties. *)

WorkerState == [pc : Stages \cup {"off", "claim", "wait"}, job : Job \cup {NoJob},
                copy : Row, err : {"none", "ctx", "other", "killed"}]
HandlerState == [pc : {"idle", "create", "resolve"}, want : Requests,
                 job : Job \cup {NoJob}, copy : Row]

TypeOK ==
    /\ row \in [Job -> Row]
    /\ created \in 0..MaxJobs
    /\ worker \in [Origin -> WorkerState]
    /\ handler \in [Handler -> HandlerState]
    /\ wake \in {0, 1}
    /\ up \in {"up", "stopping", "down"}
    /\ onDisk \subseteq Song /\ indexed \subseteq onDisk
    /\ lives \in 0..MaxLives /\ faults \in 0..MaxFaults
    /\ byPlay \subseteq 1..created

\* A job being processed is running in the table and no other worker has it:
\* the whole-row writes of the workers never meet (service.go, ClaimNext and
\* Update), whatever fails and however often the process restarts.
ExclusiveClaim ==
    \A o \in Origin : Busy(o) =>
        /\ row[worker[o].job].st = "running"
        /\ \A p \in Origin \ {o} : Busy(p) => worker[p].job # worker[o].job

\* FindOrCreatePlay "serializes interactive song requests": at most one of the
\* jobs that play requests of a user have created for a song is active.
OnePlayJob ==
    \A j, k \in byPlay : j # k =>
        ~ \E r \in Requests : {j, k} \subseteq Active(r.user, r.song)

\* The priority a play request has given to a waiting job is never lost to a
\* row written back from an older copy.
PriorityKept == [][\A j \in Job : row'[j].prio >= row[j].prio]_vars

Jobs == INSTANCE JobLifecycle WITH
    phase <- [j \in Job |-> CASE row[j].st = "queued"  -> "pending"
                              [] row[j].st = "success" -> "completed"
                              [] OTHER                 -> row[j].st]

\* Every step is a step, or a stutter, of the job life cycle; in particular
\* success and failure are final although a GET writes the row again.
DownloadLifecycle == Jobs!Spec

\* Nobody works on the running row j, because a statement has failed.
Forgotten(j) ==
    /\ up = "up" /\ faults > 0
    /\ row[j].st = "running"
    /\ \A o \in Origin : ~(Busy(o) /\ worker[o].job = j)

\* A queued job is processed to its end through crashes and restarts, whichever
\* worker takes the shared wake-up (run, waitFor); it is only left behind when
\* the statement that settles it, or RequeueRunning, has failed.
EveryJobSettles ==
    \A j \in Job : row[j].st = "queued" ~> (row[j].st \in Settled \/ Forgotten(j))

\* process requeues an interrupted job with the message "Interrupted; will
\* retry".
InterruptedJobRetried ==
    [][\A o \in Origin : worker[o].pc = "settle" /\ worker[o].err = "killed"
            => row'[worker[o].job].st # "failed"]_vars
=============================================================================
