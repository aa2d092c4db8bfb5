------------------------ MODULE MusicDownloadProofs ------------------------
(***************************************************************************)
(* Proofs about MusicDownload, for any sets of users, songs, handlers and  *)
(* requests, and any bounds.                                               *)
(***************************************************************************)
EXTENDS MusicDownload, TLAPS

-----------------------------------------------------------------------------
(* Type correctness *)

\* The values the actions build are of the declared types.
LEMMA Values ==
  /\ AnyRequest \in Requests /\ Requests \subseteq Request
  /\ \A r \in Requests : New(r, "queued") \in Row
  /\ Blank \in Row /\ Idle \in WorkerState /\ [Idle EXCEPT !.pc = "off"] \in WorkerState
  /\ NoRequest \in HandlerState
  <1>1. AnyRequest \in Requests /\ Requests \subseteq Request
    BY RequestAssumption DEF AnyRequest
  <1>2. \A r \in Requests : New(r, "queued") \in Row /\ New(r, "none") \in Row
    BY <1>1 DEF New, Row, Status, Settled, PlayNow, Request
  <1>3. Blank \in Row
    BY <1>1, <1>2 DEF Blank, Row
  <1>4. Idle \in WorkerState /\ [Idle EXCEPT !.pc = "off"] \in WorkerState
    BY <1>3 DEF Idle, WorkerState, NoJob
  <1>5. NoRequest \in HandlerState
    BY <1>1, <1>3 DEF NoRequest, HandlerState, NoJob
  <1> QED
    BY <1>1, <1>2, <1>3, <1>4, <1>5

LEMMA TypeInit == Init => TypeOK
  BY Values, BoundAssumption DEF Init, TypeOK

\* Insert and Reuse, the two ways a request changes the table.
LEMMA TypeInsert ==
  ASSUME TypeOK, NEW r \in Requests, Insert(r)
  PROVE  /\ row' \in [Job -> Row] /\ created' \in 0..MaxJobs /\ wake' \in {0, 1}
         /\ faults' = faults /\ byPlay' \subseteq 1..created'
  BY Values, BoundAssumption DEF Insert, TypeOK, Job

LEMMA TypeReuse ==
  ASSUME TypeOK, NEW r \in Requests, Reuse(r)
  PROVE  /\ row' \in [Job -> Row] /\ wake' \in {0, 1}
         /\ UNCHANGED <<created, faults, byPlay>>
  <1> PICK j \in Job : row' = Promoted(j) /\ wake' = 1 /\ UNCHANGED <<created, byPlay, faults>>
    BY DEF Reuse
  <1>1. row' \in [Job -> Row]
    BY DEF Promoted, Raised, PlayNow, TypeOK, Row
  <1> QED
    BY <1>1

LEMMA TypeHandler ==
  ASSUME TypeOK, NEW h \in Handler,
         \/ \E r \in Requests : PlayDownload(h, r)
         \/ CreatePlayJob(h) \/ ResolveOnGet(h)
         \/ \E j \in Job : GetDownload(h, j)
  PROVE  TypeOK'
  <1>0. handler[h] \in HandlerState /\ NoRequest \in HandlerState
    BY Values DEF TypeOK
  <1>1. ASSUME NEW r \in Requests, PlayDownload(h, r) PROVE TypeOK'
    <2>1. CASE Reuse(r) /\ UNCHANGED handler
      BY <1>1, <2>1, TypeReuse DEF PlayDownload, TypeOK, library
    <2>2. CASE /\ handler' = [handler EXCEPT ![h] =
                                 [NoRequest EXCEPT !.pc = "create", !.want = r]]
               /\ UNCHANGED <<row, wake, created, byPlay, faults>>
      <3>1. handler' \in [Handler -> HandlerState]
        BY <1>0, <2>2 DEF TypeOK, HandlerState
      <3> QED
        BY <1>1, <2>2, <3>1 DEF PlayDownload, TypeOK, library
    <2> QED
      BY <1>1, <2>1, <2>2 DEF PlayDownload
  <1>2. CASE CreatePlayJob(h)
    <2>1. handler' \in [Handler -> HandlerState] /\ handler[h].want \in Requests
      BY <1>0, <1>2 DEF CreatePlayJob, Answered, TypeOK, HandlerState
    <2>2. CASE Insert(handler[h].want)
      BY <1>2, <2>1, <2>2, TypeInsert DEF CreatePlayJob, TypeOK, library
    <2>3. CASE Reuse(handler[h].want)
      BY <1>2, <2>1, <2>3, TypeReuse DEF CreatePlayJob, TypeOK, library
    <2>4. CASE UNCHANGED <<row, created, byPlay, wake, faults>>
      BY <1>2, <2>1, <2>4 DEF CreatePlayJob, TypeOK, library
    <2> QED
      BY <1>2, <2>2, <2>3, <2>4 DEF CreatePlayJob, FindOrCreatePlay
  <1>3. CASE ResolveOnGet(h)
    <2>1. handler' \in [Handler -> HandlerState]
      BY <1>0, <1>3 DEF ResolveOnGet, Answered, TypeOK
    <2>2. [handler[h].copy EXCEPT !.file = "yes"] \in Row
      BY <1>0 DEF HandlerState, Row
    <2>3. row' \in [Job -> Row]
      BY <1>3, <2>2 DEF ResolveOnGet, TypeOK
    <2>4. faults' \in 0..MaxFaults
      BY <1>3, BoundAssumption DEF ResolveOnGet, Fault, TypeOK
    <2> QED
      BY <1>3, <2>1, <2>3, <2>4 DEF ResolveOnGet, TypeOK, library
  <1>4. ASSUME NEW j \in Job, GetDownload(h, j) PROVE TypeOK'
    <2>1. handler' \in [Handler -> HandlerState]
      BY <1>0, <1>4 DEF GetDownload, TypeOK, HandlerState
    <2> QED
      BY <1>4, <2>1 DEF GetDownload, TypeOK, library
  <1> QED
    BY <1>1, <1>2, <1>3, <1>4

\* Goto, and the writes of Update and Fail built on it.
LEMMA TypeGoto ==
  ASSUME TypeOK, NEW o \in Origin, NEW copy \in Row, NEW pc \in Stages,
         NEW err \in {"none", "ctx", "other", "killed"}, Goto(o, pc, copy, err)
  PROVE  worker' \in [Origin -> WorkerState]
  BY DEF Goto, TypeOK, WorkerState

LEMMA TypeUpdate ==
  ASSUME TypeOK, NEW o \in Origin, NEW copy \in Row, NEW pc \in Stages, Update(o, copy, pc)
  PROVE  /\ worker' \in [Origin -> WorkerState]
         /\ row' \in [Job -> Row] /\ faults' \in 0..MaxFaults
  <1>1. worker' \in [Origin -> WorkerState]
    BY TypeGoto DEF Update, Stages
  <1>2. row' \in [Job -> Row]
    BY DEF Update, TypeOK
  <1>3. faults' \in 0..MaxFaults
    BY BoundAssumption DEF Update, Fault, TypeOK
  <1> QED
    BY <1>1, <1>2, <1>3

LEMMA TypeFail ==
  ASSUME TypeOK, NEW o \in Origin, NEW err \in {"none", "ctx", "other", "killed"}, Fail(o, err)
  PROVE  /\ worker' \in [Origin -> WorkerState]
         /\ row' \in [Job -> Row] /\ faults' \in 0..MaxFaults
  <1>1. worker[o].copy \in Row
    BY DEF TypeOK, WorkerState
  <1> QED
    BY <1>1, TypeGoto DEF Fail, Stages, TypeOK

LEMMA TypeWorker ==
  ASSUME TypeOK, NEW o \in Origin, WorkerStep(o) \/ Leave(o)
  PROVE  TypeOK'
  <1>0. worker[o] \in WorkerState /\ worker[o].copy \in Row /\ Idle \in WorkerState
    BY Values DEF TypeOK, WorkerState
  <1>1. CASE ClaimNext(o)
    <2>1. /\ row' \in [Job -> Row] /\ worker' \in [Origin -> WorkerState]
      <3>1. ASSUME NEW j \in Queued(o), row' = [row EXCEPT ![j].st = "running"],
                   worker' = [worker EXCEPT ![o] =
                     [pc |-> "lookup", job |-> j, copy |-> [row[j] EXCEPT !.st = "running"],
                      err |-> "none"]]
            PROVE  row' \in [Job -> Row] /\ worker' \in [Origin -> WorkerState]
        <4>1. j \in Job /\ [row[j] EXCEPT !.st = "running"] \in Row
          BY DEF Queued, TypeOK, Row, Status
        <4> QED
          BY <3>1, <4>1 DEF TypeOK, WorkerState, Stages, Row, Status
      <3>2. ASSUME worker' = [worker EXCEPT ![o].pc = "wait"], UNCHANGED row
            PROVE  row' \in [Job -> Row] /\ worker' \in [Origin -> WorkerState]
        BY <3>2 DEF TypeOK, WorkerState
      <3> QED
        BY <1>1, <3>1, <3>2 DEF ClaimNext
    <2>2. faults' \in 0..MaxFaults
      BY <1>1, BoundAssumption DEF ClaimNext, Fault, TypeOK
    <2> QED
      BY <1>1, <2>1, <2>2 DEF ClaimNext, TypeOK, library
  <1>2. CASE Wake(o) \/ Leave(o)
    <2>1. worker' \in [Origin -> WorkerState]
      BY <1>2 DEF Wake, Leave, TypeOK, WorkerState
    <2>2. wake' \in {0, 1}
      BY <1>2 DEF Wake, Leave, TypeOK
    <2> QED
      BY <1>2, <2>1, <2>2 DEF Wake, Leave, TypeOK, library
  <1>3. CASE Lookup(o)
    <2>1. /\ worker' \in [Origin -> WorkerState]
          /\ row' \in [Job -> Row] /\ faults' \in 0..MaxFaults
      <3>1. CASE Update(o, worker[o].copy, "download")
        BY <1>0, <3>1, TypeUpdate DEF Stages
      <3>2. CASE Fail(o, "other") \/ Fail(o, "ctx")
        BY <3>2, TypeFail
      <3>3. CASE Fault /\ UNCHANGED row /\ Goto(o, "settle", worker[o].copy, "ctx")
        BY <1>0, <3>3, TypeGoto, BoundAssumption DEF Fault, Stages, TypeOK
      <3> QED
        BY <1>3, <3>1, <3>2, <3>3 DEF Lookup
    <2> QED
      BY <1>3, <2>1 DEF Lookup, TypeOK, library
  <1>4. CASE Download(o)
    <2>1. /\ worker' \in [Origin -> WorkerState]
          /\ row' \in [Job -> Row] /\ faults' \in 0..MaxFaults
      <3>1. CASE Goto(o, "import", worker[o].copy, "none") /\ UNCHANGED <<row, faults>>
        BY <1>0, <3>1, TypeGoto DEF Stages, TypeOK
      <3>2. CASE \E pc \in {"download", "import"} : Update(o, worker[o].copy, pc)
        BY <1>0, <3>2, TypeUpdate DEF Stages
      <3>3. CASE Fail(o, "other") \/ Killed(o)
        BY <3>3, TypeFail DEF Killed
      <3> QED
        BY <1>4, <3>1, <3>2, <3>3 DEF Download
    <2> QED
      BY <1>4, <2>1 DEF Download, TypeOK, library
  <1>5. CASE Import(o)
    <2>1. /\ worker' \in [Origin -> WorkerState]
          /\ row' \in [Job -> Row] /\ faults' \in 0..MaxFaults
      <3>1. CASE Goto(o, "scan", worker[o].copy, "none") /\ UNCHANGED <<row, faults>>
        BY <1>0, <3>1, TypeGoto DEF Stages, TypeOK
      <3>2. CASE Fail(o, "other") \/ Killed(o)
        BY <3>2, TypeFail DEF Killed
      <3> QED
        BY <1>5, <3>1, <3>2 DEF Import
    <2>2. onDisk' \subseteq Song /\ indexed' \subseteq onDisk'
      BY <1>5 DEF Import, Imported, TypeOK
    <2> QED
      BY <1>5, <2>1, <2>2 DEF Import, TypeOK
  <1>6. CASE ScanAndResolve(o)
    <2>1. [worker[o].copy EXCEPT !.file = "yes"] \in Row
      BY <1>0 DEF Row
    <2>2. worker' \in [Origin -> WorkerState]
      BY <1>0, <1>6, <2>1, TypeGoto DEF ScanAndResolve, Stages
    <2>3. row' \in [Job -> Row]
      BY <1>6, <2>1 DEF ScanAndResolve, TypeOK
    <2>4. faults' \in 0..MaxFaults
      BY <1>6, BoundAssumption DEF ScanAndResolve, Fault, TypeOK
    <2>5. indexed' \subseteq onDisk
      BY <1>6 DEF ScanAndResolve, TypeOK
    <2> QED
      BY <1>6, <2>2, <2>3, <2>4, <2>5 DEF ScanAndResolve, TypeOK
  <1>7. CASE Settle(o)
    <2>1. [worker[o].copy EXCEPT !.st = Outcome(worker[o].err)] \in Row
      BY <1>0 DEF Row, Outcome, Status, Settled
    <2>2. row' \in [Job -> Row] /\ worker' \in [Origin -> WorkerState]
      BY <1>0, <1>7, <2>1 DEF Settle, TypeOK
    <2>3. faults' \in 0..MaxFaults
      BY <1>7, BoundAssumption DEF Settle, Fault, TypeOK
    <2> QED
      BY <1>7, <2>2, <2>3 DEF Settle, TypeOK, library
  <1> QED
    BY <1>1, <1>2, <1>3, <1>4, <1>5, <1>6, <1>7 DEF WorkerStep

LEMMA TypeStep == TypeOK /\ [Next]_vars => TypeOK'
  <1> SUFFICES ASSUME TypeOK, [Next]_vars PROVE TypeOK'
    OBVIOUS
  <1>1. ASSUME NEW r \in Requests, CreateDownload(r) PROVE TypeOK'
    BY <1>1, TypeInsert DEF CreateDownload, TypeOK, library
  <1>2. CASE Start
    <2>1. RequeueRunning \in [Job -> Row]
      BY DEF RequeueRunning, TypeOK, Row, Status
    <2>2. faults' \in 0..MaxFaults /\ lives' \in 0..MaxLives
      BY <1>2, BoundAssumption DEF Start, Fault, TypeOK
    <2>3. worker' \in [Origin -> WorkerState]
      BY <1>2, Values DEF Start
    <2> QED
      BY <1>2, <2>1, <2>2, <2>3 DEF Start, TypeOK, library
  <1>3. CASE Stop
    BY <1>3 DEF Stop, TypeOK, library
  <1>4. CASE Die
    BY <1>4, Values DEF Die, TypeOK, library
  <1>5. CASE LibraryScanned
    BY <1>5 DEF LibraryScanned, TypeOK
  <1>6. CASE UNCHANGED vars
    BY <1>6 DEF vars, TypeOK
  <1> QED
    BY <1>1, <1>2, <1>3, <1>4, <1>5, <1>6, TypeHandler, TypeWorker DEF Next

\* Every variable keeps its type; in particular a scan indexes nothing that is
\* not in the music folder.
THEOREM DownloadsTyped == Spec => []TypeOK
  BY TypeInit, TypeStep, PTL DEF Spec

-----------------------------------------------------------------------------
(* Who owns a row *)

\* What a worker knows of its job is what the table says, and the job is of its
\* origin: the whole-row writes of a worker change nothing it did not mean to.
WorkerCurrent(o) ==
    Busy(o) => /\ worker[o].job \in Job
               /\ row[worker[o].job] = worker[o].copy
               /\ worker[o].copy.st = "running"
               /\ worker[o].copy.want.origin = o

\* The copy a GET has read is of a row that has succeeded, of which only the
\* file may have changed since.
HandlerCurrent(h) ==
    handler[h].pc = "resolve" =>
        /\ handler[h].job \in Job
        /\ handler[h].copy.st = "success"
        /\ row[handler[h].job].st = "success"
        /\ row[handler[h].job].want = handler[h].copy.want
        /\ row[handler[h].job].prio = handler[h].copy.prio

Fresh == \A j \in Job : j > created => row[j] = Blank

Owned ==
    /\ \A o \in Origin : WorkerCurrent(o)
    /\ \A h \in Handler : HandlerCurrent(h)
    /\ Fresh

LEMMA OwnedInit == Init => Owned
  BY DEF Init, Owned, WorkerCurrent, HandlerCurrent, Fresh, Busy, Stages, Idle, NoRequest

\* A step that leaves alone the rows that are running, that have succeeded or
\* that no one has inserted yet keeps the parts of Owned about the others.
LEMMA WorkerKept ==
  ASSUME NEW o \in Origin, WorkerCurrent(o), worker'[o] = worker[o],
         Busy(o) => row'[worker[o].job] = row[worker[o].job]
  PROVE  WorkerCurrent(o)'
  BY DEF WorkerCurrent, Busy

LEMMA HandlerKept ==
  ASSUME NEW h \in Handler, HandlerCurrent(h), handler'[h] = handler[h],
         \A j \in Job : row[j].st = "success" =>
             /\ row'[j].st = "success" /\ row'[j].want = row[j].want
             /\ row'[j].prio = row[j].prio
  PROVE  HandlerCurrent(h)'
  BY DEF HandlerCurrent

\* A request changes only rows that are waiting or not yet inserted.
LEMMA RequestRows ==
  ASSUME TypeOK, Owned, NEW r \in Requests, Insert(r) \/ Reuse(r)
  PROVE  /\ \A j \in Job : row[j].st \in {"running", "success"} => row'[j] = row[j]
         /\ Fresh'
  <1>1. CASE Insert(r)
    <2>1. created + 1 \in Job /\ row[created + 1].st = "none"
      BY <1>1, BoundAssumption DEF Insert, TypeOK, Owned, Fresh, Blank, New, Job
    <2>2. \A j \in Job : j # created + 1 => row'[j] = row[j]
      BY <1>1 DEF Insert, TypeOK
    <2> QED
      BY <1>1, <2>1, <2>2 DEF Insert, Owned, Fresh, TypeOK, Job
  <1>2. CASE Reuse(r)
    <2> PICK j \in Job : FirstActive(j, Active(r.user, r.song)) /\ row' = Promoted(j) /\ created' = created
      BY <1>2 DEF Reuse
    <2>1. row[j].st \in {"queued", "running"}
      BY DEF FirstActive, Active
    <2>2. \A k \in Job : row[k].st # "queued" => row'[k] = row[k]
      BY DEF Promoted, TypeOK
    <2>3. Blank.st # "queued"
      BY DEF Blank, New
    <2> QED
      BY <2>2, <2>3 DEF Owned, Fresh
  <1> QED
    BY <1>1, <1>2

LEMMA OwnedRequest ==
  ASSUME TypeOK, Owned, NEW r \in Requests, Insert(r) \/ Reuse(r), UNCHANGED worker,
         \A h \in Handler : handler'[h] = handler[h] \/ handler'[h].pc # "resolve"
  PROVE  Owned'
  <1>1. \A o \in Origin : WorkerCurrent(o)'
    BY RequestRows, WorkerKept DEF Owned, WorkerCurrent
  <1>2. \A h \in Handler : HandlerCurrent(h)'
    BY RequestRows, HandlerKept DEF Owned, HandlerCurrent
  <1> QED
    BY <1>1, <1>2, RequestRows DEF Owned

LEMMA OwnedHandler ==
  ASSUME TypeOK, Owned, NEW h \in Handler,
         \/ \E r \in Requests : PlayDownload(h, r)
         \/ CreatePlayJob(h) \/ ResolveOnGet(h)
         \/ \E j \in Job : GetDownload(h, j)
  PROVE  Owned'
  <1>1. ASSUME NEW r \in Requests, PlayDownload(h, r) PROVE Owned'
    <2>1. \A g \in Handler : handler'[g] = handler[g] \/ handler'[g].pc # "resolve"
      BY <1>1 DEF PlayDownload, TypeOK, NoRequest
    <2>2. CASE Reuse(r)
      BY <1>1, <2>1, <2>2, OwnedRequest DEF PlayDownload
    <2>3. CASE UNCHANGED <<row, wake, created, byPlay, faults>>
      <3>1. \A o \in Origin : WorkerCurrent(o)'
        BY <1>1, <2>3 DEF PlayDownload, Owned, WorkerCurrent, Busy
      <3>2. \A g \in Handler : HandlerCurrent(g)'
        BY <2>1, <2>3 DEF Owned, HandlerCurrent
      <3> QED
        BY <2>3, <3>1, <3>2 DEF Owned, Fresh
    <2> QED
      BY <1>1, <2>2, <2>3 DEF PlayDownload
  <1>2. CASE CreatePlayJob(h)
    <2>1. \A g \in Handler : handler'[g] = handler[g] \/ handler'[g].pc # "resolve"
      BY <1>2 DEF CreatePlayJob, Answered, TypeOK, NoRequest
    <2>2. handler[h].want \in Requests
      BY DEF TypeOK, HandlerState
    <2>3. CASE FindOrCreatePlay(handler[h].want)
      BY <1>2, <2>1, <2>2, <2>3, OwnedRequest DEF CreatePlayJob, FindOrCreatePlay
    <2>4. CASE UNCHANGED <<row, created, byPlay, wake, faults>>
      <3>1. \A o \in Origin : WorkerCurrent(o)'
        BY <1>2, <2>4 DEF CreatePlayJob, Owned, WorkerCurrent, Busy
      <3>2. \A g \in Handler : HandlerCurrent(g)'
        BY <2>1, <2>4 DEF Owned, HandlerCurrent
      <3> QED
        BY <2>4, <3>1, <3>2 DEF Owned, Fresh
    <2> QED
      BY <1>2, <2>3, <2>4 DEF CreatePlayJob
  <1>3. CASE ResolveOnGet(h)
    <2>1. \A g \in Handler : handler'[g] = handler[g] \/ handler'[g].pc # "resolve"
      BY <1>3 DEF ResolveOnGet, Answered, TypeOK, NoRequest
    <2>2. /\ handler[h].job \in Job /\ row[handler[h].job].st = "success"
          /\ HandlerCurrent(h) /\ handler[h].pc = "resolve"
      BY <1>3 DEF ResolveOnGet, Owned, HandlerCurrent
    <2>3. handler[h].copy \in Row
      BY DEF TypeOK, HandlerState
    <2>4. \A j \in Job : j # handler[h].job => row'[j] = row[j]
      BY <1>3 DEF ResolveOnGet, TypeOK
    <2>5. /\ row'[handler[h].job].st = "success"
          /\ row'[handler[h].job].want = row[handler[h].job].want
          /\ row'[handler[h].job].prio = row[handler[h].job].prio
      BY <1>3, <2>2, <2>3 DEF ResolveOnGet, HandlerCurrent, TypeOK, Row
    <2>6. \A o \in Origin : WorkerCurrent(o)'
      BY <1>3, <2>2, <2>4 DEF ResolveOnGet, Owned, WorkerCurrent, Busy
    <2>7. \A g \in Handler : HandlerCurrent(g)'
      BY <2>1, <2>4, <2>5, HandlerKept DEF Owned, HandlerCurrent
    <2>8. Fresh'
      BY <1>3, <2>2, <2>4 DEF ResolveOnGet, Owned, Fresh, Blank, New
    <2> QED
      BY <2>6, <2>7, <2>8 DEF Owned
  <1>4. ASSUME NEW j \in Job, GetDownload(h, j) PROVE Owned'
    <2>1. \A o \in Origin : WorkerCurrent(o)'
      BY <1>4 DEF GetDownload, Owned, WorkerCurrent, Busy
    <2>2. \A g \in Handler : HandlerCurrent(g)'
      BY <1>4 DEF GetDownload, Owned, HandlerCurrent, TypeOK, Resolvable, NoRequest
    <2>3. Fresh'
      BY <1>4 DEF GetDownload, Owned, Fresh
    <2> QED
      BY <2>1, <2>2, <2>3 DEF Owned
  <1> QED
    BY <1>1, <1>2, <1>3, <1>4

\* A step of the worker of origin o that writes at most one row, of its own
\* origin and queued or running, and leaves the worker with a current copy.
LEMMA OwnedByOne ==
  ASSUME TypeOK, Owned, NEW o \in Origin, UNCHANGED <<created, handler>>,
         \A p \in Origin : p # o => worker'[p] = worker[p],
         WorkerCurrent(o)',
         \/ UNCHANGED row
         \/ \E k \in Job : /\ row[k].st \in {"queued", "running"}
                           /\ row[k].want.origin = o
                           /\ \A j \in Job : j # k => row'[j] = row[j]
  PROVE  Owned'
  <1>1. CASE UNCHANGED row
    <2>1. \A p \in Origin : p # o => WorkerCurrent(p)'
      BY <1>1, WorkerKept DEF Owned, WorkerCurrent
    <2>2. \A h \in Handler : HandlerCurrent(h)'
      BY <1>1 DEF Owned, HandlerCurrent
    <2> QED
      BY <1>1, <2>1, <2>2 DEF Owned, Fresh
  <1>2. ASSUME NEW k \in Job, row[k].st \in {"queued", "running"}, row[k].want.origin = o,
               \A j \in Job : j # k => row'[j] = row[j]
        PROVE  Owned'
    <2>1. \A p \in Origin : p # o => WorkerCurrent(p)'
      BY <1>2, WorkerKept DEF Owned, WorkerCurrent
    <2>2. \A h \in Handler : HandlerCurrent(h)'
      BY <1>2, HandlerKept DEF Owned, HandlerCurrent
    <2>3. Fresh'
      BY <1>2 DEF Owned, Fresh, Blank, New
    <2> QED
      BY <2>1, <2>2, <2>3 DEF Owned
  <1> QED
    BY <1>1, <1>2

\* The row a busy worker may write.
LEMMA MyRow ==
  ASSUME TypeOK, Owned, NEW o \in Origin, Busy(o)
  PROVE  /\ worker[o].job \in Job /\ row[worker[o].job] = worker[o].copy
         /\ worker[o].copy.st = "running" /\ worker[o].copy.want.origin = o
         /\ worker[o].copy \in Row
  BY DEF Owned, WorkerCurrent, TypeOK, WorkerState

\* Moving on with the same copy, and with the copy just written.
LEMMA OwnedGoto ==
  ASSUME TypeOK, Owned, NEW o \in Origin, Busy(o), NEW pc, NEW err,
         Goto(o, pc, worker[o].copy, err), UNCHANGED <<row, created, handler>>
  PROVE  Owned'
  <1>1. \A p \in Origin : p # o => worker'[p] = worker[p]
    BY DEF Goto, TypeOK
  <1>2. worker'[o].job = worker[o].job /\ worker'[o].copy = worker[o].copy
    BY DEF Goto, TypeOK, WorkerState
  <1>3. WorkerCurrent(o)'
    BY <1>2, MyRow DEF WorkerCurrent
  <1> QED
    BY <1>1, <1>3, OwnedByOne

LEMMA OwnedWrite ==
  ASSUME TypeOK, Owned, NEW o \in Origin, Busy(o), NEW pc, NEW err, NEW copy \in Row,
         copy.st = "running", copy.want = worker[o].copy.want,
         Goto(o, pc, copy, err), row' = [row EXCEPT ![worker[o].job] = copy],
         UNCHANGED <<created, handler>>
  PROVE  Owned'
  <1>1. \A p \in Origin : p # o => worker'[p] = worker[p]
    BY DEF Goto, TypeOK
  <1>2. worker'[o].job = worker[o].job /\ worker'[o].copy = copy
    BY DEF Goto, TypeOK, WorkerState
  <1>3. row'[worker[o].job] = copy
    BY MyRow DEF TypeOK
  <1>4. WorkerCurrent(o)'
    BY <1>2, <1>3, MyRow DEF WorkerCurrent
  <1>5. \A j \in Job : j # worker[o].job => row'[j] = row[j]
    BY DEF TypeOK
  <1> QED
    BY <1>1, <1>4, <1>5, MyRow, OwnedByOne

LEMMA OwnedUpdate ==
  ASSUME TypeOK, Owned, NEW o \in Origin, Busy(o), NEW pc, Update(o, worker[o].copy, pc),
         UNCHANGED <<created, handler>>
  PROVE  Owned'
  BY MyRow, OwnedWrite, OwnedGoto DEF Update

LEMMA OwnedFail ==
  ASSUME TypeOK, Owned, NEW o \in Origin, Busy(o), NEW err, Fail(o, err),
         UNCHANGED <<created, handler>>
  PROVE  Owned'
  BY OwnedGoto DEF Fail

LEMMA OwnedWorker ==
  ASSUME TypeOK, Owned, NEW o \in Origin, WorkerStep(o) \/ Leave(o)
  PROVE  Owned'
  <1>1. CASE ClaimNext(o)
    <2>1. \A p \in Origin : p # o => worker'[p] = worker[p]
      BY <1>1 DEF ClaimNext, TypeOK
    <2>2. ASSUME NEW j \in Queued(o), row' = [row EXCEPT ![j].st = "running"],
                 worker' = [worker EXCEPT ![o] =
                   [pc |-> "lookup", job |-> j, copy |-> [row[j] EXCEPT !.st = "running"],
                    err |-> "none"]]
          PROVE  Owned'
      <3>1. j \in Job /\ row[j].st = "queued" /\ row[j].want.origin = o /\ row[j] \in Row
        BY DEF Queued, TypeOK
      <3>2. /\ worker'[o].job = j
            /\ worker'[o].copy = [row[j] EXCEPT !.st = "running"]
            /\ row'[j] = [row[j] EXCEPT !.st = "running"]
        BY <2>2, <3>1 DEF TypeOK
      <3>3. WorkerCurrent(o)'
        BY <3>1, <3>2 DEF WorkerCurrent, Row
      <3>4. \A k \in Job : k # j => row'[k] = row[k]
        BY <2>2 DEF TypeOK
      <3>5. UNCHANGED <<created, handler>>
        BY <1>1 DEF ClaimNext
      <3> QED
        BY <2>1, <3>1, <3>3, <3>4, <3>5, OwnedByOne
    <2>3. ASSUME worker' = [worker EXCEPT ![o].pc = "wait"], UNCHANGED row PROVE Owned'
      <3>1. WorkerCurrent(o)'
        BY <2>3 DEF WorkerCurrent, Busy, Stages, TypeOK, WorkerState
      <3> QED
        BY <1>1, <2>1, <2>3, <3>1, OwnedByOne DEF ClaimNext
    <2> QED
      BY <1>1, <2>2, <2>3 DEF ClaimNext
  <1>2. CASE Wake(o) \/ Leave(o)
    <2>1. \A p \in Origin : p # o => worker'[p] = worker[p]
      BY <1>2 DEF Wake, Leave, TypeOK
    <2>2. WorkerCurrent(o)'
      BY <1>2 DEF Wake, Leave, WorkerCurrent, Busy, Stages, TypeOK, WorkerState
    <2> QED
      BY <1>2, <2>1, <2>2, OwnedByOne DEF Wake, Leave
  <1>3. CASE Lookup(o)
    <2>1. Busy(o) /\ UNCHANGED <<created, handler>>
      BY <1>3 DEF Lookup, Busy, Stages
    <2> QED
      BY <1>3, <2>1, OwnedUpdate, OwnedFail, OwnedGoto DEF Lookup
  <1>4. CASE Download(o)
    <2>1. Busy(o) /\ UNCHANGED <<created, handler>>
      BY <1>4 DEF Download, Busy, Stages
    <2> QED
      BY <1>4, <2>1, OwnedUpdate, OwnedFail, OwnedGoto DEF Download, Killed
  <1>5. CASE Import(o)
    <2>1. Busy(o) /\ UNCHANGED <<created, handler>>
      BY <1>5 DEF Import, Busy, Stages
    <2> QED
      BY <1>5, <2>1, OwnedFail, OwnedGoto DEF Import, Killed
  <1>6. CASE ScanAndResolve(o)
    <2>1. Busy(o) /\ UNCHANGED <<created, handler>>
      BY <1>6 DEF ScanAndResolve, Busy, Stages
    <2> DEFINE match == [worker[o].copy EXCEPT !.file = "yes"]
    <2>2. match \in Row /\ match.st = "running" /\ match.want = worker[o].copy.want
      BY <2>1, MyRow DEF Row
    <2>3. CASE Goto(o, "settle", worker[o].copy, "none") /\ UNCHANGED row
      BY <2>1, <2>3, OwnedGoto
    <2>4. CASE Goto(o, "settle", match, "none") /\ row' = [row EXCEPT ![worker[o].job] = match]
      <3> HIDE DEF match
      <3> QED
        BY <2>1, <2>2, <2>4, OwnedWrite
    <2> QED
      BY <1>6, <2>3, <2>4 DEF ScanAndResolve
  <1>7. CASE Settle(o)
    <2>1. Busy(o) /\ UNCHANGED <<created, handler>>
      BY <1>7 DEF Settle, Busy, Stages
    <2>2. \A p \in Origin : p # o => worker'[p] = worker[p]
      BY <1>7 DEF Settle, TypeOK
    <2>3. WorkerCurrent(o)'
      BY <1>7 DEF Settle, WorkerCurrent, Busy, Stages, Idle, TypeOK
    <2>4. \A j \in Job : j # worker[o].job => row'[j] = row[j]
      BY <1>7 DEF Settle, TypeOK
    <2> QED
      BY <2>1, <2>2, <2>3, <2>4, MyRow, OwnedByOne
  <1> QED
    BY <1>1, <1>2, <1>3, <1>4, <1>5, <1>6, <1>7 DEF WorkerStep

LEMMA OwnedStep == TypeOK /\ Owned /\ [Next]_vars => Owned'
  <1> SUFFICES ASSUME TypeOK, Owned, [Next]_vars PROVE Owned'
    OBVIOUS
  <1>1. ASSUME NEW r \in Requests, CreateDownload(r) PROVE Owned'
    BY <1>1, OwnedRequest DEF CreateDownload
  <1>2. CASE Start
    <2>1. \A o \in Origin : WorkerCurrent(o)'
      BY <1>2 DEF Start, WorkerCurrent, Busy, Stages, Idle
    <2>2. \A j \in Job : row[j].st # "running" => row'[j] = row[j]
      BY <1>2 DEF Start, RequeueRunning
    <2>3. \A h \in Handler : HandlerCurrent(h)'
      BY <1>2, <2>2 DEF Start, Owned, HandlerCurrent
    <2>4. Fresh'
      BY <1>2, <2>2 DEF Start, Owned, Fresh, Blank, New
    <2> QED
      BY <2>1, <2>3, <2>4 DEF Owned
  <1>3. CASE Stop
    BY <1>3 DEF Stop, Owned, WorkerCurrent, HandlerCurrent, Fresh, Busy
  <1>4. CASE Die
    BY <1>4 DEF Die, Owned, WorkerCurrent, HandlerCurrent, Fresh, Busy, Stages, Idle, NoRequest
  <1>5. CASE LibraryScanned
    BY <1>5 DEF LibraryScanned, Owned, WorkerCurrent, HandlerCurrent, Fresh, Busy
  <1>6. CASE UNCHANGED vars
    BY <1>6 DEF vars, Owned, WorkerCurrent, HandlerCurrent, Fresh, Busy
  <1> QED
    BY <1>1, <1>2, <1>3, <1>4, <1>5, <1>6, OwnedHandler, OwnedWorker DEF Next

\* Owned is invariant: with DownloadsTyped, the fact the theorems below rest on.
THEOREM RowsOwned == Spec => []Owned
  BY TypeInit, TypeStep, OwnedInit, OwnedStep, PTL DEF Spec

\* A job being processed is running in the table and no other worker has it.
\* The other worker's job is of the other origin.
THEOREM ClaimsExclusive == Spec => []ExclusiveClaim
  <1>1. Owned => ExclusiveClaim
    BY DEF Owned, WorkerCurrent, ExclusiveClaim
  <1> QED
    BY <1>1, RowsOwned, PTL

-----------------------------------------------------------------------------
(* What a step does to the table *)

\* The status and request of every row stay, and no priority falls.
Rewritten ==
    /\ \A j \in Job : /\ row'[j].st = row[j].st /\ row'[j].want = row[j].want
                      /\ row'[j].prio >= row[j].prio
    /\ byPlay' = byPlay

\* A request inserts a row, and a play request only where none is active.
Inserted ==
    \E r \in Requests : Insert(r) /\ (r.play = "yes" => Active(r.user, r.song) = {})

\* A worker claims a queued job, or ends with or releases a running one.
Moved(j) ==
    /\ \/ row[j].st = "queued" /\ row'[j].st = "running"
       \/ row[j].st = "running" /\ row'[j].st \in {"queued", "success", "failed"}
    /\ row'[j].want = row[j].want /\ row'[j].prio = row[j].prio
    /\ \A k \in Job : k # j => row'[k] = row[k]
    /\ byPlay' = byPlay

Requeued == row' = RequeueRunning /\ byPlay' = byPlay

TableStep == Rewritten \/ Inserted \/ (\E j \in Job : Moved(j)) \/ Requeued

\* A step that writes no row.
LEMMA NotWritten ==
  ASSUME TypeOK, UNCHANGED <<row, byPlay>>
  PROVE  Rewritten
  <1>1. \A j \in Job : row[j].prio \in Nat
    BY DEF TypeOK, Row
  <1> QED
    BY <1>1 DEF Rewritten

LEMMA ReuseRewrites ==
  ASSUME TypeOK, NEW r \in Requests, Reuse(r)
  PROVE  Rewritten
  <1> PICK j \in Job : row' = Promoted(j) /\ UNCHANGED <<created, byPlay, faults>>
    BY DEF Reuse
  <1>1. \A k \in Job : row[k] \in Row
    BY DEF TypeOK
  <1>2. \A k \in Job : k # j => row'[k] = row[k]
    BY DEF Promoted, TypeOK
  <1>3. /\ row'[j].st = row[j].st /\ row'[j].want = row[j].want
        /\ row'[j].prio >= row[j].prio
    BY <1>1 DEF Promoted, Raised, PlayNow, TypeOK, Row
  <1> QED
    BY <1>1, <1>2, <1>3 DEF Rewritten, Row

\* A row is written with the status, request and priority it has.
LEMMA OneRewritten ==
  ASSUME TypeOK, NEW j \in Job, NEW new \in Row, row' = [row EXCEPT ![j] = new],
         new.st = row[j].st, new.want = row[j].want, new.prio = row[j].prio,
         byPlay' = byPlay
  PROVE  Rewritten
  BY DEF TypeOK, Row, Rewritten

LEMMA TableHandler ==
  ASSUME TypeOK, Owned, NEW h \in Handler,
         \/ \E r \in Requests : PlayDownload(h, r)
         \/ CreatePlayJob(h) \/ ResolveOnGet(h)
         \/ \E j \in Job : GetDownload(h, j)
  PROVE  Rewritten \/ Inserted
  <1>1. ASSUME NEW r \in Requests, PlayDownload(h, r) PROVE Rewritten
    BY <1>1, ReuseRewrites, NotWritten DEF PlayDownload
  <1>2. CASE CreatePlayJob(h)
    <2>1. handler[h].want \in Requests
      BY DEF TypeOK, HandlerState
    <2>2. CASE FindOrCreatePlay(handler[h].want)
      BY <2>1, <2>2, ReuseRewrites DEF FindOrCreatePlay, Inserted
    <2>3. CASE UNCHANGED <<row, created, byPlay, wake, faults>>
      BY <2>3, NotWritten
    <2> QED
      BY <1>2, <2>2, <2>3 DEF CreatePlayJob
  <1>3. CASE ResolveOnGet(h)
    <2>1. CASE UNCHANGED row
      BY <1>3, <2>1, NotWritten DEF ResolveOnGet
    <2>2. CASE row' = [row EXCEPT ![handler[h].job] = [handler[h].copy EXCEPT !.file = "yes"]]
      <3> DEFINE new == [handler[h].copy EXCEPT !.file = "yes"]
      <3>1. handler[h].copy \in Row
        BY DEF TypeOK, HandlerState
      <3>2. /\ new \in Row /\ new.st = handler[h].copy.st
            /\ new.want = handler[h].copy.want /\ new.prio = handler[h].copy.prio
        BY <3>1 DEF Row
      <3>3. HandlerCurrent(h) /\ handler[h].pc = "resolve" /\ byPlay' = byPlay
        BY <1>3 DEF ResolveOnGet, Owned
      <3> HIDE DEF new
      <3> QED
        BY <2>2, <3>2, <3>3, OneRewritten DEF HandlerCurrent, new
    <2> QED
      BY <1>3, <2>1, <2>2 DEF ResolveOnGet
  <1>4. ASSUME NEW j \in Job, GetDownload(h, j) PROVE Rewritten
    BY <1>4, NotWritten DEF GetDownload
  <1> QED
    BY <1>1, <1>2, <1>3, <1>4

\* The writes of processDownload leave the row running and as it was requested.
LEMMA TableUpdate ==
  ASSUME TypeOK, Owned, NEW o \in Origin, Busy(o), NEW pc, byPlay' = byPlay,
         Update(o, worker[o].copy, pc)
  PROVE  Rewritten
  <1>1. CASE UNCHANGED row
    BY <1>1, NotWritten
  <1>2. CASE row' = [row EXCEPT ![worker[o].job] = worker[o].copy]
    BY <1>2, MyRow, OneRewritten
  <1> QED
    BY <1>1, <1>2 DEF Update

LEMMA TableWorker ==
  ASSUME TypeOK, Owned, NEW o \in Origin, WorkerStep(o) \/ Leave(o)
  PROVE  Rewritten \/ \E j \in Job : Moved(j)
  <1>1. CASE ClaimNext(o)
    <2>1. ASSUME NEW j \in Queued(o), row' = [row EXCEPT ![j].st = "running"] PROVE Moved(j)
      <3>1. j \in Job /\ row[j].st = "queued" /\ row[j] \in Row
        BY DEF Queued, TypeOK
      <3> QED
        BY <1>1, <2>1, <3>1 DEF ClaimNext, Moved, TypeOK, Row
    <2>2. CASE UNCHANGED row
      BY <1>1, <2>2, NotWritten DEF ClaimNext
    <2> QED
      BY <1>1, <2>1, <2>2 DEF ClaimNext, Queued
  <1>2. CASE Wake(o) \/ Leave(o) \/ Import(o)
    BY <1>2, NotWritten DEF Wake, Leave, Import, Fail, Killed
  <1>3. CASE Lookup(o)
    <2>1. Busy(o) /\ byPlay' = byPlay
      BY <1>3 DEF Lookup, Busy, Stages
    <2> QED
      BY <1>3, <2>1, TableUpdate, NotWritten DEF Lookup, Fail
  <1>4. CASE Download(o)
    <2>1. Busy(o) /\ byPlay' = byPlay
      BY <1>4 DEF Download, Busy, Stages
    <2> QED
      BY <1>4, <2>1, TableUpdate, NotWritten DEF Download, Fail, Killed
  <1>5. CASE ScanAndResolve(o)
    <2>1. Busy(o) /\ byPlay' = byPlay
      BY <1>5 DEF ScanAndResolve, Busy, Stages
    <2> DEFINE match == [worker[o].copy EXCEPT !.file = "yes"]
    <2>2. /\ match \in Row /\ match.st = worker[o].copy.st
          /\ match.want = worker[o].copy.want /\ match.prio = worker[o].copy.prio
      BY <2>1, MyRow DEF Row
    <2>3. row' = row \/ row' = [row EXCEPT ![worker[o].job] = match]
      BY <1>5 DEF ScanAndResolve
    <2> HIDE DEF match
    <2> QED
      BY <2>1, <2>2, <2>3, MyRow, OneRewritten, NotWritten
  <1>6. CASE Settle(o)
    <2>1. Busy(o) /\ byPlay' = byPlay
      BY <1>6 DEF Settle, Busy, Stages
    <2>2. CASE UNCHANGED row
      BY <2>1, <2>2, NotWritten
    <2>3. CASE row' = [row EXCEPT ![worker[o].job] =
                         [worker[o].copy EXCEPT !.st = Outcome(worker[o].err)]]
      <3>1. Outcome(worker[o].err) \in {"queued", "success", "failed"}
        BY DEF Outcome
      <3>2. Moved(worker[o].job)
        BY <2>1, <2>3, <3>1, MyRow DEF Moved, TypeOK, Row
      <3> QED
        BY <2>1, <3>2, MyRow
    <2> QED
      BY <1>6, <2>2, <2>3 DEF Settle
  <1> QED
    BY <1>1, <1>2, <1>3, <1>4, <1>5, <1>6 DEF WorkerStep

LEMMA TableNext == TypeOK /\ Owned /\ [Next]_vars => TableStep
  <1> SUFFICES ASSUME TypeOK, Owned, [Next]_vars PROVE TableStep
    OBVIOUS
  <1>1. ASSUME NEW r \in Requests, CreateDownload(r) PROVE Inserted
    BY <1>1 DEF CreateDownload, Inserted
  <1>2. CASE Start
    BY <1>2, NotWritten DEF Start, TableStep, Requeued
  <1>3. CASE Stop \/ Die \/ LibraryScanned \/ UNCHANGED vars
    BY <1>3, NotWritten DEF Stop, Die, LibraryScanned, vars, TableStep
  <1> QED
    BY <1>1, <1>2, <1>3, TableHandler, TableWorker DEF Next, TableStep

-----------------------------------------------------------------------------
(* Priorities *)

\* Nothing lowers a priority, in particular no whole-row write by a worker or
\* a GET that copied the row before a play request promoted it.
THEOREM PrioritiesKept == Spec => PriorityKept
  <1>1. ASSUME TypeOK, Owned, [Next]_vars PROVE \A j \in Job : row'[j].prio >= row[j].prio
    <2>1. \A j \in Job : row[j] \in Row /\ row[j].prio \in Nat
      BY <1>1 DEF TypeOK, Row
    <2>2. CASE Rewritten
      BY <2>2 DEF Rewritten
    <2>3. CASE Inserted
      <3> PICK r \in Requests : Insert(r)
        BY <2>3 DEF Inserted
      <3>1. created + 1 \in Job /\ row[created + 1].prio = 0
        <4>1. created + 1 \in Job /\ row[created + 1] = Blank
          BY <1>1, BoundAssumption DEF Insert, TypeOK, Owned, Fresh, Job
        <4>2. Blank.prio = 0
          BY DEF Blank, New
        <4> QED
          BY <4>1, <4>2
      <3>2. New(r, "queued").prio \in Nat
        BY Values DEF Row
      <3>3. \A j \in Job : row'[j] = IF j = created + 1 THEN New(r, "queued") ELSE row[j]
        BY <1>1 DEF Insert, TypeOK
      <3> QED
        BY <2>1, <3>1, <3>2, <3>3
    <2>4. ASSUME NEW j \in Job, Moved(j) PROVE \A k \in Job : row'[k].prio >= row[k].prio
      BY <2>1, <2>4 DEF Moved
    <2>5. CASE Requeued
      BY <2>1, <2>5 DEF Requeued, RequeueRunning, Row
    <2> QED
      BY <1>1, <2>2, <2>3, <2>4, <2>5, TableNext DEF TableStep
  <1> QED
    BY <1>1, DownloadsTyped, RowsOwned, PTL DEF Spec, PriorityKept

-----------------------------------------------------------------------------
(* One play job *)

\* No step but an insertion makes a row active for a user and a song.
LEMMA ActiveShrinks ==
  ASSUME TypeOK, Rewritten \/ (\E j \in Job : Moved(j)) \/ Requeued, NEW u, NEW s
  PROVE  Active(u, s)' \subseteq Active(u, s)
  <1>1. CASE Rewritten
    BY <1>1 DEF Rewritten, Active
  <1>2. ASSUME NEW j \in Job, Moved(j) PROVE Active(u, s)' \subseteq Active(u, s)
    BY <1>2 DEF Moved, Active
  <1>3. CASE Requeued
    <2>1. \A j \in Job : row'[j] = IF row[j].st = "running" THEN [row[j] EXCEPT !.st = "queued"] ELSE row[j]
      BY <1>3 DEF Requeued, RequeueRunning
    <2>2. \A j \in Job : row[j] \in Row
      BY DEF TypeOK
    <2> QED
      BY <2>1, <2>2 DEF Active, Row
  <1> QED
    BY <1>1, <1>2, <1>3

LEMMA OnePlayStep == TypeOK /\ Owned /\ OnePlayJob /\ [Next]_vars => OnePlayJob'
  <1> SUFFICES ASSUME TypeOK, Owned, OnePlayJob, TableStep PROVE OnePlayJob'
    BY TableNext
  <1>1. CASE Rewritten \/ (\E j \in Job : Moved(j)) \/ Requeued
    <2>1. byPlay' = byPlay
      BY <1>1 DEF Rewritten, Moved, Requeued
    <2>2. \A r \in Requests : Active(r.user, r.song)' \subseteq Active(r.user, r.song)
      BY <1>1, ActiveShrinks
    <2> QED
      BY <2>1, <2>2 DEF OnePlayJob
  <1>2. CASE Inserted
    <2> PICK r \in Requests : Insert(r) /\ (r.play = "yes" => Active(r.user, r.song) = {})
      BY <1>2 DEF Inserted
    <2>1. created + 1 \in Job /\ created + 1 \notin byPlay
      BY BoundAssumption DEF Insert, TypeOK, Job
    <2>2. \A j \in Job : j # created + 1 => row'[j] = row[j]
      BY DEF Insert, TypeOK
    <2>3. row'[created + 1] = New(r, "queued")
      BY <2>1 DEF Insert, TypeOK
    <2>4. \A j \in Job : j # created + 1 =>
              \A q \in Requests : j \in Active(q.user, q.song)' => j \in Active(q.user, q.song)
      BY <2>2 DEF Active
    <2>5. \A q \in Requests : created + 1 \in Active(q.user, q.song)' =>
              q.user = r.user /\ q.song = r.song
      BY <2>3 DEF Active, New
    <2>6. byPlay \subseteq Job
      BY BoundAssumption DEF TypeOK, Job
    <2>7. CASE r.play = "yes"
      <3>1. byPlay' = byPlay \cup {created + 1} /\ Active(r.user, r.song) = {}
        BY <2>7 DEF Insert
      <3> QED
        BY <2>1, <2>4, <2>5, <2>6, <3>1 DEF OnePlayJob
    <2>8. CASE r.play # "yes"
      <3>1. byPlay' = byPlay
        BY <2>8 DEF Insert
      <3> QED
        BY <2>1, <2>4, <2>6, <3>1 DEF OnePlayJob
    <2> QED
      BY <2>7, <2>8
  <1> QED
    BY <1>1, <1>2 DEF TableStep

\* FindOrCreatePlay serialises interactive requests: at most one job that play
\* requests of a user have created for a song is active.
THEOREM OnePlayJobEver == Spec => []OnePlayJob
  <1>1. Init => OnePlayJob
    BY DEF Init, OnePlayJob
  <1> QED
    BY <1>1, TypeInit, TypeStep, OwnedInit, OwnedStep, OnePlayStep, PTL DEF Spec

-----------------------------------------------------------------------------
(* Refinement *)

\* The table implements the job life cycle: an insertion submits, a claim
\* claims, the end of process finishes or releases one job, recovery releases
\* every running one, and nothing else changes the phase of any.
THEOREM LifecycleImplemented == Spec => DownloadLifecycle
  <1> DEFINE phase == [j \in Job |-> CASE row[j].st = "queued"  -> "pending"
                                       [] row[j].st = "success" -> "completed"
                                       [] OTHER                 -> row[j].st]
  <1>1. Init => Jobs!Init
    BY DEF Init, Jobs!Init, Blank, New
  <1>2. ASSUME TypeOK, Owned, [Next]_vars PROVE [Jobs!Next]_phase
    <2>1. CASE Rewritten
      BY <2>1 DEF Rewritten
    <2>2. ASSUME Inserted PROVE Jobs!Next
      <3> PICK r \in Requests : Insert(r)
        BY <2>2 DEF Inserted
      <3>1. created + 1 \in Job /\ row[created + 1].st = "none"
        BY <1>2, BoundAssumption DEF Insert, TypeOK, Owned, Fresh, Job, Blank, New
      <3>2. \A j \in Job : row'[j] = IF j = created + 1 THEN New(r, "queued") ELSE row[j]
        BY <1>2 DEF Insert, TypeOK
      <3>3. New(r, "queued").st = "queued"
        BY DEF New
      <3>4. PICK j \in Job : j = created + 1
        BY <3>1
      <3>5. Jobs!Submit(j)
        BY <3>1, <3>2, <3>3, <3>4 DEF Jobs!Submit, Jobs!Move
      <3> QED
        BY <3>5 DEF Jobs!Next
    <2>3. ASSUME NEW j \in Job, Moved(j) PROVE Jobs!Next
      <3>1. CASE row[j].st = "queued" /\ row'[j].st = "running"
        <4>1. Jobs!Claim(j)
          BY <2>3, <3>1 DEF Moved, Jobs!Claim, Jobs!Move
        <4> QED
          BY <4>1 DEF Jobs!Next
      <3>2. CASE row[j].st = "running" /\ row'[j].st \in {"success", "failed"}
        <4>1. CASE row'[j].st = "success"
          <5>1. Jobs!Move({j}, "running", "completed")
            BY <2>3, <3>2, <4>1 DEF Moved, Jobs!Move
          <5> QED
            BY <5>1 DEF Jobs!Next, Jobs!Finish
        <4>2. CASE row'[j].st = "failed"
          <5>1. Jobs!Move({j}, "running", "failed")
            BY <2>3, <3>2, <4>2 DEF Moved, Jobs!Move
          <5> QED
            BY <5>1 DEF Jobs!Next, Jobs!Finish
        <4> QED
          BY <3>2, <4>1, <4>2
      <3>3. CASE row[j].st = "running" /\ row'[j].st = "queued"
        <4>1. Jobs!Release({j})
          BY <2>3, <3>3 DEF Moved, Jobs!Release, Jobs!Move
        <4> QED
          BY <4>1 DEF Jobs!Next
      <3> QED
        BY <2>3, <3>1, <3>2, <3>3 DEF Moved
    <2>4. ASSUME Requeued PROVE Jobs!Next
      <3> PICK S \in SUBSET Job : S = {j \in Job : row[j].st = "running"}
        OBVIOUS
      <3>1. \A j \in Job : row'[j].st = IF j \in S THEN "queued" ELSE row[j].st
        BY <1>2, <2>4 DEF Requeued, RequeueRunning, TypeOK, Row
      <3>2. Jobs!Release(S)
        BY <3>1 DEF Jobs!Release, Jobs!Move
      <3> QED
        BY <3>2 DEF Jobs!Next
    <2> QED
      BY <1>2, <2>1, <2>2, <2>3, <2>4, TableNext DEF TableStep
  <1> QED
    BY <1>1, <1>2, DownloadsTyped, RowsOwned, PTL DEF Spec, DownloadLifecycle, Jobs!Spec
=============================================================================
