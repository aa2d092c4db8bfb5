------------------------ MODULE RadioDiscoveryProofs ------------------------
(***************************************************************************)
(* Proofs about RadioDiscovery, for any sets of tracks, items, requests    *)
(* and deletions, and any bounds.                                          *)
(***************************************************************************)
EXTENDS RadioDiscovery, FiniteSetTheorems, TLAPS

WorkerState == [pc : {"idle", "check", "remove", "write"}, todo : SUBSET Track,
                at : SUBSET Track, copy : [Track -> Row]]

-----------------------------------------------------------------------------
(* What a request does *)

\* The parts of a Feedback step: the outcome it gives the item, in a set, what
\* has been heard of the item, and the outcome the item has afterwards.
Heard(e) == IF "long" \in {item[e.item].heard, e.heard} THEN "long" ELSE "short"
Given(e) == NewOutcome(e, item[e.item].out, Heard(e))
After(e) == IF Given(e) = {} THEN item[e.item].out ELSE CHOOSE o \in Given(e) : TRUE

\* The deletion an early skip starts.
SkipWork(t, row) == [NoWork EXCEPT !.pc = "check", !.todo = {t}, !.copy[t] = row]

LEMMA EventFields ==
  ASSUME NEW e \in Event
  PROVE  e.item \in Item /\ e.kind \in Kind /\ e.heard \in {"short", "long"}
         /\ TrackOf[e.item] \in Track
  BY EventAssumption, TrackAssumption DEF EventType

LEMMA AfterGiven ==
  ASSUME NEW e \in Event, Given(e) # {}
  PROVE  After(e) \in Given(e)
  BY DEF After

LEMMA GivenOutcomes ==
  ASSUME NEW e \in Event
  PROVE  Given(e) \subseteq Outcome
  BY DEF Given, NewOutcome, Outcome

LEMMA FeedbackParts ==
  ASSUME NEW e \in Event, NEW t, t = TrackOf[e.item], Feedback(e)
  PROVE  /\ ~Recorded(e) /\ disc[t].st # "none"
         /\ item' = [item EXCEPT ![e.item] = [out |-> After(e), heard |-> Heard(e)]]
         /\ disc' = [disc EXCEPT ![t] = Judged(e, disc[t], Given(e) # {}, After(e))]
         /\ Record(e, t)
         /\ \/ UNCHANGED worker
            \/ \E w \in Remover :
                 /\ worker[w].pc = "idle"
                 /\ worker' = [worker EXCEPT ![w] = SkipWork(t, disc'[t])]
         /\ UNCHANGED <<starred, file, faults, crashes, downloads, everStarred>>
         /\ NoteRaces
  BY DEF Feedback, Heard, Given, After, SkipWork

\* The values written to a row are rows.
LEMMA Rows ==
  ASSUME NEW row \in Row
  PROVE  /\ row.starts \in Nat /\ row.st \in State /\ row.due \in {"never", "later", "past"}
         /\ row = [st |-> row.st, starts |-> row.starts, due |-> row.due]
  BY DEF Row

LEMMA KeptRow ==
  ASSUME NEW row \in Row
  PROVE  Kept(row) \in Row /\ Kept(row).st = "kept" /\ Kept(row).starts = row.starts
  <1>1. Kept(row) \in Row
    BY DEF Kept, Row, State
  <1>2. Kept(row).st = "kept"
    BY DEF Kept, Row
  <1>3. Kept(row).starts = row.starts
    BY DEF Kept, Row
  <1> QED
    BY <1>1, <1>2, <1>3

\* A judged row: starts are counted, and it is kept for a second start or when
\* a request other than a start was applied and is no early skip.
LEMMA JudgedRow ==
  ASSUME NEW e \in Event, NEW row \in Row, NEW applied \in BOOLEAN, NEW out
  PROVE  LET new == Judged(e, row, applied, out) IN
         /\ new \in Row
         /\ new.starts = IF e.kind = "started" THEN row.starts + 1 ELSE row.starts
         /\ new.st = "kept" => \/ row.st = "kept"
                               \/ e.kind = "started" /\ row.starts + 1 > 1
                               \/ e.kind # "started" /\ applied /\ out # "early_skip"
  <1>0. /\ row.starts \in Nat /\ row.st \in State /\ row.due \in {"never", "later", "past"}
        /\ row = [st |-> row.st, starts |-> row.starts, due |-> row.due]
    BY Rows
  <1>1. CASE e.kind = "started" /\ row.starts + 1 > 1
    <2> DEFINE more == [row EXCEPT !.starts = row.starts + 1]
    <2>2. more \in Row /\ more.starts = row.starts + 1
      BY <1>0 DEF Row
    <2>3. Judged(e, row, applied, out) = Kept(more)
      BY <1>1 DEF Judged
    <2> HIDE DEF more
    <2>4. Kept(more) \in Row /\ Kept(more).starts = row.starts + 1
      BY <2>2, KeptRow
    <2> QED
      BY <1>1, <2>3, <2>4
  <1>2. CASE e.kind = "started" /\ ~(row.starts + 1 > 1)
    <2>1. Judged(e, row, applied, out) = [row EXCEPT !.starts = row.starts + 1]
      BY <1>2 DEF Judged
    <2>2. Judged(e, row, applied, out) = [st |-> row.st, starts |-> row.starts + 1, due |-> row.due]
      BY <1>0, <2>1
    <2> QED
      BY <1>0, <1>2, <2>2 DEF Row
  <1>3. CASE e.kind # "started" /\ applied /\ out = "early_skip"
    <2>1. Judged(e, row, applied, out) = [row EXCEPT !.st = "delete_pending"]
      BY <1>3 DEF Judged
    <2>2. Judged(e, row, applied, out) = [st |-> "delete_pending", starts |-> row.starts, due |-> row.due]
      BY <1>0, <2>1
    <2>3. /\ Judged(e, row, applied, out) \in Row
          /\ Judged(e, row, applied, out).starts = row.starts
          /\ Judged(e, row, applied, out).st # "kept"
      BY <1>0, <2>2 DEF Row, State
    <2> QED
      BY <1>3, <2>3
  <1>4. CASE e.kind # "started" /\ applied /\ out # "early_skip"
    <2>1. Judged(e, row, applied, out) = Kept(row)
      BY <1>4 DEF Judged
    <2> QED
      BY <1>4, <2>1, KeptRow
  <1>5. CASE e.kind # "started" /\ ~applied
    <2>1. Judged(e, row, applied, out) = row
      BY <1>5 DEF Judged
    <2> QED
      BY <1>5, <2>1
  <1> QED
    BY <1>1, <1>2, <1>3, <1>4, <1>5

-----------------------------------------------------------------------------
(* Type correctness *)

LEMMA NoWorkTyped ==
  /\ NoRow \in Row /\ NoWork \in WorkerState
  /\ NoWork.pc = "idle" /\ NoWork.at = {} /\ NoWork.copy = [t \in Track |-> NoRow]
  <1>1. NoRow \in Row
    BY DEF NoRow, Row, State
  <1> QED
    BY <1>1 DEF NoWork, WorkerState

LEMMA TypeInit == Init => TypeOK
  BY NoWorkTyped, BoundAssumption DEF Init, TypeOK, Outcome, WorkerState

\* The worker of an early skip, and the one that comes back from a deletion.
LEMMA SkipWorker ==
  ASSUME NEW t \in Track, NEW row \in Row
  PROVE  /\ SkipWork(t, row) \in WorkerState
         /\ SkipWork(t, row).pc = "check"
         /\ SkipWork(t, row).copy[t] = row
         /\ \A u \in Track : u # t => SkipWork(t, row).copy[u] = NoRow
  BY NoWorkTyped DEF NoWork, WorkerState, SkipWork

LEMMA ReturnedWorker ==
  ASSUME TypeOK, NEW w \in Worker, NEW t \in Track, Returned(w, t)
  PROVE  /\ worker' \in [Worker -> WorkerState]
         /\ \A v \in Worker : v # w => worker'[v] = worker[v]
         /\ worker'[w].pc \in {"idle", "check"}
         /\ worker'[w].copy \in {worker[w].copy, NoWork.copy}
  <1>1. worker \in [Worker -> WorkerState] /\ worker[w] \in WorkerState
    BY DEF TypeOK, WorkerState
  <1>2. CASE worker[w].todo = {t}
    <2>1. worker' = [worker EXCEPT ![w] = NoWork]
      BY <1>2 DEF Returned
    <2> QED
      BY <1>1, <2>1, NoWorkTyped
  <1>3. CASE worker[w].todo # {t}
    <2> DEFINE new == [worker[w] EXCEPT !.pc = "check", !.todo = @ \ {t}, !.at = {}]
    <2>1. worker' = [worker EXCEPT ![w] = new]
      BY <1>3 DEF Returned
    <2>2. new \in WorkerState /\ new.pc = "check" /\ new.copy = worker[w].copy
      BY <1>1 DEF WorkerState
    <2> HIDE DEF new
    <2> QED
      BY <1>1, <2>1, <2>2
  <1> QED
    BY <1>2, <1>3

LEMMA TypeStep == TypeOK /\ [Next]_vars => TypeOK'
  <1> SUFFICES ASSUME TypeOK, [Next]_vars PROVE TypeOK'
    OBVIOUS
  <1>0. worker \in [Worker -> WorkerState]
    BY DEF TypeOK, WorkerState
  <1>a. \A t \in Track : PastCheck(t) \subseteq Worker
    BY DEF PastCheck
  <1>b. NoteRaces => raced' \subseteq Worker
    BY <1>a DEF NoteRaces, TypeOK
  <1>1. ASSUME NEW e \in Event, Feedback(e) PROVE TypeOK'
    <2> PICK t \in Track : t = TrackOf[e.item] /\ e.item \in Item
      BY EventFields
    <2>0. /\ item' = [item EXCEPT ![e.item] = [out |-> After(e), heard |-> Heard(e)]]
          /\ disc' = [disc EXCEPT ![t] = Judged(e, disc[t], Given(e) # {}, After(e))]
          /\ Record(e, t)
          /\ \/ UNCHANGED worker
             \/ \E w \in Remover : worker' = [worker EXCEPT ![w] = SkipWork(t, disc'[t])]
          /\ UNCHANGED <<starred, file, faults, crashes, downloads, everStarred>>
          /\ NoteRaces
      BY <1>1, FeedbackParts
    <2>1. After(e) \in Outcome /\ Heard(e) \in {"short", "long"}
      BY AfterGiven, GivenOutcomes DEF After, Heard, TypeOK
    <2>2. item' \in [Item -> [out : Outcome, heard : {"short", "long"}]]
      BY <2>0, <2>1 DEF TypeOK
    <2>3. Judged(e, disc[t], Given(e) # {}, After(e)) \in Row
      BY <2>0, JudgedRow DEF TypeOK
    <2>4. disc' \in [Track -> Row] /\ disc'[t] \in Row
      BY <2>0, <2>3 DEF TypeOK
    <2>5. worker' \in [Worker -> WorkerState]
      BY <1>0, <2>0, <2>4, SkipWorker DEF Worker
    <2>6. /\ ledger' \subseteq Event /\ bare' \subseteq Event
          /\ bareStarts' \in [Track -> 0..MaxBare]
      BY <2>0, BoundAssumption DEF Record, TypeOK
    <2> QED
      BY <1>b, <2>0, <2>2, <2>4, <2>5, <2>6 DEF TypeOK, WorkerState
  <1>2. CASE CleanupExpired
    <2>1. [NoWork EXCEPT !.pc = "check", !.todo = {t \in Track : Listed(t)}, !.copy = disc]
             \in WorkerState
      BY NoWorkTyped DEF TypeOK, WorkerState
    <2>2. worker' \in [Worker -> WorkerState]
      BY <1>0, <1>2, <2>1 DEF CleanupExpired, Worker
    <2> QED
      BY <1>2, <2>2 DEF CleanupExpired, TypeOK, WorkerState
  <1>3. CASE Crash
    <2>1. crashes' \in 0..MaxCrashes
      BY <1>3, BoundAssumption DEF Crash, TypeOK
    <2>2. worker' \in [Worker -> WorkerState]
      BY <1>3, NoWorkTyped DEF Crash
    <2> QED
      BY <1>3, <2>1, <2>2 DEF Crash, TypeOK, WorkerState
  <1>4. ASSUME NEW w \in Worker, NEW t \in Track, CheckProtection(w, t) PROVE TypeOK'
    <2>1. worker[w] \in WorkerState
      BY <1>0
    <2>2. worker' \in [Worker -> WorkerState]
      <3>1. CASE Returned(w, t)
        BY <3>1, ReturnedWorker
      <3>2. CASE worker' = [worker EXCEPT ![w] = [@ EXCEPT !.pc = "remove", !.at = {t}]]
        BY <1>0, <2>1, <3>2 DEF WorkerState
      <3> QED
        BY <1>4, <3>1, <3>2 DEF CheckProtection
    <2>3. Kept(worker[w].copy[t]) \in Row
      BY <2>1 DEF WorkerState, Kept, Row, State
    <2>4. disc' \in [Track -> Row] /\ faults' \in 0..MaxFaults
      BY <1>4, <2>3, BoundAssumption DEF CheckProtection, UpdateDiscovery, Fault, TypeOK
    <2> QED
      BY <1>4, <1>b, <2>2, <2>4 DEF CheckProtection, TypeOK, WorkerState
  <1>5. ASSUME NEW w \in Worker, NEW t \in Track, RemoveFile(w, t) PROVE TypeOK'
    <2>1. worker' \in [Worker -> WorkerState]
      <3>1. CASE Returned(w, t)
        BY <3>1, ReturnedWorker
      <3>2. CASE worker' = [worker EXCEPT ![w].pc = "write"]
        BY <1>0, <3>2 DEF WorkerState
      <3> QED
        BY <1>5, <3>1, <3>2 DEF RemoveFile
    <2>2. file' \subseteq Track /\ faults' \in 0..MaxFaults /\ raced' \subseteq Worker
      BY <1>5, BoundAssumption DEF RemoveFile, Fault, TypeOK
    <2> QED
      BY <1>5, <2>1, <2>2 DEF RemoveFile, TypeOK, WorkerState
  <1>6. ASSUME NEW w \in Worker, NEW t \in Track, MarkDeleted(w, t) PROVE TypeOK'
    <2>1. worker' \in [Worker -> WorkerState]
      BY <1>6, ReturnedWorker DEF MarkDeleted
    <2>2. [worker[w].copy[t] EXCEPT !.st = "deleted", !.due = "never"] \in Row
      <3>1. worker[w].copy[t] \in Row
        BY <1>0 DEF WorkerState
      <3> QED
        BY <3>1 DEF Row, State
    <2>3. disc' \in [Track -> Row] /\ faults' \in 0..MaxFaults
      BY <1>6, <2>2, BoundAssumption DEF MarkDeleted, UpdateDiscovery, Fault, TypeOK
    <2> QED
      BY <1>6, <2>1, <2>3 DEF MarkDeleted, TypeOK, WorkerState
  <1>7. ASSUME NEW t \in Track, UpsertDiscovery(t) PROVE TypeOK'
    <2>1. disc' \in [Track -> Row]
      <3>1. [disc[t] EXCEPT !.st = "temporary", !.due = "later"] \in Row
        <4>1. disc[t] \in Row
          BY DEF TypeOK
        <4> QED
          BY <4>1 DEF Row, State
      <3> QED
        BY <1>7, <3>1 DEF UpsertDiscovery, TypeOK
    <2>2. downloads' \in 0..MaxDownloads
      BY <1>7, BoundAssumption DEF UpsertDiscovery, TypeOK
    <2> QED
      BY <1>7, <2>1, <2>2 DEF UpsertDiscovery, TypeOK
  <1>8. ASSUME NEW t \in Track, Star(t) PROVE TypeOK'
    BY <1>8, <1>b DEF Star, TypeOK
  <1>9. ASSUME NEW t \in Track, Unstar(t) \/ Expire(t) PROVE TypeOK'
    <2>1. disc' \in [Track -> Row]
      <3>1. [disc[t] EXCEPT !.due = "past"] \in Row
        <4>1. disc[t] \in Row
          BY DEF TypeOK
        <4> QED
          BY <4>1 DEF Row
      <3> QED
        BY <1>9, <3>1 DEF Unstar, Expire, TypeOK
    <2> QED
      BY <1>9, <2>1 DEF Unstar, Expire, TypeOK
  <1>10. CASE UNCHANGED vars
    BY <1>10 DEF vars, TypeOK
  <1> QED
    BY <1>1, <1>2, <1>3, <1>4, <1>5, <1>6, <1>7, <1>8, <1>9, <1>10 DEF Next, WorkerStep

\* Every variable keeps its type.
THEOREM DiscoveryTyped == Spec => []TypeOK
  BY TypeInit, TypeStep, PTL DEF Spec

-----------------------------------------------------------------------------
(* A protected track is not deleted unnoticed *)

\* A deletion about to remove the file of a protected track passed its check
\* before the track was protected.
RaceNoted ==
    \A w \in Worker, t \in Track :
        worker[w].pc = "remove" /\ t \in worker[w].at /\ Protected(t) => w \in raced

LEMMA RaceInit == Init => RaceNoted
  BY NoWorkTyped DEF Init, RaceNoted

\* A step that protects no track, or notes the deletions it races with, and
\* makes no deletion pass its check.
LEMMA RaceFrame ==
  ASSUME RaceNoted,
         \A w \in Worker : worker'[w] = worker[w] \/ worker'[w].pc # "remove",
         \/ NoteRaces
         \/ UNCHANGED raced /\ \A t \in Track : Protected(t)' => Protected(t)
  PROVE  RaceNoted'
  <1> SUFFICES ASSUME NEW w \in Worker, NEW t \in Track,
                      worker'[w].pc = "remove", t \in worker'[w].at, Protected(t)'
               PROVE  w \in raced'
    BY DEF RaceNoted
  <1>1. worker'[w] = worker[w]
    OBVIOUS
  <1>2. CASE Protected(t)
    <2>1. w \in raced
      BY <1>1, <1>2 DEF RaceNoted
    <2> QED
      BY <2>1 DEF NoteRaces
  <1>3. CASE ~Protected(t)
    <2>1. w \in PastCheck(t)
      BY <1>1 DEF PastCheck
    <2>2. NoteRaces
      BY <1>3
    <2> QED
      BY <1>3, <2>1, <2>2 DEF NoteRaces
  <1> QED
    BY <1>2, <1>3

LEMMA RaceStep == TypeOK /\ RaceNoted /\ [Next]_vars => RaceNoted'
  <1> SUFFICES ASSUME TypeOK, RaceNoted, [Next]_vars PROVE RaceNoted'
    OBVIOUS
  <1>0. worker \in [Worker -> WorkerState]
    BY DEF TypeOK, WorkerState
  <1>1. ASSUME NEW e \in Event, Feedback(e) PROVE RaceNoted'
    <2> PICK t \in Track : t = TrackOf[e.item] /\ e.item \in Item
      BY EventFields
    <2>1. /\ disc' = [disc EXCEPT ![t] = Judged(e, disc[t], Given(e) # {}, After(e))]
          /\ \/ UNCHANGED worker
             \/ \E w \in Remover : worker' = [worker EXCEPT ![w] = SkipWork(t, disc'[t])]
          /\ NoteRaces
      BY <1>1, FeedbackParts
    <2>2. disc'[t] \in Row
      BY <2>1, JudgedRow DEF TypeOK
    <2>3. SkipWork(t, disc'[t]).pc = "check"
      BY <2>2, SkipWorker
    <2>4. \A w \in Worker : worker'[w] = worker[w] \/ worker'[w].pc # "remove"
      BY <1>0, <2>1, <2>3 DEF Worker
    <2> QED
      BY <2>1, <2>4, RaceFrame
  <1>2. CASE CleanupExpired
    <2>1. \A w \in Worker : worker'[w] = worker[w] \/ worker'[w].pc # "remove"
      BY <1>0, <1>2, NoWorkTyped DEF CleanupExpired, WorkerState
    <2> QED
      BY <1>2, <2>1, RaceFrame DEF CleanupExpired, Protected
  <1>3. CASE Crash
    BY <1>3, NoWorkTyped DEF Crash, RaceNoted
  <1>4. ASSUME NEW w \in Worker, NEW t \in Track, CheckProtection(w, t) PROVE RaceNoted'
    <2>1. CASE Returned(w, t)
      <3>1. \A v \in Worker : worker'[v] = worker[v] \/ worker'[v].pc # "remove"
        BY <2>1, ReturnedWorker
      <3> QED
        BY <1>4, <3>1, RaceFrame DEF CheckProtection
    <2>2. CASE /\ ~FoundProtected(t)
               /\ worker' = [worker EXCEPT ![w] = [@ EXCEPT !.pc = "remove", !.at = {t}]]
               /\ UNCHANGED <<disc, faults>>
      <3>1. /\ worker'[w].at = {t}
            /\ \A v \in Worker : v # w => worker'[v] = worker[v]
        BY <1>0, <2>2 DEF WorkerState
      <3>2. \A u \in Track : Protected(u)' <=> Protected(u)
        BY <1>4, <2>2 DEF CheckProtection, Protected
      <3>3. raced \subseteq raced'
        BY <1>4 DEF CheckProtection, NoteRaces
      <3> QED
        BY <2>2, <3>1, <3>2, <3>3 DEF RaceNoted, FoundProtected
    <2> QED
      BY <1>4, <2>1, <2>2 DEF CheckProtection
  <1>5. ASSUME NEW w \in Worker, NEW t \in Track, RemoveFile(w, t) PROVE RaceNoted'
    <2>1. /\ worker'[w].pc # "remove"
          /\ \A v \in Worker : v # w => worker'[v] = worker[v]
      <3>1. CASE Returned(w, t)
        BY <3>1, ReturnedWorker
      <3>2. CASE worker' = [worker EXCEPT ![w].pc = "write"]
        BY <1>0, <3>2 DEF WorkerState
      <3> QED
        BY <1>5, <3>1, <3>2 DEF RemoveFile
    <2>2. \A u \in Track : Protected(u)' <=> Protected(u)
      BY <1>5 DEF RemoveFile, Protected
    <2>3. raced' = raced \ {w}
      BY <1>5 DEF RemoveFile
    <2> QED
      BY <2>1, <2>2, <2>3 DEF RaceNoted
  <1>6. ASSUME NEW w \in Worker, NEW t \in Track, MarkDeleted(w, t) PROVE RaceNoted'
    <2>1. \A v \in Worker : worker'[v] = worker[v] \/ worker'[v].pc # "remove"
      BY <1>6, ReturnedWorker DEF MarkDeleted
    <2>2. [worker[w].copy[t] EXCEPT !.st = "deleted", !.due = "never"].st = "deleted"
      BY <1>0 DEF WorkerState, Row
    <2>3. \A u \in Track : disc'[u].st = "kept" => disc[u].st = "kept"
      BY <1>6, <2>2 DEF MarkDeleted, UpdateDiscovery, TypeOK
    <2>4. \A u \in Track : Protected(u)' => Protected(u)
      BY <1>6, <2>3 DEF MarkDeleted, Protected
    <2> QED
      BY <1>6, <2>1, <2>4, RaceFrame DEF MarkDeleted
  <1>7. ASSUME NEW t \in Track, UpsertDiscovery(t) PROVE RaceNoted'
    <2>1. disc[t] \in Row
      BY DEF TypeOK
    <2>2. [disc[t] EXCEPT !.st = "temporary", !.due = "later"].st = "temporary"
      BY <2>1 DEF Row
    <2>3. \A u \in Track : disc'[u].st = "kept" => disc[u].st = "kept"
      BY <1>7, <2>2 DEF UpsertDiscovery, TypeOK
    <2> QED
      BY <1>7, <2>3, RaceFrame DEF UpsertDiscovery, Protected
  <1>8. ASSUME NEW t \in Track, Star(t) PROVE RaceNoted'
    BY <1>8, RaceFrame DEF Star
  <1>9. ASSUME NEW t \in Track, Unstar(t) \/ Expire(t) PROVE RaceNoted'
    <2>1. disc[t] \in Row
      BY DEF TypeOK
    <2>2. [disc[t] EXCEPT !.due = "past"].st = disc[t].st
      BY <2>1 DEF Row
    <2>3. \A u \in Track : disc'[u].st = "kept" => disc[u].st = "kept"
      BY <1>9, <2>2 DEF Unstar, Expire, TypeOK
    <2>4. starred' \subseteq starred /\ UNCHANGED <<worker, raced>>
      BY <1>9 DEF Unstar, Expire
    <2> QED
      BY <2>3, <2>4, RaceFrame DEF Protected
  <1>10. CASE UNCHANGED vars
    BY <1>10, RaceFrame DEF vars, Protected
  <1> QED
    BY <1>1, <1>2, <1>3, <1>4, <1>5, <1>6, <1>7, <1>8, <1>9, <1>10 DEF Next, WorkerStep

\* A file is removed from under a user who has starred or kept its track only
\* by a deletion that had passed its check before.
THEOREM KeptFilesSurvive == Spec => KeptSurvives
  <1>1. ASSUME TypeOK, RaceNoted, [Next]_vars
        PROVE  \A t \in Track : t \in file \ file' /\ Protected(t) => PastCheck(t) \cap raced # {}
    <2> SUFFICES ASSUME NEW t \in Track, t \in file, t \notin file', Protected(t)
                 PROVE  PastCheck(t) \cap raced # {}
      OBVIOUS
    <2>1. ASSUME NEW e \in Event, Feedback(e) PROVE file' = file
      BY <2>1 DEF Feedback
    <2>2. ASSUME NEW w \in Worker, WorkerStep(w) PROVE PastCheck(t) \cap raced # {}
      <3>1. PICK u \in Track : CheckProtection(w, u) \/ RemoveFile(w, u) \/ MarkDeleted(w, u)
        BY <2>2 DEF WorkerStep
      <3>2. RemoveFile(w, u) /\ u = t
        BY <3>1 DEF CheckProtection, RemoveFile, MarkDeleted
      <3>3. w \in PastCheck(t)
        BY <3>2 DEF RemoveFile, PastCheck
      <3>4. w \in raced
        BY <1>1, <3>3 DEF RaceNoted, PastCheck
      <3> QED
        BY <3>3, <3>4
    <2>3. ASSUME CleanupExpired \/ Crash \/ UNCHANGED vars PROVE file' = file
      BY <2>3 DEF CleanupExpired, Crash, vars
    <2>4. ASSUME NEW u \in Track, UpsertDiscovery(u) \/ Star(u) \/ Unstar(u) \/ Expire(u)
          PROVE  file \subseteq file'
      BY <2>4 DEF UpsertDiscovery, Star, Unstar, Expire
    <2> QED
      BY <1>1, <2>1, <2>2, <2>3, <2>4 DEF Next
  <1>2. Spec => []RaceNoted
    BY TypeInit, TypeStep, RaceInit, RaceStep, PTL DEF Spec
  <1> QED
    BY <1>1, <1>2, DiscoveryTyped, PTL DEF Spec, KeptSurvives

-----------------------------------------------------------------------------
(* A kept track has earned it *)

\* No row, and no copy of a row, counts more starts than were reported: the
\* ledger recognises the repetition of a request that has an event id.
Counted ==
    /\ IsFiniteSet(ledger)
    /\ \A t \in Track : disc[t].starts <= StartsReported(t)
    /\ \A w \in Worker, t \in Track : worker[w].copy[t].starts <= StartsReported(t)

\* What is known of an item was reported.
Reported ==
    \A i \in Item :
        /\ item[i].out = "accepted" => \E e \in ledger \cup bare : e.item = i /\ e.kind = "threshold"
        /\ item[i].heard = "long" => \E e \in ledger \cup bare : e.item = i /\ e.heard = "long"

Grounds == Counted /\ Reported /\ KeptIsEarned

LEMMA StartsFinite ==
  ASSUME TypeOK, IsFiniteSet(ledger), NEW t \in Track
  PROVE  /\ IsFiniteSet(Starts(t)) /\ Cardinality(Starts(t)) \in Nat
         /\ bareStarts[t] \in Nat /\ StartsReported(t) \in Nat
  <1>1. Starts(t) \subseteq ledger
    BY DEF Starts
  <1>2. IsFiniteSet(Starts(t)) /\ Cardinality(Starts(t)) \in Nat
    BY <1>1, FS_Subset, FS_CardinalityType
  <1>3. bareStarts[t] \in Nat
    BY BoundAssumption DEF TypeOK
  <1> QED
    BY <1>2, <1>3 DEF StartsReported

LEMMA GroundsInit == Init => Grounds
  <1> SUFFICES ASSUME Init PROVE Grounds
    OBVIOUS
  <1>1. IsFiniteSet(ledger) /\ TypeOK
    BY FS_EmptySet, TypeInit DEF Init
  <1>2. \A t \in Track : disc[t].starts = 0 /\ disc[t].st = "none"
    BY DEF Init, NoRow
  <1>3. \A w \in Worker, t \in Track : worker[w].copy[t].starts = 0
    BY DEF Init, NoWork, NoRow
  <1>4. Counted
    BY <1>1, <1>2, <1>3, StartsFinite DEF Counted
  <1>5. Reported
    BY DEF Init, Reported
  <1>6. KeptIsEarned
    BY <1>2 DEF KeptIsEarned
  <1> QED
    BY <1>4, <1>5, <1>6 DEF Grounds

\* A request that is applied adds to the grounds and takes nothing away; a
\* start is counted once more.
LEMMA RecordGrows ==
  ASSUME TypeOK, TypeOK', IsFiniteSet(ledger), NEW e \in Event, NEW t \in Track, t = TrackOf[e.item],
         ~Recorded(e), Record(e, t)
  PROVE  /\ IsFiniteSet(ledger)'
         /\ e \in ledger' \cup bare' /\ ledger \cup bare \subseteq ledger' \cup bare'
         /\ \A u \in Track : /\ Earned(u) => Earned(u)'
                             /\ StartsReported(u) \in Nat /\ StartsReported(u)' \in Nat
                             /\ StartsReported(u) <= StartsReported(u)'
         /\ e.kind = "started" => StartsReported(t)' = StartsReported(t) + 1
  <1>1. \/ e.id # NoId /\ e \notin ledger /\ ledger' = ledger \cup {e} /\ UNCHANGED <<bare, bareStarts>>
        \/ /\ e.id = NoId /\ bare' = bare \cup {e} /\ UNCHANGED ledger
           /\ \/ e.kind # "started" /\ UNCHANGED bareStarts
              \/ e.kind = "started" /\ bareStarts' = [bareStarts EXCEPT ![t] = @ + 1]
    BY DEF Record, Recorded
  <1>2. IsFiniteSet(ledger') /\ e \in ledger' \cup bare' /\ ledger \cup bare \subseteq ledger' \cup bare'
    BY <1>1, FS_AddElement
  <1>3. \A u \in Track : About(u) \subseteq About(u)'
    BY <1>2 DEF About
  <1>4. \A u \in Track : /\ IsFiniteSet(Starts(u)) /\ Cardinality(Starts(u)) \in Nat
                         /\ bareStarts[u] \in Nat /\ StartsReported(u) \in Nat
    BY StartsFinite
  <1>5. ASSUME NEW u \in Track
        PROVE  /\ IsFiniteSet(Starts(u)') /\ Cardinality(Starts(u)') \in Nat
               /\ StartsReported(u)' \in Nat /\ Cardinality(Starts(u)) <= Cardinality(Starts(u)')
    <2>1. Starts(u)' \subseteq ledger' /\ Starts(u) \subseteq Starts(u)'
      BY <1>1 DEF Starts
    <2>2. IsFiniteSet(Starts(u)') /\ Cardinality(Starts(u)') \in Nat
      BY <1>2, <2>1, FS_Subset, FS_CardinalityType
    <2>3. Cardinality(Starts(u)) <= Cardinality(Starts(u)')
      BY <2>1, <2>2, FS_Subset
    <2>4. bareStarts'[u] \in Nat
      BY BoundAssumption DEF TypeOK
    <2> QED
      BY <2>2, <2>3, <2>4 DEF StartsReported
  <1>6. \A u \in Track : StartsReported(u) <= StartsReported(u)'
    <2>1. \A u \in Track : bareStarts[u] <= bareStarts'[u] /\ bareStarts'[u] \in Nat
      BY <1>1, <1>4, BoundAssumption DEF TypeOK
    <2> QED
      BY <1>4, <1>5, <2>1 DEF StartsReported
  <1>7. ASSUME NEW u \in Track, Earned(u) PROVE Earned(u)'
    <2>1. CASE StartsReported(u) > 1
      <3>1. StartsReported(u)' > 1
        BY <1>4, <1>5, <1>6, <2>1
      <3> QED
        BY <3>1 DEF Earned
    <2>2. CASE \/ \E f \in About(u) : f.kind \in {"threshold", "completed", "keep"}
               \/ \E f, g \in About(u) : f.kind = "manual_skip" /\ g.heard = "long" /\ f.item = g.item
      BY <1>3, <2>2 DEF Earned
    <2> QED
      BY <1>7, <2>1, <2>2 DEF Earned
  <1>8. ASSUME e.kind = "started" PROVE StartsReported(t)' = StartsReported(t) + 1
    <2>1. CASE e \notin ledger /\ ledger' = ledger \cup {e} /\ UNCHANGED bareStarts
      <3>1. Starts(t)' = Starts(t) \cup {e} /\ e \notin Starts(t)
        BY <1>8, <2>1 DEF Starts
      <3>2. Cardinality(Starts(t)') = Cardinality(Starts(t)) + 1
        BY <1>4, <3>1, FS_AddElement
      <3> QED
        BY <1>4, <2>1, <3>2 DEF StartsReported
    <2>2. CASE UNCHANGED ledger /\ bareStarts' = [bareStarts EXCEPT ![t] = @ + 1]
      <3>1. Starts(t)' = Starts(t)
        BY <2>2 DEF Starts
      <3>2. bareStarts'[t] = bareStarts[t] + 1
        BY <2>2 DEF TypeOK
      <3> QED
        BY <1>4, <3>1, <3>2 DEF StartsReported
    <2> QED
      BY <1>1, <1>8, <2>1, <2>2
  <1> QED
    BY <1>2, <1>4, <1>5, <1>6, <1>7, <1>8

\* An applied request that is no early skip earns the track its keeping.
LEMMA AppliedEarns ==
  ASSUME TypeOK, Reported, NEW e \in Event, e \in ledger' \cup bare',
         ledger \cup bare \subseteq ledger' \cup bare',
         e.kind # "started", Given(e) # {}, After(e) # "early_skip",
         NEW t, t = TrackOf[e.item]
  PROVE  Earned(t)'
  <1>1. e \in About(t)'
    BY DEF About
  <1>2. CASE e.kind \in {"threshold", "completed", "keep"}
    BY <1>1, <1>2 DEF Earned
  <1>3. CASE e.kind = "manual_skip"
    <2>1. After(e) \in Given(e)
      BY AfterGiven
    <2>2. item[e.item].out = "accepted" \/ Heard(e) = "long"
      BY <1>3, <2>1 DEF Given, NewOutcome
    <2>3. e.item \in Item
      BY EventFields
    <2>4. CASE item[e.item].out = "accepted"
      <3>1. PICK f \in ledger \cup bare : f.item = e.item /\ f.kind = "threshold"
        BY <2>3, <2>4 DEF Reported
      <3>2. f \in About(t)'
        BY <3>1 DEF About
      <3> QED
        BY <3>1, <3>2 DEF Earned
    <2>5. CASE Heard(e) = "long"
      <3>1. PICK f \in ledger' \cup bare' : f.item = e.item /\ f.heard = "long"
        BY <2>3, <2>5 DEF Reported, Heard
      <3>2. f \in About(t)'
        BY <3>1 DEF About
      <3> QED
        BY <1>1, <1>3, <3>1, <3>2 DEF Earned
    <2> QED
      BY <2>2, <2>4, <2>5
  <1> QED
    BY <1>2, <1>3, EventFields DEF Kind

LEMMA GroundsFeedback ==
  ASSUME TypeOK, Grounds, NEW e \in Event, Feedback(e)
  PROVE  Grounds'
  <1> PICK t \in Track : t = TrackOf[e.item] /\ e.item \in Item
    BY EventFields
  <1>a. TypeOK'
    BY TypeStep DEF Next
  <1>0. /\ ~Recorded(e)
        /\ item' = [item EXCEPT ![e.item] = [out |-> After(e), heard |-> Heard(e)]]
        /\ disc' = [disc EXCEPT ![t] = Judged(e, disc[t], Given(e) # {}, After(e))]
        /\ Record(e, t)
        /\ \/ UNCHANGED worker
           \/ \E w \in Remover : worker' = [worker EXCEPT ![w] = SkipWork(t, disc'[t])]
        /\ everStarred' = everStarred
    BY FeedbackParts
  <1>1. /\ IsFiniteSet(ledger)'
        /\ e \in ledger' \cup bare' /\ ledger \cup bare \subseteq ledger' \cup bare'
        /\ \A u \in Track : /\ Earned(u) => Earned(u)'
                            /\ StartsReported(u) <= StartsReported(u)'
        /\ e.kind = "started" => StartsReported(t)' = StartsReported(t) + 1
    BY <1>0, <1>a, RecordGrows DEF Grounds, Counted
  <1>2. \A u \in Track : StartsReported(u) \in Nat /\ StartsReported(u)' \in Nat
    BY <1>0, <1>a, RecordGrows DEF Grounds, Counted
  <1>3. /\ disc'[t] = Judged(e, disc[t], Given(e) # {}, After(e))
        /\ \A u \in Track : u # t => disc'[u] = disc[u]
        /\ \A u \in Track : disc[u] \in Row /\ disc[u].starts \in Nat
    BY <1>0 DEF TypeOK, Row
  <1>4. /\ disc'[t] \in Row
        /\ disc'[t].starts = IF e.kind = "started" THEN disc[t].starts + 1 ELSE disc[t].starts
        /\ disc'[t].st = "kept" => \/ disc[t].st = "kept"
                                   \/ e.kind = "started" /\ disc[t].starts + 1 > 1
                                   \/ e.kind # "started" /\ Given(e) # {} /\ After(e) # "early_skip"
    <2>1. PICK applied \in BOOLEAN : applied = (Given(e) # {})
      OBVIOUS
    <2>2. disc[t] \in Row /\ disc'[t] = Judged(e, disc[t], applied, After(e))
      BY <1>3, <2>1
    <2>3. /\ disc'[t] \in Row
          /\ disc'[t].starts = IF e.kind = "started" THEN disc[t].starts + 1 ELSE disc[t].starts
          /\ disc'[t].st = "kept" => \/ disc[t].st = "kept"
                                     \/ e.kind = "started" /\ disc[t].starts + 1 > 1
                                     \/ e.kind # "started" /\ applied /\ After(e) # "early_skip"
      BY <2>2, JudgedRow
    <2> QED
      BY <2>1, <2>3
  <1>5. \A u \in Track : disc'[u].starts <= StartsReported(u)'
    <2>1. \A u \in Track : disc[u].starts <= StartsReported(u)
      BY DEF Grounds, Counted
    <2>2. disc'[t].starts <= StartsReported(t)'
      BY <1>1, <1>2, <1>3, <1>4, <2>1
    <2> QED
      BY <1>1, <1>2, <1>3, <2>1, <2>2
  <1>6. \A w \in Worker, u \in Track : worker'[w].copy[u].starts <= StartsReported(u)'
    <2>1. \A w \in Worker, u \in Track : worker[w].copy[u].starts <= StartsReported(u)
      BY DEF Grounds, Counted
    <2>2. \A w \in Worker, u \in Track : worker[w].copy[u].starts \in Nat
      BY DEF TypeOK, Row
    <2>3. \A w \in Worker, u \in Track : worker[w].copy[u].starts <= StartsReported(u)'
      BY <1>1, <1>2, <2>1, <2>2
    <2>4. CASE UNCHANGED worker
      BY <2>3, <2>4
    <2>5. ASSUME NEW w \in Remover, worker' = [worker EXCEPT ![w] = SkipWork(t, disc'[t])]
          PROVE  \A v \in Worker, u \in Track : worker'[v].copy[u].starts <= StartsReported(u)'
      <3>1. worker'[w] = SkipWork(t, disc'[t]) /\ \A v \in Worker : v # w => worker'[v] = worker[v]
        BY <2>5 DEF TypeOK, Worker
      <3>2. /\ SkipWork(t, disc'[t]).copy[t] = disc'[t]
            /\ \A u \in Track : u # t => SkipWork(t, disc'[t]).copy[u] = NoRow
        BY <1>4, SkipWorker
      <3>3. NoRow.starts = 0
        BY DEF NoRow
      <3>4. \A u \in Track : worker'[w].copy[u].starts <= StartsReported(u)'
        BY <1>2, <1>5, <3>1, <3>2, <3>3
      <3> QED
        BY <2>3, <3>1, <3>4
    <2> QED
      BY <1>0, <2>4, <2>5
  <1>7. Counted'
    BY <1>1, <1>5, <1>6 DEF Counted
  <1>8. Reported'
    <2>1. /\ item'[e.item].out = After(e) /\ item'[e.item].heard = Heard(e)
          /\ \A i \in Item : i # e.item => item'[i] = item[i]
      BY <1>0 DEF TypeOK
    <2>2. After(e) = "accepted" => item[e.item].out = "accepted" \/ e.kind = "threshold"
      BY AfterGiven DEF After, Given, NewOutcome
    <2>3. Heard(e) = "long" => item[e.item].heard = "long" \/ e.heard = "long"
      BY DEF Heard
    <2> QED
      BY <1>0, <1>1, <2>1, <2>2, <2>3 DEF Grounds, Reported
  <1>9. KeptIsEarned'
    <2>1. ASSUME disc'[t].st = "kept" PROVE Earned(t)' \/ t \in everStarred'
      <3>1. CASE disc[t].st = "kept"
        BY <1>0, <1>1, <3>1 DEF Grounds, KeptIsEarned
      <3>2. CASE e.kind = "started" /\ disc[t].starts + 1 > 1
        <4>1. StartsReported(t)' > 1
          BY <1>2, <1>3, <1>4, <1>5, <3>2
        <4> QED
          BY <4>1 DEF Earned
      <3>3. CASE e.kind # "started" /\ Given(e) # {} /\ After(e) # "early_skip"
        BY <1>0, <1>1, <3>3, AppliedEarns DEF Grounds
      <3> QED
        BY <1>4, <2>1, <3>1, <3>2, <3>3
    <2> QED
      BY <1>0, <1>1, <1>3, <2>1 DEF Grounds, KeptIsEarned
  <1> QED
    BY <1>7, <1>8, <1>9 DEF Grounds

\* A step that records nothing: rows and copies are written from each other,
\* and a track is kept that was kept or starred.
LEMMA GroundsFrame ==
  ASSUME TypeOK, Grounds, UNCHANGED <<ledger, bare, bareStarts, item>>, everStarred \subseteq everStarred',
         \A t \in Track : \/ disc'[t].starts = disc[t].starts
                          \/ \E w \in Worker : disc'[t].starts = worker[w].copy[t].starts,
         \A w \in Worker, t \in Track :
             \/ worker'[w].copy[t].starts = worker[w].copy[t].starts
             \/ worker'[w].copy[t].starts = disc[t].starts
             \/ worker'[w].copy[t].starts = 0,
         \A t \in Track : disc'[t].st = "kept" => disc[t].st = "kept" \/ t \in everStarred'
  PROVE  Grounds'
  <1>1. \A t \in Track : StartsReported(t)' = StartsReported(t) /\ (Earned(t)' <=> Earned(t))
    BY DEF Starts, StartsReported, Earned, About
  <1>2. \A t \in Track : StartsReported(t) \in Nat
    BY StartsFinite DEF Grounds, Counted
  <1>3. Counted'
    <2>1. \A t \in Track : disc'[t].starts <= StartsReported(t)
      BY DEF Grounds, Counted
    <2>2. \A w \in Worker, t \in Track : worker'[w].copy[t].starts <= StartsReported(t)
      BY <1>2 DEF Grounds, Counted
    <2> QED
      BY <1>1, <2>1, <2>2 DEF Grounds, Counted
  <1>4. Reported'
    BY DEF Grounds, Reported
  <1>5. KeptIsEarned'
    BY <1>1 DEF Grounds, KeptIsEarned
  <1> QED
    BY <1>3, <1>4, <1>5 DEF Grounds

\* The copies after deleteDiscovery has returned.
LEMMA ReturnedCopies ==
  ASSUME TypeOK, NEW w \in Worker, NEW t \in Track, Returned(w, t)
  PROVE  \A v \in Worker, u \in Track :
             \/ worker'[v].copy[u].starts = worker[v].copy[u].starts
             \/ worker'[v].copy[u].starts = 0
  <1>1. /\ \A v \in Worker : v # w => worker'[v] = worker[v]
        /\ worker'[w].copy \in {worker[w].copy, NoWork.copy}
    BY ReturnedWorker
  <1>2. \A u \in Track : NoWork.copy[u].starts = 0
    BY NoWorkTyped DEF NoRow
  <1> QED
    BY <1>1, <1>2

LEMMA GroundsStep == TypeOK /\ Grounds /\ [Next]_vars => Grounds'
  <1> SUFFICES ASSUME TypeOK, Grounds, [Next]_vars PROVE Grounds'
    OBVIOUS
  <1>0. worker \in [Worker -> WorkerState] /\ \A t \in Track : disc[t] \in Row
    BY DEF TypeOK, WorkerState
  <1>1. CASE CleanupExpired
    <2>1. \A w \in Worker : worker'[w].copy = worker[w].copy \/ worker'[w].copy = disc
      BY <1>0, <1>1 DEF CleanupExpired, NoWork
    <2> QED
      BY <1>1, <2>1, GroundsFrame DEF CleanupExpired
  <1>2. CASE Crash
    <2>1. \A w \in Worker, t \in Track : worker'[w].copy[t].starts = 0
      BY <1>2, NoWorkTyped DEF Crash, NoRow
    <2> QED
      BY <1>2, <2>1, GroundsFrame DEF Crash
  <1>3. ASSUME NEW w \in Worker, NEW t \in Track, CheckProtection(w, t) PROVE Grounds'
    <2>1. worker[w].copy[t] \in Row
      BY <1>0 DEF WorkerState
    <2>2. Kept(worker[w].copy[t]).starts = worker[w].copy[t].starts
      BY <2>1, KeptRow
    <2>3. \A v \in Worker, u \in Track :
             \/ worker'[v].copy[u].starts = worker[v].copy[u].starts
             \/ worker'[v].copy[u].starts = 0
      <3>1. CASE Returned(w, t)
        BY <3>1, ReturnedCopies
      <3>2. CASE worker' = [worker EXCEPT ![w] = [@ EXCEPT !.pc = "remove", !.at = {t}]]
        BY <1>0, <3>2 DEF WorkerState
      <3> QED
        BY <1>3, <3>1, <3>2 DEF CheckProtection
    <2>4. /\ \A u \in Track : u # t => disc'[u] = disc[u]
          /\ disc'[t] = disc[t] \/ (disc'[t] = Kept(worker[w].copy[t]) /\ Protected(t))
      BY <1>3 DEF CheckProtection, UpdateDiscovery, FoundProtected, TypeOK
    <2>5. Protected(t) => disc[t].st = "kept" \/ t \in everStarred
      BY DEF Protected, TypeOK
    <2>6. UNCHANGED <<ledger, bare, bareStarts, item, everStarred>>
      BY <1>3 DEF CheckProtection
    <2> QED
      BY <2>2, <2>3, <2>4, <2>5, <2>6, GroundsFrame
  <1>4. ASSUME NEW w \in Worker, NEW t \in Track, RemoveFile(w, t) PROVE Grounds'
    <2>1. \A v \in Worker, u \in Track :
             \/ worker'[v].copy[u].starts = worker[v].copy[u].starts
             \/ worker'[v].copy[u].starts = 0
      <3>1. CASE Returned(w, t)
        BY <3>1, ReturnedCopies
      <3>2. CASE worker' = [worker EXCEPT ![w].pc = "write"]
        BY <1>0, <3>2 DEF WorkerState
      <3> QED
        BY <1>4, <3>1, <3>2 DEF RemoveFile
    <2> QED
      BY <1>4, <2>1, GroundsFrame DEF RemoveFile
  <1>5. ASSUME NEW w \in Worker, NEW t \in Track, MarkDeleted(w, t) PROVE Grounds'
    <2> DEFINE new == [worker[w].copy[t] EXCEPT !.st = "deleted", !.due = "never"]
    <2>1. worker[w].copy[t] \in Row
      BY <1>0 DEF WorkerState
    <2>2. new.st = "deleted" /\ new.starts = worker[w].copy[t].starts
      BY <2>1 DEF Row
    <2> HIDE DEF new
    <2>3. /\ \A u \in Track : u # t => disc'[u] = disc[u]
          /\ disc'[t] = disc[t] \/ disc'[t] = new
      BY <1>5 DEF MarkDeleted, UpdateDiscovery, TypeOK, new
    <2>4. \A v \in Worker, u \in Track :
             \/ worker'[v].copy[u].starts = worker[v].copy[u].starts
             \/ worker'[v].copy[u].starts = 0
      BY <1>5, ReturnedCopies DEF MarkDeleted
    <2>5. UNCHANGED <<ledger, bare, bareStarts, item, everStarred>>
      BY <1>5 DEF MarkDeleted
    <2> QED
      BY <2>2, <2>3, <2>4, <2>5, GroundsFrame
  <1>6. ASSUME NEW t \in Track, UpsertDiscovery(t) \/ Expire(t) \/ Unstar(t) PROVE Grounds'
    <2> DEFINE again == [disc[t] EXCEPT !.st = "temporary", !.due = "later"]
    <2> DEFINE past == [disc[t] EXCEPT !.due = "past"]
    <2>1. again.starts = disc[t].starts /\ again.st = "temporary"
      BY <1>0 DEF Row
    <2>2. past.starts = disc[t].starts /\ past.st = disc[t].st
      BY <1>0 DEF Row
    <2> HIDE DEF again, past
    <2>3. /\ \A u \in Track : u # t => disc'[u] = disc[u]
          /\ disc'[t] \in {disc[t], again, past}
      BY <1>6 DEF UpsertDiscovery, Expire, Unstar, TypeOK, again, past
    <2>4. UNCHANGED <<ledger, bare, bareStarts, item, everStarred, worker>>
      BY <1>6 DEF UpsertDiscovery, Expire, Unstar
    <2> QED
      BY <2>1, <2>2, <2>3, <2>4, GroundsFrame
  <1>7. ASSUME NEW t \in Track, Star(t) PROVE Grounds'
    BY <1>7, GroundsFrame DEF Star
  <1>8. CASE UNCHANGED vars
    BY <1>8, GroundsFrame DEF vars
  <1> QED
    BY <1>1, <1>2, <1>3, <1>4, <1>5, <1>6, <1>7, <1>8, GroundsFeedback DEF Next, WorkerStep

\* A track is kept for good only for a reason that was reported, however often
\* a client repeats a request with an event id and whatever a deletion writes
\* back; each repeated start without an event id is a reason of its own.
THEOREM KeptTracksEarned == Spec => []KeptIsEarned
  <1>1. Grounds => KeptIsEarned
    BY DEF Grounds
  <1> QED
    BY <1>1, TypeInit, TypeStep, GroundsInit, GroundsStep, PTL DEF Spec
=============================================================================
