--------------------------- MODULE RadioDiscovery ---------------------------
(***************************************************************************)
(* The life of a downloaded discovery track: playback feedback keeps it or *)
(* dooms it, and an early skip, or the hourly cleanup once it has expired, *)
(* deletes its file (personal_radio_feedback.go, the discovery_track       *)
(* table, and deleteDiscovery and cleanupLoop of personalradio).  Clients  *)
(* repeat feedback they have no answer for.  Tables and files survive a    *)
(* crash; deletions under way and the requests do not.  The event id by    *)
(* which a repeated request is recognised is optional.                     *)
(*                                                                         *)
(* Abstractions: one user; starring a track and adding it to a playlist    *)
(* are the same; times are before and after expires_at; what was listened  *)
(* to is less or more than earlySkipThresholdMS; the transition and taste  *)
(* statistics are left out.                                                *)
(***************************************************************************)
EXTENDS Integers, FiniteSets

CONSTANTS
    Track,       \* recordings, each with one media file
    Item,        \* radio items of type discovery
    TrackOf,     \* the recording of an item
    Event,       \* feedback requests, told apart by their event id if they have one
    Remover,     \* goroutines started by Feedback
    Cleaner,     \* the goroutine of cleanupLoop
    MaxFaults,   \* bound: failed statements and removals
    MaxCrashes,  \* bound: crashes of the process
    MaxDownloads,\* bound: times a track is downloaded again
    MaxBare      \* bound: starts of a track reported without an event id

Kind == {"started", "threshold", "completed", "manual_skip", "keep"}
NoId == 0        \* EventID == ""
EventType == [id : Nat, item : Item, kind : Kind, heard : {"short", "long"}]

ASSUME EventAssumption ==
    /\ Event \subseteq EventType
    /\ \A e, f \in Event : e.id = f.id /\ e.id # NoId => e = f
ASSUME TrackAssumption == TrackOf \in [Item -> Track]
ASSUME CleanerAssumption == Cleaner \notin Remover
ASSUME BoundAssumption == MaxFaults \in Nat /\ MaxCrashes \in Nat /\ MaxDownloads \in Nat
                          /\ MaxBare \in Nat

VARIABLES
    disc,      \* the rows of discovery_track
    item,      \* played items: outcome and how much was heard
    ledger,    \* radio_feedback_event: the requests recorded
    starred,   \* tracks that are starred or on a playlist
    file,      \* tracks whose file is in the library
    worker,    \* deletions under way
    faults, crashes, downloads,
    bare,      \* history: requests without an event id that were applied
    bareStarts,    \* history: how many of them reported a start of the track
    everStarred,   \* history: tracks ever starred or put on a playlist
    raced      \* history: deletions whose track became protected after the check

vars == <<disc, item, ledger, starred, file, worker, faults, crashes, downloads,
          bare, bareStarts, everStarred, raced>>

Worker == Remover \cup {Cleaner}

State == {"none", "temporary", "kept", "delete_pending", "deleted"}
Row == [st : State, starts : Nat, due : {"never", "later", "past"}]
NoRow == [st |-> "none", starts |-> 0, due |-> "never"]

Outcome == {"none", "started", "early_skip", "accepted", "late_skip", "keep", "completed"}

\* The tracks a worker has to delete, its copy of their rows, and the one that
\* has passed the check, as a set.
NoWork == [pc |-> "idle", todo |-> {}, at |-> {}, copy |-> [t \in Track |-> NoRow]]

Init ==
    /\ disc = [t \in Track |-> NoRow]
    /\ item = [i \in Item |-> [out |-> "none", heard |-> "short"]]
    /\ ledger = {} /\ starred = {} /\ file = {}
    /\ worker = [w \in Worker |-> NoWork]
    /\ faults = 0 /\ crashes = 0 /\ downloads = 0
    /\ bare = {} /\ bareStarts = [t \in Track |-> 0]
    /\ everStarred = {} /\ raced = {}

Fault == faults < MaxFaults /\ faults' = faults + 1

\* IsMediaFileProtected
Protected(t) == t \in starred \/ disc[t].st = "kept"

\* Deletions that have passed the check of track t and not removed its file.
PastCheck(t) == {w \in Worker : worker[w].pc = "remove" /\ t \in worker[w].at}

\* The bookkeeping of raced: any step may protect tracks.
NoteRaces ==
    raced' = raced \cup UNION {PastCheck(t) : t \in {u \in Track : Protected(u)' /\ ~Protected(u)}}

-----------------------------------------------------------------------------
(* Feedback. *)

\* playbackOutcomeRank
Rank(out) == CASE out = "started"    -> 1 [] out = "early_skip" -> 2
               [] out = "accepted"   -> 3 [] out \in {"late_skip", "keep"} -> 4
               [] out = "completed"  -> 5 [] OTHER -> 0

\* radioPlaybackOutcome: the outcome that event e gives an item, in a set that
\* is empty when the event is not applied.
NewOutcome(e, out, heard) ==
    CASE e.kind = "started"   -> IF out = "none" THEN {"started"} ELSE {}
      [] e.kind = "threshold" -> IF Rank(out) < Rank("accepted") THEN {"accepted"} ELSE {}
      [] e.kind = "completed" -> {"completed"} \ {out}
      [] e.kind = "keep"      -> IF out \in {"completed", "keep"} THEN {} ELSE {"keep"}
      [] e.kind = "manual_skip" /\ out \notin {"completed", "keep", "late_skip"} ->
             IF out = "accepted" \/ heard = "long" THEN {"late_skip"} ELSE {"early_skip"} \ {out}
      [] OTHER -> {}

Kept(row) == [row EXCEPT !.st = "kept", !.due = "never"]

\* What an event that left the item with outcome out does to the row of its
\* recording.
Judged(e, row, applied, out) ==
    CASE e.kind = "started" ->
             LET n == row.starts + 1
             IN  IF n > 1 THEN Kept([row EXCEPT !.starts = n]) ELSE [row EXCEPT !.starts = n]
      [] e.kind # "started" /\ applied ->
             IF out = "early_skip" THEN [row EXCEPT !.st = "delete_pending"] ELSE Kept(row)
      [] OTHER -> row

\* Mutant: a request is not recognised when it is repeated.
RecordedNever(e) == FALSE

Recorded(e) == e.id # NoId /\ e \in ledger

\* The ledger holds the requests with an event id.
Record(e, t) ==
    \/ e.id # NoId /\ ledger' = ledger \cup {e} /\ UNCHANGED <<bare, bareStarts>>
    \/ /\ e.id = NoId /\ bare' = bare \cup {e} /\ UNCHANGED ledger
       /\ \/ e.kind # "started" /\ UNCHANGED bareStarts
          \/ /\ e.kind = "started" /\ bareStarts[t] < MaxBare
             /\ bareStarts' = [bareStarts EXCEPT ![t] = @ + 1]

\* Feedback: one transaction, retried while the database is busy.  A request
\* that is in the ledger changes nothing; one for a recording without a row
\* is refused.  An early skip starts a deletion two seconds later.
Feedback(e) ==
    LET t    == TrackOf[e.item]
        was  == item[e.item]
        long == IF "long" \in {was.heard, e.heard} THEN "long" ELSE "short"
        new  == NewOutcome(e, was.out, long)
        out  == IF new = {} THEN was.out ELSE CHOOSE o \in new : TRUE
    IN
    /\ ~Recorded(e)
    /\ disc[t].st # "none"
    /\ item' = [item EXCEPT ![e.item] = [out |-> out, heard |-> long]]
    /\ disc' = [disc EXCEPT ![t] = Judged(e, @, new # {}, out)]
    /\ Record(e, t)
    /\ IF "early_skip" \in new
       THEN \E w \in Remover :
               /\ worker[w].pc = "idle"
               /\ worker' = [worker EXCEPT ![w] =
                      [NoWork EXCEPT !.pc = "check", !.todo = {t}, !.copy[t] = disc'[t]]]
       ELSE UNCHANGED worker
    /\ UNCHANGED <<starred, file, faults, crashes, downloads, everStarred>>
    /\ NoteRaces

-----------------------------------------------------------------------------
(* cleanupExpired and deleteDiscovery. *)

\* Mutant: only what has expired is listed.
ListedExpired(t) == disc[t].st = "temporary" /\ disc[t].due = "past"

\* ListExpiredDiscoveries: what is past its time, or was to be deleted.
Listed(t) == \/ disc[t].st = "delete_pending"
             \/ disc[t].st = "temporary" /\ disc[t].due = "past"

\* cleanupExpired, at the start and every hour.
CleanupExpired ==
    LET w == Cleaner  tracks == {t \in Track : Listed(t)} IN
    /\ worker[w].pc = "idle" /\ tracks # {}
    /\ worker' = [worker EXCEPT ![w] = 
           [NoWork EXCEPT !.pc = "check", !.todo = tracks, !.copy = disc]]
    /\ UNCHANGED <<disc, item, ledger, starred, file, faults, crashes, downloads,
                   bare, bareStarts, everStarred, raced>>

\* deleteDiscovery returns; the cleanup goes on with the next track.
Returned(w, t) ==
    worker' = [worker EXCEPT ![w] =
        IF worker[w].todo = {t} THEN NoWork
        ELSE [worker[w] EXCEPT !.pc = "check", !.todo = @ \ {t}, !.at = {}]]

\* The row is written from the copy; an error is ignored.
UpdateDiscovery(t, row) ==
    \/ disc' = [disc EXCEPT ![t] = row] /\ UNCHANGED faults
    \/ Fault /\ UNCHANGED disc

\* Mutant: stars and playlists are looked at, and the row is not.
FoundProtectedStarred(t) == t \in starred

FoundProtected(t) == Protected(t)

CheckProtection(w, t) ==
    /\ worker[w].pc = "check" /\ t \in worker[w].todo
    /\ \/ /\ FoundProtected(t)
          /\ UpdateDiscovery(t, Kept(worker[w].copy[t]))
          /\ Returned(w, t)
       \/ /\ ~FoundProtected(t)
          /\ worker' = [worker EXCEPT ![w] = [@ EXCEPT !.pc = "remove", !.at = {t}]]
          /\ UNCHANGED <<disc, faults>>
       \/ Fault /\ Returned(w, t) /\ UNCHANGED disc
    /\ UNCHANGED <<item, ledger, starred, file, crashes, downloads, bare, bareStarts, everStarred>>
    /\ NoteRaces

\* os.Remove; a file that is gone already is no error.
RemoveFile(w, t) ==
    /\ worker[w].pc = "remove" /\ t \in worker[w].at
    /\ \/ /\ file' = file \ {t}
          /\ worker' = [worker EXCEPT ![w].pc = "write"]
          /\ UNCHANGED faults
       \/ Fault /\ Returned(w, t) /\ UNCHANGED file
    /\ raced' = raced \ {w}
    /\ UNCHANGED <<disc, item, ledger, starred, crashes, downloads, bare, bareStarts, everStarred>>

\* After the scan of its folder, however long that takes.
MarkDeleted(w, t) ==
    /\ worker[w].pc = "write" /\ t \in worker[w].at
    /\ UpdateDiscovery(t, [worker[w].copy[t] EXCEPT !.st = "deleted", !.due = "never"])
    /\ Returned(w, t)
    /\ UNCHANGED <<item, ledger, starred, file, crashes, downloads, bare, bareStarts, everStarred, raced>>

-----------------------------------------------------------------------------
(* The surroundings. *)

\* A download of the track is resolved: UpsertDiscovery.
UpsertDiscovery(t) ==
    /\ downloads < MaxDownloads
    /\ t \notin file
    /\ downloads' = downloads + 1
    /\ file' = file \cup {t}
    /\ disc' = [disc EXCEPT ![t] = IF @.st = "kept" THEN @
                                   ELSE [@ EXCEPT !.st = "temporary", !.due = "later"]]
    /\ UNCHANGED <<item, ledger, starred, worker, faults, crashes, bare, bareStarts, everStarred, raced>>

Star(t) ==
    /\ t \in file \ starred
    /\ starred' = starred \cup {t} /\ everStarred' = everStarred \cup {t}
    /\ UNCHANGED <<disc, item, ledger, file, worker, faults, crashes, downloads,
                   bare, bareStarts>>
    /\ NoteRaces

Unstar(t) ==
    /\ t \in starred
    /\ starred' = starred \ {t}
    /\ UNCHANGED <<disc, item, ledger, file, worker, faults, crashes, downloads,
                   bare, bareStarts, everStarred, raced>>

Expire(t) ==
    /\ disc[t].due = "later"
    /\ disc' = [disc EXCEPT ![t].due = "past"]
    /\ UNCHANGED <<item, ledger, starred, file, worker, faults, crashes, downloads,
                   bare, bareStarts, everStarred, raced>>

Crash ==
    /\ crashes < MaxCrashes
    /\ crashes' = crashes + 1
    /\ worker' = [w \in Worker |-> NoWork]
    /\ raced' = {}
    /\ UNCHANGED <<disc, item, ledger, starred, file, faults, downloads, bare, bareStarts, everStarred>>

WorkerStep(w) ==
    \E t \in Track : CheckProtection(w, t) \/ RemoveFile(w, t) \/ MarkDeleted(w, t)

Next ==
    \/ \E e \in Event : Feedback(e)
    \/ CleanupExpired \/ Crash
    \/ \E w \in Worker : WorkerStep(w)
    \/ \E t \in Track : UpsertDiscovery(t) \/ Star(t) \/ Unstar(t) \/ Expire(t)

Spec == Init /\ [][Next]_vars

\* The ticker of cleanupLoop, and goroutines that run to their end.
FairSpec ==
    /\ Spec
    /\ WF_vars(CleanupExpired)
    /\ \A w \in Worker : WF_vars(WorkerStep(w))

-----------------------------------------------------------------------------
(* Properties. *)

TypeOK ==
    /\ disc \in [Track -> Row]
    /\ item \in [Item -> [out : Outcome, heard : {"short", "long"}]]
    /\ ledger \subseteq Event /\ bare \subseteq Event /\ bareStarts \in [Track -> 0..MaxBare]
    /\ starred \subseteq everStarred /\ everStarred \subseteq Track /\ file \subseteq Track
    /\ worker \in [Worker -> [pc : {"idle", "check", "remove", "write"}, todo : SUBSET Track,
                              at : SUBSET Track, copy : [Track -> Row]]]
    /\ faults \in 0..MaxFaults /\ crashes \in 0..MaxCrashes /\ downloads \in 0..MaxDownloads
    /\ raced \subseteq Worker

\* The requests about track t that were applied, and those of them that the
\* ledger tells apart and that report a start.
About(t) == {e \in ledger \cup bare : TrackOf[e.item] = t}
Starts(t) == {e \in ledger : TrackOf[e.item] = t /\ e.kind = "started"}
StartsReported(t) == Cardinality(Starts(t)) + bareStarts[t]

\* Two reports of a start, a track that was heard, finished or asked to be
\* kept, or a skip after a good part of it.
Earned(t) ==
    \/ StartsReported(t) > 1
    \/ \E e \in About(t) : e.kind \in {"threshold", "completed", "keep"}
    \/ \E e, f \in About(t) : e.kind = "manual_skip" /\ f.heard = "long" /\ e.item = f.item

\* A track is kept for good only for a reason, whatever a deletion writes back
\* from its copy.  A request with an event id counts once however often its
\* client repeats it (applyPlaybackFeedback); one without counts every time it
\* arrives, so that a client that repeats it can keep a track by one play.
KeptIsEarned == \A t \in Track : disc[t].st = "kept" => Earned(t) \/ t \in everStarred

\* A file is not removed from under a user who has starred or kept its track,
\* unless that happened between the check and the removal (deleteDiscovery
\* has no lock there).
KeptSurvives ==
    [][\A t \in Track : t \in file \ file' /\ Protected(t) =>
            PastCheck(t) \cap raced # {}]_vars

\* To be deleted, or expired.
Doomed(t) == \/ disc[t].st = "delete_pending"
             \/ disc[t].st = "temporary" /\ disc[t].due = "past"

\* What is doomed is deleted or rescued in the end, also when the process
\* crashes during the two seconds after a skip or a removal fails.
DoomedIsSettled == \A t \in Track : Doomed(t) ~> ~Doomed(t)
=============================================================================
