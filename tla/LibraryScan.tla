---------------------------- MODULE LibraryScan ----------------------------
(***************************************************************************)
(* One scanner process at work on the libraries (scanner/scanner.go, its   *)
(* phases, the library and folder rows they leave in the database), while  *)
(* the files change underneath and the scan may be interrupted at any      *)
(* point.  Only one scan runs at a time: see ScanControl.                  *)
(*                                                                         *)
(* Abstractions: the contents of a folder are a version number, 0 when the *)
(* folder does not exist; versions are never reused, as every edit gives   *)
(* some file or the folder another modification time or size.  Timestamps  *)
(* are only ever compared, so each comparison is a set (fresh, touched and *)
(* overlooked below), or the version whose times the tracks have (stamp).  *)
(* The tracks of a folder form one album.  Moves of tracks (phase 2) and   *)
(* playlists (phase 4) only matter here for their errors.                  *)
(***************************************************************************)
EXTENDS Integers, FiniteSets

CONSTANTS
    Library, Folder,
    LibOf,           \* the library of each folder
    Requests,        \* the scans callers ask for: [full, sel], sel = {} for all
    MaxChanges,      \* bound: changes on disk
    MaxInterrupts,   \* bound: scans cut short
    MaxFaults        \* bound: statements and reads that fail

ASSUME LibraryAssumption == LibOf \in [Folder -> Library] /\ IsFiniteSet(Library)
ASSUME RequestsAssumption == Requests \subseteq [full : {"yes", "no"}, sel : SUBSET Folder]
ASSUME ScanBounds == MaxChanges \in Nat /\ MaxInterrupts \in Nat /\ MaxFaults \in Nat

VARIABLES
    disk,        \* version of each folder on disk
    edits,       \* changes made so far
    \* tables
    lib,         \* started: last_scan_started_at is set; full: full_scan_in_progress
    folder,      \* known: a row that is not missing; hash; of its tracks, songs:
                 \* version of the tags, and stamp: version of updated_at
    fresh,       \* folders with updated_at >= last_scan_started_at
    touched,     \* folders whose album has imported_at > last_scan_at
    pending,     \* FullScanAfterMigrationFlag
    \* the running scan
    scan, stage, walked, read, stat, listed,
    \* history
    stale,       \* folders whose album row does not reflect their tracks
    unkept,      \* libraries changed since GC and the statistics last ran
    owed,        \* folders a requested full scan has not re-imported yet
    unread,      \* folders saved although some of their tags could not be read
    overlooked,  \* folders with a track whose tags are not those of its file
                 \* although its updated_at is not before the file's time
    cut,         \* libraries of unkept whose scan was cut short when they had
                 \* no incomplete album
    interrupts, faults

tables  == <<lib, folder, fresh, touched, pending>>
history == <<stale, unkept, owed, unread, overlooked, cut>>
bounds  == <<interrupts, faults>>
vars == <<disk, edits, lib, folder, fresh, touched, pending, scan, stage,
          walked, read, stat, listed, stale, unkept, owed, unread, overlooked,
          cut, interrupts, faults>>

Version == 0..(MaxChanges + 1)
Garbled == -1

FoldersOf(L) == {f \in Folder : LibOf[f] \in L}

Idle == [pc |-> "idle", full |-> "no", sel |-> {}, libs |-> {},
         todo |-> {}, changes |-> "no", failed |-> "no", clean |-> "yes"]

Init ==
    /\ disk = [f \in Folder |-> 1]
    /\ edits = 0
    /\ lib = [l \in Library |-> [started |-> "no", full |-> "no"]]
    /\ folder = [f \in Folder |-> [known |-> "yes", hash |-> 1, songs |-> 1, stamp |-> 1]]
    /\ fresh = {} /\ touched = {}
    /\ pending \in {"yes", "no"}
    /\ scan = Idle
    /\ stage = [f \in Folder |-> "out"]
    /\ walked = [f \in Folder |-> 0]
    /\ read = [f \in Folder |-> 0] /\ stat = [f \in Folder |-> 0]
    /\ listed = {}
    /\ stale = {} /\ unkept = {} /\ unread = {} /\ overlooked = {} /\ cut = {}
    /\ owed = IF pending = "yes" THEN Folder ELSE {}
    /\ interrupts = 0 /\ faults = 0

-----------------------------------------------------------------------------
(* The file system. *)

\* Files of f are added, edited or removed, or the whole folder is; some may be
\* replaced by others with an earlier modification time.
Change(f, v) ==
    /\ edits < MaxChanges
    /\ v \in {0, edits + 2}
    /\ disk[f] # v
    /\ edits' = edits + 1
    /\ disk' = [disk EXCEPT ![f] = v]
    /\ owed' = IF v = 0 THEN owed \ {f} ELSE owed
    /\ \/ UNCHANGED overlooked
       \/ v # 0 /\ folder[f].known = "yes" /\ overlooked' = overlooked \cup {f}
    /\ UNCHANGED <<tables, scan, stage, walked, read, stat, listed, stale, unkept,
                   unread, cut, bounds>>

-----------------------------------------------------------------------------
(* scanFolders *)

\* Mutant: an interrupted full scan is not noticed.
PromotedNever(full, L) == full

\* "if there was a full scan in progress, force a full scan"
Promoted(full, L) == IF \E l \in L : lib[l].full = "yes" THEN "yes" ELSE full

SelectedLibraries(sel) == IF sel = {} THEN Library ELSE {LibOf[f] : f \in sel}
Selected(sel) == IF sel = {} THEN Folder ELSE sel

\* What a full scan of sel has to import: everything, except what the
\* interrupted full scan it resumes has imported already.
Owing(sel) ==
    {f \in Selected(sel) : disk[f] # 0 /\ ~(lib[LibOf[f]].full = "yes" /\ f \in fresh)}

\* The prologue of scanFolders, up to prepareLibrariesForScan.
Start(full, sel) ==
    LET L == SelectedLibraries(sel) IN
    /\ scan.pc = "idle"
    /\ scan' = [Idle EXCEPT !.pc = "prepare", !.full = Promoted(full, L),
                            !.sel = sel, !.todo = L, !.changes = full]
    /\ owed' = IF full = "yes" THEN owed \cup Owing(sel) ELSE owed

\* A scan asked for by the scheduler, the watcher or a user.
Request(r) ==
    /\ Start(r.full, r.sel)
    /\ UNCHANGED <<disk, edits, tables, stage, walked, read, stat, listed, stale,
                   unkept, unread, overlooked, cut, bounds>>

\* runInitialScan after a migration: the flag is deleted, then the scan asked
\* for; a scan that is already running turns it down.
InitialScan ==
    /\ pending = "yes"
    /\ pending' = "no"
    /\ \/ Start("yes", {})
       \/ scan.pc # "idle" /\ UNCHANGED <<scan, owed>>
    /\ UNCHANGED <<disk, edits, lib, folder, fresh, touched, stage, walked,
                   read, stat, listed, stale, unkept, unread, overlooked, cut, bounds>>

\* ScanBegin: last_scan_started_at is now and the kind of scan is noted, so no
\* folder counts as updated since.
Stamp(l) ==
    /\ lib' = [lib EXCEPT ![l] = [started |-> "yes", full |-> scan.full]]
    /\ fresh' = fresh \ FoldersOf({l})

\* prepareLibrariesForScan, for one library: it is stamped unless an interrupted
\* scan has left its stamp.
Begin(l) ==
    /\ scan.pc = "prepare"
    /\ l \in scan.todo
    /\ scan' = [scan EXCEPT !.todo = @ \ {l}, !.libs = @ \cup {l}]
    /\ IF lib[l].started = "no" THEN Stamp(l) ELSE UNCHANGED <<lib, fresh>>
    /\ UNCHANGED <<disk, edits, folder, touched, pending, stage, walked, read,
                   stat, listed, history, bounds>>

\* ScanBegin fails, or it succeeds and the library can not be read back: the
\* scan goes on without the library.
BeginFault(l) ==
    /\ scan.pc = "prepare"
    /\ l \in scan.todo
    /\ lib[l].started = "no"
    /\ faults < MaxFaults
    /\ faults' = faults + 1
    /\ scan' = [scan EXCEPT !.todo = @ \ {l}, !.clean = "no"]
    /\ \/ UNCHANGED <<lib, fresh>>
       \/ Stamp(l)
    /\ UNCHANGED <<disk, edits, folder, touched, pending, stage, walked, read,
                   stat, listed, history, interrupts>>

\* The scan is over and nothing of it stays in memory.
Forget ==
    /\ scan' = Idle
    /\ stage' = [f \in Folder |-> "out"]
    /\ walked' = [f \in Folder |-> 0]
    /\ read' = [f \in Folder |-> 0] /\ stat' = [f \in Folder |-> 0]
    /\ listed' = {}

\* No library is left to scan.
NothingToScan ==
    /\ scan.pc = "prepare"
    /\ scan.todo = {} /\ scan.libs = {}
    /\ Forget
    /\ UNCHANGED <<disk, edits, tables, history, bounds>>

Scope(L) == FoldersOf(L) \cap Selected(scan.sel)

\* createPhaseFolders: a job for every library of J; the jobs of the others
\* can not be created (a root that is gone), but their libraries stay in the
\* scan.
CreatePhaseFolders(J) ==
    /\ scan.pc = "prepare"
    /\ scan.todo = {} /\ scan.libs # {}
    /\ J \subseteq scan.libs
    /\ faults + Cardinality(scan.libs \ J) <= MaxFaults
    /\ faults' = faults + Cardinality(scan.libs \ J)
    /\ scan' = [scan EXCEPT !.pc = "folders",
                            !.clean = IF J = scan.libs THEN @ ELSE "no"]
    /\ listed' = {f \in Scope(J) : folder[f].known = "yes"}
    /\ stage' = [f \in Folder |-> IF f \in Scope(J) THEN "todo" ELSE "out"]
    /\ UNCHANGED <<disk, edits, tables, walked, read, stat, history, interrupts>>

-----------------------------------------------------------------------------
(* Phase 1: a pipeline, so different folders are in different stages. *)

\* Mutant: a full scan relies on the hashes as well.
IsOutdatedByHash(f) == folder[f].known = "no" \/ folder[f].hash # disk[f]

\* isOutdated: for a full scan, not yet imported since the scan began; for any
\* scan, other contents than the hash that was saved.
IsOutdated(f) ==
    \/ /\ "yes" \in {lib[LibOf[f]].full, scan.full}
       /\ f \notin fresh
    \/ folder[f].known = "no"
    \/ folder[f].hash # disk[f]

\* popLastUpdate: a folder that exists is ticked off.
Unlisted(f) == IF disk[f] # 0 THEN listed \ {f} ELSE listed

\* walkDirTree and the producer: a folder that is found leaves lastUpdates and,
\* if it is outdated, enters the pipeline.
Walk(f) ==
    /\ stage[f] = "todo"
    /\ walked' = [walked EXCEPT ![f] = disk[f]]
    /\ listed' = Unlisted(f)
    /\ stage' = [stage EXCEPT ![f] = IF disk[f] # 0 /\ IsOutdated(f) THEN "walked" ELSE "done"]
    /\ UNCHANGED <<disk, edits, tables, scan, read, stat, history, bounds>>

\* A quick scan has nothing to import when no file is later than its track,
\* and may have nothing to import when that is so of the files that changed.
NoneAfter(f) ==
    /\ scan.full = "no" /\ folder[f].known = "yes"
    /\ folder[f].stamp = disk[f] \/ f \in overlooked

SomeAfter(f) ==
    scan.full = "yes" \/ folder[f].known = "no" \/ folder[f].stamp # disk[f]

\* processFolder chooses the files to import, and ReadTags parses them, if they
\* are still there.
ProcessFolder(f) ==
    /\ stage[f] = "walked"
    /\ \/ /\ disk[f] = 0
          /\ stage' = [stage EXCEPT ![f] = "unread"] /\ UNCHANGED read
       \/ /\ disk[f] # 0 /\ NoneAfter(f)
          /\ stage' = [stage EXCEPT ![f] = "kept"] /\ UNCHANGED read
       \/ /\ disk[f] # 0 /\ SomeAfter(f)
          /\ stage' = [stage EXCEPT ![f] = "parsed"]
          /\ read' = [read EXCEPT ![f] = disk[f]]
    /\ UNCHANGED <<disk, edits, tables, scan, walked, stat, listed, history, bounds>>

\* ReadTags takes the modification times once all files are parsed; a file that
\* has gone meanwhile makes it fail.
StatFiles(f) ==
    /\ stage[f] = "parsed"
    /\ stage' = [stage EXCEPT ![f] = IF disk[f] = 0 THEN "unread" ELSE "read"]
    /\ stat' = [stat EXCEPT ![f] = disk[f]]
    /\ UNCHANGED <<disk, edits, tables, scan, walked, read, listed, history, bounds>>

\* ReadTags fails, and the folder is passed on with no tracks to save; or some
\* files can not be parsed and the others are passed on.
ProcessFault(f) ==
    /\ stage[f] = "parsed"
    /\ faults < MaxFaults
    /\ faults' = faults + 1
    /\ stage' \in {[stage EXCEPT ![f] = "unread"], [stage EXCEPT ![f] = "part"]}
    /\ stat' = [stat EXCEPT ![f] = disk[f]]
    /\ scan' = [scan EXCEPT !.clean = "no"]
    /\ UNCHANGED <<disk, edits, tables, walked, read, listed, history, interrupts>>

\* Mutant: the hash is of what is on disk when the folder is saved.
HashNow(f) == disk[f]

\* hash: the folder's modification time is the one the walk saw, while the
\* files' sizes and times are read again when the folder is saved.
Hash(f) == IF walked[f] = disk[f] THEN disk[f] ELSE Garbled

\* The stages of a folder that is ready to be saved.
Ready == {"kept", "read", "part", "unread"}

\* A full scan imports every track, and so does a quick scan if no changed file
\* is behind its track's time.
ImportsAll(f) == scan.full = "yes" \/ folder[f].known = "no" \/ f \notin overlooked

\* The tracks of f after an import of all the files or of some.  The tags may be
\* older than the times they are saved with.
SaveTracks(f, all) ==
    LET behind == read[f] # stat[f] IN
    /\ folder' = [folder EXCEPT ![f] =
         [known |-> "yes", hash |-> Hash(f), stamp |-> stat[f],
          songs |-> IF all THEN read[f] ELSE folder[f].songs]]
    /\ overlooked' =
         IF behind THEN overlooked \cup {f}
         ELSE IF all /\ stat[f] = disk[f] THEN overlooked \ {f} ELSE overlooked
    /\ unread' = unread \ {f}
    /\ owed' = IF scan.full = "yes" THEN owed \ {f} ELSE owed

\* The row of f is saved with its new hash and the tracks as they are, but for
\* those of a part that could be read.
SaveFolder(f) ==
    /\ folder' = [folder EXCEPT ![f].known = "yes", ![f].hash = Hash(f)]
    /\ overlooked' = IF stage[f] = "part" /\ read[f] # stat[f]
                     THEN overlooked \cup {f} ELSE overlooked
    /\ unread' = IF stage[f] = "kept" THEN unread ELSE unread \cup {f}
    /\ UNCHANGED owed

\* persistChanges: one transaction, with the albums written from the tracks of
\* this folder alone, to be completed by phase 3.
PersistChanges(f) ==
    LET imported == IF stage[f] \in {"read", "part"} THEN {f} ELSE {} IN
    /\ stage[f] \in Ready
    /\ scan.failed = "no"
    /\ \/ stage[f] = "read" /\ SaveTracks(f, TRUE)
       \/ stage[f] = "read" /\ ~ImportsAll(f) /\ SaveTracks(f, FALSE)
       \/ stage[f] # "read" /\ SaveFolder(f)
    /\ stage' = [stage EXCEPT ![f] = "done"]
    /\ fresh' = fresh \cup {f}
    /\ touched' = touched \cup imported
    /\ scan' = [scan EXCEPT !.changes = "yes"]
    /\ stale' = stale \cup imported
    /\ unkept' = unkept \cup {LibOf[f]}
    /\ UNCHANGED <<disk, edits, lib, pending, walked, read, stat, listed, cut, bounds>>

\* The transaction fails, or the tracks can not be loaded before: the pipeline
\* drains and the phase returns the error.
PersistFault(f) ==
    /\ stage[f] \in {"walked"} \cup Ready
    /\ scan.failed = "no"
    /\ faults < MaxFaults
    /\ faults' = faults + 1
    /\ stage' = [stage EXCEPT ![f] = "done"]
    /\ scan' = [scan EXCEPT !.failed = "yes"]
    /\ UNCHANGED <<disk, edits, tables, walked, read, stat, listed, history, interrupts>>

\* After an error nothing more is saved.
Discard(f) ==
    /\ stage[f] \in Ready
    /\ scan.failed = "yes"
    /\ stage' = [stage EXCEPT ![f] = "done"]
    /\ UNCHANGED <<disk, edits, tables, scan, walked, read, stat, listed, history, bounds>>

Drained == scan.pc = "folders" /\ \A f \in Folder : stage[f] \in {"out", "done"}

\* The libraries of the scan, of those in need of maintenance, that a scan cut
\* short here leaves without an incomplete album for the next one to find.
CutOff(needy, incomplete) ==
    {l \in scan.libs \cap needy : \A f \in incomplete : LibOf[f] # l}

\* finalize: the folders of the jobs that the walk did not find are missing,
\* with their tracks, even after an error.
FinalizeFolders ==
    /\ Drained
    /\ folder' = [f \in Folder |-> IF f \in listed THEN [known |-> "no", hash |-> 0, songs |-> 0, stamp |-> 0]
                                   ELSE folder[f]]
    /\ fresh' = fresh \cup listed
    /\ touched' = touched \cup listed
    /\ stale' = stale \cup listed
    /\ unkept' = unkept \cup {LibOf[f] : f \in listed}
    /\ owed' = owed \ listed
    /\ unread' = unread \ listed
    /\ overlooked' = overlooked \ listed
    /\ IF scan.failed = "yes" THEN Forget /\ cut' = cut \cup CutOff(unkept', stale')
       ELSE /\ scan' = [scan EXCEPT !.pc = "missing"]
            /\ listed' = {}
            /\ UNCHANGED <<stage, walked, read, stat, cut>>
    /\ UNCHANGED <<disk, edits, lib, pending, bounds>>

-----------------------------------------------------------------------------
(* The later phases. *)

\* Phase 2: tracks that moved keep their identity.
MissingTracks ==
    /\ scan.pc = "missing"
    /\ scan' = [scan EXCEPT !.pc = "albums"]
    /\ UNCHANGED <<disk, edits, tables, stage, walked, read, stat, listed, history, bounds>>

\* Mutant: only the albums this scan has imported are looked at.
TouchedInScan == {f \in touched : LibOf[f] \in scan.libs /\ walked[f] # 0}

\* GetTouchedAlbums of the scan's libraries.
TouchedAlbums == {f \in touched : LibOf[f] \in scan.libs}

\* Phase 3: an album that differs from its tracks is saved again.
RefreshAlbum(f) ==
    /\ scan.pc = "albums"
    /\ f \in TouchedAlbums \cap stale
    /\ stale' = stale \ {f}
    /\ scan' = [scan EXCEPT !.changes = "yes"]
    /\ UNCHANGED <<disk, edits, tables, stage, walked, read, stat, listed, unkept, owed,
                   unread, overlooked, cut, bounds>>

AlbumsRefreshed ==
    /\ scan.pc = "albums"
    /\ TouchedAlbums \cap stale = {}
    /\ scan' = [scan EXCEPT !.pc = "keep"]
    /\ UNCHANGED <<disk, edits, tables, stage, walked, read, stat, listed, history, bounds>>

\* runGC, runEnqueueMissingArtwork and runRefreshStats do nothing unless this
\* scan has detected changes.
Maintained == IF scan.changes = "yes" THEN scan.libs ELSE {}

RunMaintenance ==
    /\ scan.pc = "keep"
    /\ unkept' = unkept \ Maintained
    /\ cut' = cut \ Maintained
    /\ scan' = [scan EXCEPT !.pc = "end"]
    /\ UNCHANGED <<disk, edits, tables, stage, walked, read, stat, listed, stale, owed,
                   unread, overlooked, bounds>>

\* runUpdateLibraries: ScanEnd for every library of the scan, in a transaction.
UpdateLibraries ==
    /\ scan.pc = "end"
    /\ lib' = [l \in Library |-> IF l \in scan.libs THEN [started |-> "no", full |-> "no"]
                                 ELSE lib[l]]
    /\ touched' = touched \ FoldersOf(scan.libs)
    /\ Forget
    /\ UNCHANGED <<disk, edits, folder, fresh, pending, history, bounds>>

\* A phase returns an error, the server shuts down, or the process dies.
Interrupt ==
    /\ scan.pc # "idle"
    /\ interrupts < MaxInterrupts
    /\ interrupts' = interrupts + 1
    /\ Forget
    /\ cut' = cut \cup CutOff(unkept, stale)
    /\ UNCHANGED <<disk, edits, tables, stale, unkept, owed, unread, overlooked, faults>>

-----------------------------------------------------------------------------

FolderStep(f) ==
    \/ Walk(f) \/ ProcessFolder(f) \/ StatFiles(f) \/ ProcessFault(f)
    \/ PersistChanges(f) \/ PersistFault(f) \/ Discard(f)
    \/ RefreshAlbum(f)

ScanStep ==
    \/ \E l \in Library : Begin(l) \/ BeginFault(l)
    \/ NothingToScan
    \/ \E J \in SUBSET Library : CreatePhaseFolders(J)
    \/ \E f \in Folder : FolderStep(f)
    \/ FinalizeFolders \/ MissingTracks \/ AlbumsRefreshed
    \/ RunMaintenance \/ UpdateLibraries

Next ==
    \/ \E f \in Folder, v \in 0..(MaxChanges + 1) : Change(f, v)
    \/ \E r \in Requests : Request(r)
    \/ InitialScan
    \/ ScanStep
    \/ Interrupt

Spec == Init /\ [][Next]_vars

-----------------------------------------------------------------------------
(* Properties *)

Flag == {"yes", "no"}

Row == [known : Flag, hash : Version \cup {Garbled}, songs : Version, stamp : Version]
Stages == {"out", "todo", "walked", "parsed", "kept", "read", "part", "unread", "done"}

Scan == [pc : {"idle", "prepare", "folders", "missing", "albums", "keep", "end"},
         full : Flag, sel : SUBSET Folder, libs : SUBSET Library,
         todo : SUBSET Library, changes : Flag, failed : Flag, clean : Flag]

\* Every variable has its type, and a folder about to be declared missing is
\* one the walk has yet to visit or did not find.
TypeOK ==
    /\ disk \in [Folder -> Version] /\ edits \in 0..MaxChanges
    /\ lib \in [Library -> [started : Flag, full : Flag]]
    /\ folder \in [Folder -> Row]
    /\ fresh \subseteq Folder /\ touched \subseteq Folder /\ pending \in Flag
    /\ scan \in Scan
    /\ stage \in [Folder -> Stages]
    /\ walked \in [Folder -> Version] /\ read \in [Folder -> Version]
    /\ stat \in [Folder -> Version]
    /\ listed \subseteq {f \in Folder : folder[f].known = "yes"}
    /\ \A f \in listed : stage[f] = "todo" \/ (stage[f] = "done" /\ walked[f] = 0)
    /\ stale \subseteq Folder /\ unkept \subseteq Library
    /\ owed \subseteq Folder /\ unread \subseteq Folder
    /\ overlooked \subseteq Folder /\ cut \subseteq Library
    /\ interrupts \in 0..MaxInterrupts /\ faults \in 0..MaxFaults

\* A folder that a quick scan would skip has been imported as it is on disk,
\* however the files changed while the scan walked, read and saved them.  The
\* exceptions are a folder saved although tags could not be read, and one with
\* a file that is not later than its track (phase_1_folders.go:240): replaced
\* by an older one, or edited after ReadTags parsed it and before it took its
\* time (core/storage/local/local.go:77-87).  Only a full scan mends those.
SkippedIsImported ==
    \A f \in Folder \ (unread \cup overlooked) :
        folder[f].known = "yes" /\ folder[f].hash = disk[f] =>
            folder[f].songs = disk[f]

\* The incomplete album rows of phase 1 stay on the list phase 3 works from,
\* across interruptions and scans of other folders, until they are completed.
IncompleteAlbumsTouched == stale \subseteq touched

\* A resumed full scan may skip what it skips: a folder that counts as done
\* since the stamp of a full scan has been imported by a full scan, unless its
\* tags could not be read.
ResumeIsSound ==
    \A l \in Library :
        lib[l].full = "yes" => FoldersOf({l}) \cap fresh \cap owed \subseteq unread

\* When a scan of everything ends on a library that is marked for a full scan,
\* however many interruptions and quick requests it took to get there, every
\* folder that was to be imported again has been, unless a read failed.
MarkedFullScanCovers ==
    [][UpdateLibraries =>
        \A l \in scan.libs :
            (lib[l].full = "yes" /\ scan.sel = {} /\ scan.clean = "yes") =>
                FoldersOf({l}) \cap owed \subseteq unread]_vars

\* A library whose statistics and garbage are not up to date is still being
\* scanned, or is to be scanned again: a scan cut short leaves its stamp, and
\* the albums it left incomplete make the next one run the maintenance.  The
\* exception is a library whose own scan was cut short when its albums were
\* complete, until a scan of it finds other changes.
UnkeptOnlyByInterruption ==
    \A l \in unkept \ cut : lib[l].started = "yes"

-----------------------------------------------------------------------------
(* Liveness *)

PeriodicScan == [full |-> "no", sel |-> {}]

\* A scan runs on as long as it is not interrupted, and the scheduler asks for
\* quick scans for ever: it may find a scan running, but not every time.
Fairness == WF_vars(ScanStep) /\ SF_vars(Request(PeriodicScan))

FairSpec == Spec /\ Fairness

\* Once the files stop changing the database gets to reflect them, whatever
\* was interrupted before: quick scans alone find every folder that differs,
\* and every album is completed.  The exceptions are those of SkippedIsImported.
DatabaseCatchesUp ==
    \A f \in Folder :
        <>[](/\ f \notin stale
             /\ folder[f].songs = disk[f] \/ f \in unread \cup overlooked)
=============================================================================
