------------------------- MODULE LibraryScanProofs -------------------------
(***************************************************************************)
(* Proofs about LibraryScan, for any libraries and folders, any requests   *)
(* and any bounds.                                                         *)
(***************************************************************************)
EXTENDS LibraryScan, FiniteSetTheorems, TLAPS

-----------------------------------------------------------------------------
(* The inductive invariants *)

\* The pipeline holds folders of the libraries of the scan only, and is empty
\* but for phase 1.
Staged ==
    /\ scan.pc \in {"idle", "prepare"} => \A f \in Folder : stage[f] = "out"
    /\ scan.pc # "folders" => \A f \in Folder : stage[f] \in {"out", "done"}
    /\ \A f \in Folder : stage[f] # "out" => LibOf[f] \in scan.libs
    /\ \A l \in scan.libs : lib[l].started = "yes"
    /\ \A f \in Folder : stage[f] = "kept" => scan.full = "no" /\ folder[f].known = "yes"

Typed == TypeOK /\ Staged

\* Versions are never reused, and what was walked and is on disk still was on
\* disk in between.  The tags and the times of the tracks are of one version,
\* but for the exceptions.
Dated(f) ==
    /\ disk[f] <= edits + 1 /\ folder[f].hash <= edits + 1 /\ walked[f] <= edits + 1
    /\ folder[f].known = "yes" => folder[f].hash # 0
    /\ stage[f] \in {"walked", "parsed"} \cup Ready => walked[f] # 0
    /\ stage[f] \in {"parsed", "read"} /\ walked[f] = disk[f] => read[f] = disk[f]
    /\ stage[f] = "read" /\ walked[f] = disk[f] => stat[f] = disk[f]
    /\ stage[f] = "kept" /\ walked[f] = disk[f] =>
           folder[f].stamp = disk[f] \/ f \in overlooked
    /\ folder[f].known = "yes" /\ f \notin unread \cup overlooked =>
           folder[f].songs = folder[f].stamp

Versions == SkippedIsImported /\ \A f \in Folder : Dated(f)

\* Once phase 3 is over no album of the scan's libraries is incomplete.
Completed ==
    scan.pc \in {"keep", "end"} => \A f \in stale : LibOf[f] \notin scan.libs

Albums == IncompleteAlbumsTouched /\ Completed

\* A quick scan has no library with the mark of a full scan.
Marked ==
    scan.full = "no" => \A l \in scan.libs \cup scan.todo : lib[l].full = "no"

Resume == ResumeIsSound /\ Marked /\ \A f \in owed : disk[f] # 0

\* A scan of everything visits every folder of a library it is not kept from,
\* and what it is done with is imported.
Undisturbed == scan.sel = {} /\ scan.clean = "yes" /\ scan.failed = "no"
Visited(f) ==
    /\ stage[f] # "out"
    /\ stage[f] = "done" /\ lib[LibOf[f]].full = "yes" /\ f \in owed => f \in unread
Covered ==
    /\ scan.pc \notin {"idle", "prepare"} /\ Undisturbed =>
          \A f \in FoldersOf(scan.libs) : Visited(f)
    /\ scan.pc # "folders" => scan.failed = "no"

\* Changes of a library are remembered until maintenance: by the scan, or by
\* the albums the scan or the next one of the library will save.
Remembered(l) ==
    /\ lib[l].started = "yes"
    /\ \/ /\ l \in scan.libs /\ scan.changes = "yes"
          /\ scan.pc \in {"folders", "missing", "albums", "keep"}
       \/ \E f \in stale : LibOf[f] = l
Tended == \A l \in unkept \ cut : Remembered(l)

-----------------------------------------------------------------------------
(* Type correctness *)

LEMMA IdleScan == Idle \in Scan /\ Idle.pc = "idle" /\ Idle.libs = {} /\ Idle.todo = {}
  BY DEF Idle, Scan, Flag

LEMMA TypedInit == Init => Typed
  <1> SUFFICES ASSUME Init PROVE Typed
    OBVIOUS
  <1>1. TypeOK
    BY IdleScan, ScanBounds DEF Init, TypeOK, Version, Garbled, Flag, Row, Stages
  <1>2. Staged
    BY IdleScan DEF Init, Staged
  <1> QED
    BY <1>1, <1>2 DEF Typed

LEMMA SelectedTypes ==
  ASSUME NEW sel \in SUBSET Folder
  PROVE  SelectedLibraries(sel) \in SUBSET Library /\ Selected(sel) \in SUBSET Folder
  BY LibraryAssumption DEF SelectedLibraries, Selected

LEMMA StartTyped ==
  ASSUME Typed, NEW full \in Flag, NEW sel \in SUBSET Folder, Start(full, sel)
  PROVE  /\ scan' \in Scan /\ scan'.pc = "prepare" /\ scan'.libs = {} /\ scan'.sel = sel
         /\ scan'.todo = SelectedLibraries(sel) /\ scan'.full = Promoted(full, SelectedLibraries(sel))
         /\ owed' \subseteq Folder
         /\ \A f \in owed' : f \in owed \/ (f \in Owing(sel) /\ full = "yes")
  <1>1. Promoted(full, SelectedLibraries(sel)) \in Flag
    BY DEF Promoted, Flag
  <1>2. owed \subseteq Folder /\ Owing(sel) \subseteq Folder
    BY SelectedTypes DEF Typed, TypeOK, Owing
  <1> DEFINE L == SelectedLibraries(sel)
  <1>3. scan' = [Idle EXCEPT !.pc = "prepare", !.full = Promoted(full, L),
                            !.sel = sel, !.todo = L, !.changes = full]
    BY DEF Start
  <1>4. L \in SUBSET Library
    BY SelectedTypes
  <1> HIDE DEF L
  <1>5. scan' \in Scan /\ scan'.pc = "prepare" /\ scan'.libs = {} /\ scan'.sel = sel
        /\ scan'.todo = L /\ scan'.full = Promoted(full, L)
    BY <1>1, <1>3, <1>4, IdleScan DEF Scan, Idle, Flag, L
  <1> QED
    BY <1>2, <1>5 DEF Start, L

LEMMA ForgetTyped ==
  ASSUME Forget
  PROVE  /\ scan' \in Scan /\ scan'.pc = "idle" /\ scan'.libs = {} /\ scan'.todo = {}
         /\ stage' = [f \in Folder |-> "out"] /\ walked' \in [Folder -> Version]
         /\ read' \in [Folder -> Version] /\ stat' \in [Folder -> Version] /\ listed' = {}
  BY IdleScan, ScanBounds DEF Forget, Version

LEMMA StampTyped ==
  ASSUME Typed, NEW l \in Library, Stamp(l)
  PROVE  /\ lib' \in [Library -> [started : Flag, full : Flag]] /\ fresh' \subseteq Folder
         /\ lib'[l].started = "yes" /\ lib'[l].full = scan.full
         /\ \A k \in Library : k # l => lib'[k] = lib[k]
  <1>1. scan.full \in Flag /\ [started |-> "yes", full |-> scan.full] \in [started : Flag, full : Flag]
    BY DEF Typed, TypeOK, Scan, Flag
  <1>2. lib \in [Library -> [started : Flag, full : Flag]] /\ fresh \subseteq Folder
    BY DEF Typed, TypeOK
  <1> QED
    BY <1>1, <1>2 DEF Stamp

\* The scan record after each of its steps.
LEMMA ScanMoves ==
  ASSUME TypeOK
  PROVE  /\ \A l \in Library : /\ [scan EXCEPT !.todo = @ \ {l}, !.libs = @ \cup {l}] \in Scan
                              /\ [scan EXCEPT !.todo = @ \ {l}, !.clean = "no"] \in Scan
         /\ [scan EXCEPT !.clean = "no"] \in Scan
         /\ [scan EXCEPT !.failed = "yes"] \in Scan
         /\ [scan EXCEPT !.changes = "yes"] \in Scan
         /\ \A c \in Flag : [scan EXCEPT !.pc = "folders", !.clean = c] \in Scan
         /\ \A p \in {"missing", "albums", "keep", "end"} : [scan EXCEPT !.pc = p] \in Scan
  <1>1. scan \in Scan
    BY DEF TypeOK
  <1> QED
    BY <1>1 DEF Scan, Flag

LEMMA ChangeTyped ==
  ASSUME Typed, NEW f \in Folder, NEW v \in Version, Change(f, v)
  PROVE  Typed'
  <1>1. edits' \in 0..MaxChanges /\ disk' \in [Folder -> Version] /\ owed' \subseteq Folder
        /\ overlooked' \subseteq Folder
    BY ScanBounds DEF Change, Typed, TypeOK
  <1> QED
    BY <1>1 DEF Change, Typed, TypeOK, Staged, tables, bounds

LEMMA RequestTyped ==
  ASSUME Typed, NEW full \in Flag, NEW sel \in SUBSET Folder, Start(full, sel),
         pending' \in Flag,
         UNCHANGED <<disk, edits, lib, folder, fresh, touched, stage, walked, read, stat, listed, stale,
                     unkept, unread, overlooked, cut, bounds>>
  PROVE  Typed'
  <1>1. scan.pc = "idle"
    BY DEF Start
  <1>2. \A f \in Folder : stage[f] = "out"
    BY <1>1 DEF Typed, Staged
  <1>3. TypeOK'
    BY StartTyped DEF Typed, TypeOK, bounds
  <1> QED
    BY <1>2, <1>3, StartTyped DEF Typed, Staged

LEMMA BeginTyped ==
  ASSUME Typed, NEW l \in Library, Begin(l) \/ BeginFault(l)
  PROVE  /\ Typed' /\ scan'.pc = "prepare" /\ scan'.full = scan.full /\ scan'.sel = scan.sel
         /\ scan'.todo = scan.todo \ {l} /\ scan'.libs \subseteq scan.libs \cup {l}
         /\ scan'.changes = scan.changes /\ scan'.failed = scan.failed
  <1>0. TypeOK /\ Staged /\ scan \in Scan
    BY DEF Typed, TypeOK
  <1>1. scan.pc = "prepare" /\ l \in scan.todo
        /\ UNCHANGED <<disk, edits, folder, touched, pending, stage, walked, read, stat, listed, history,
                       interrupts>>
        /\ \/ UNCHANGED <<lib, fresh>> /\ (Begin(l) => lib[l].started = "yes")
           \/ Stamp(l)
    <2>1. lib[l].started \in Flag
      BY <1>0 DEF TypeOK
    <2> QED
      BY <2>1 DEF Begin, BeginFault, bounds, Flag
  <1>2. /\ lib' \in [Library -> [started : Flag, full : Flag]] /\ fresh' \subseteq Folder
        /\ \A k \in Library : lib[k].started = "yes" => lib'[k].started = "yes"
        /\ Begin(l) => lib'[l].started = "yes"
    BY <1>0, <1>1, StampTyped DEF TypeOK
  <1>3. faults' \in 0..MaxFaults
    BY <1>0, ScanBounds DEF Begin, BeginFault, TypeOK, bounds
  <1>4. /\ scan' \in Scan /\ scan'.pc = "prepare" /\ scan'.full = scan.full /\ scan'.sel = scan.sel
        /\ scan'.todo = scan.todo \ {l} /\ (Begin(l) => scan'.libs = scan.libs \cup {l})
        /\ (BeginFault(l) => scan'.libs = scan.libs)
        /\ scan'.changes = scan.changes /\ scan'.failed = scan.failed
    <2>1. CASE Begin(l)
      <3>1. scan' = [scan EXCEPT !.todo = @ \ {l}, !.libs = @ \cup {l}] /\ ~BeginFault(l)
        <4>1. ~BeginFault(l)
          <5> SUFFICES ASSUME BeginFault(l) PROVE FALSE
            OBVIOUS
          <5>1. UNCHANGED faults /\ faults' = faults + 1 /\ faults \in Int
            BY <1>0, <2>1 DEF Begin, BeginFault, bounds, TypeOK
          <5> QED
            BY <5>1
        <4> QED
          BY <2>1, <4>1 DEF Begin
      <3> QED
        <4>1. scan' \in Scan
          BY <1>0, <3>1, ScanMoves
        <4>2. /\ scan'.pc = scan.pc /\ scan'.full = scan.full /\ scan'.sel = scan.sel
              /\ scan'.todo = scan.todo \ {l} /\ scan'.libs = scan.libs \cup {l}
              /\ scan'.changes = scan.changes /\ scan'.failed = scan.failed
          BY <1>0, <3>1 DEF Scan
        <4> QED
          BY <1>1, <3>1, <4>1, <4>2
    <2>2. CASE BeginFault(l) /\ ~Begin(l)
      <3>1. scan' = [scan EXCEPT !.todo = @ \ {l}, !.clean = "no"]
        BY <2>2 DEF BeginFault
      <3> QED
        <4>1. scan' \in Scan
          BY <1>0, <3>1, ScanMoves
        <4>2. /\ scan'.pc = scan.pc /\ scan'.full = scan.full /\ scan'.sel = scan.sel
              /\ scan'.todo = scan.todo \ {l} /\ scan'.libs = scan.libs
              /\ scan'.changes = scan.changes /\ scan'.failed = scan.failed
          BY <1>0, <3>1 DEF Scan
        <4> QED
          BY <1>1, <2>2, <4>1, <4>2
    <2> QED
      BY <2>1, <2>2
  <1>5. Staged'
    <2>1. \A f \in Folder : stage'[f] = "out"
      BY <1>0, <1>1 DEF Staged
    <2>2. \A k \in scan'.libs : lib'[k].started = "yes"
      <3>1. scan.libs \subseteq Library
        BY <1>0 DEF Scan
      <3>2. \A k \in scan.libs : lib'[k].started = "yes"
        BY <1>0, <1>2, <3>1 DEF Staged
      <3> QED
        BY <1>2, <1>4, <3>2
    <2> QED
      BY <2>1, <2>2 DEF Staged
  <1>6. TypeOK'
    BY <1>0, <1>1, <1>2, <1>3, <1>4 DEF TypeOK, history
  <1> QED
    BY <1>4, <1>5, <1>6 DEF Typed

\* A step that leaves the tables but for the scan in memory.
LEMMA CreateTyped ==
  ASSUME Typed, NEW J \in SUBSET Library, CreatePhaseFolders(J)
  PROVE  /\ Typed' /\ scan'.pc = "folders" /\ scan'.full = scan.full /\ scan'.sel = scan.sel
         /\ scan'.libs = scan.libs /\ scan'.todo = scan.todo
         /\ scan'.changes = scan.changes /\ scan'.failed = scan.failed
         /\ scan'.clean = "yes" => J = scan.libs
         /\ faults' >= faults
  <1>0. TypeOK /\ Staged /\ scan \in Scan /\ scan.libs \subseteq Library
    BY DEF Typed, TypeOK, Scan
  <1>1. Cardinality(scan.libs \ J) \in Nat
    BY <1>0, LibraryAssumption, FS_Subset, FS_CardinalityType
  <1>2. faults' \in 0..MaxFaults /\ faults' >= faults
    BY <1>0, <1>1, ScanBounds DEF CreatePhaseFolders, TypeOK
  <1>3. PICK c \in Flag : /\ scan' = [scan EXCEPT !.pc = "folders", !.clean = c]
                          /\ c = IF J = scan.libs THEN scan.clean ELSE "no"
    BY <1>0 DEF CreatePhaseFolders, Scan, Flag
  <1>4. /\ scan' \in Scan /\ scan'.pc = "folders" /\ scan'.full = scan.full /\ scan'.sel = scan.sel
        /\ scan'.libs = scan.libs /\ scan'.todo = scan.todo
        /\ scan'.changes = scan.changes /\ scan'.failed = scan.failed /\ scan'.clean = c
    <2>1. scan' \in Scan
      BY <1>0, <1>3, ScanMoves
    <2>2. /\ scan'.pc = "folders" /\ scan'.full = scan.full /\ scan'.sel = scan.sel
          /\ scan'.libs = scan.libs /\ scan'.todo = scan.todo
          /\ scan'.changes = scan.changes /\ scan'.failed = scan.failed /\ scan'.clean = c
      BY <1>0, <1>3 DEF Scan
    <2> QED
      BY <2>1, <2>2
  <1>5. Scope(J) \subseteq Folder /\ \A f \in Scope(J) : LibOf[f] \in J
    BY DEF Scope, FoldersOf
  <1>6. J \subseteq scan.libs
    BY DEF CreatePhaseFolders
  <1>7. stage' \in [Folder -> {"out", "todo"}]
        /\ \A f \in Folder : stage'[f] = "todo" <=> f \in Scope(J)
    BY DEF CreatePhaseFolders
  <1>8. listed' \subseteq {f \in Folder : folder[f].known = "yes"} /\ listed' \subseteq Scope(J)
    BY <1>5 DEF CreatePhaseFolders
  <1>9. Staged'
    BY <1>0, <1>4, <1>5, <1>6, <1>7 DEF Staged, CreatePhaseFolders, tables
  <1>10. TypeOK'
    BY <1>0, <1>2, <1>4, <1>7, <1>8 DEF TypeOK, Stages, CreatePhaseFolders, tables, history
  <1> QED
    BY <1>2, <1>3, <1>4, <1>9, <1>10 DEF Typed

\* What the pipeline leaves of the record of the scan.
SameRun ==
    /\ scan' \in Scan /\ scan'.pc = scan.pc /\ scan'.full = scan.full /\ scan'.sel = scan.sel
    /\ scan'.libs = scan.libs /\ scan'.todo = scan.todo

LEMMA FolderScan ==
  ASSUME TypeOK, NEW f \in Folder, FolderStep(f)
  PROVE  /\ SameRun /\ UNCHANGED <<disk, edits, lib, pending, interrupts>>
         /\ faults' \in 0..MaxFaults /\ faults' >= faults
         /\ RefreshAlbum(f) \/ PersistChanges(f) => scan'.changes = "yes"
         /\ scan'.changes = scan.changes \/ scan'.changes = "yes"
         /\ scan'.failed = scan.failed \/ (scan'.failed = "yes" /\ faults' = faults + 1)
         /\ scan'.clean = scan.clean \/ (scan'.clean = "no" /\ faults' = faults + 1)
  <1>0. scan \in Scan
    BY DEF TypeOK
  <1>1. /\ faults \in 0..MaxFaults
        /\ \/ scan' = scan /\ faults' = faults
           \/ scan' = [scan EXCEPT !.clean = "no"] /\ faults < MaxFaults /\ faults' = faults + 1
           \/ scan' = [scan EXCEPT !.changes = "yes"] /\ faults' = faults
           \/ scan' = [scan EXCEPT !.failed = "yes"] /\ faults < MaxFaults /\ faults' = faults + 1
    BY DEF TypeOK, FolderStep, Walk, ProcessFolder, StatFiles, ProcessFault, PersistChanges, PersistFault,
           Discard, RefreshAlbum, bounds
  <1>2. RefreshAlbum(f) \/ PersistChanges(f) => scan'.changes = "yes"
    BY <1>0 DEF RefreshAlbum, PersistChanges, Scan
  <1>3. scan' \in Scan
    BY <1>0, <1>1, ScanMoves
  <1>4. /\ scan'.pc = scan.pc /\ scan'.full = scan.full /\ scan'.sel = scan.sel
        /\ scan'.libs = scan.libs /\ scan'.todo = scan.todo
    BY <1>0, <1>1 DEF Scan
  <1>5. /\ scan'.changes = scan.changes \/ scan'.changes = "yes"
        /\ scan'.failed = scan.failed \/ (scan'.failed = "yes" /\ faults' = faults + 1)
        /\ scan'.clean = scan.clean \/ (scan'.clean = "no" /\ faults' = faults + 1)
    BY <1>0, <1>1 DEF Scan
  <1>6. faults' \in 0..MaxFaults /\ faults' >= faults
    BY <1>1, ScanBounds
  <1>7. UNCHANGED <<disk, edits, lib, pending, interrupts>>
    BY DEF FolderStep, Walk, ProcessFolder, StatFiles, ProcessFault, PersistChanges, PersistFault,
           Discard, RefreshAlbum, bounds, tables
  <1> QED
    BY <1>2, <1>3, <1>4, <1>5, <1>6, <1>7 DEF SameRun

\* The move of a folder through the pipeline, and what else changes with it.
LEMMA FolderMoves ==
  ASSUME Typed, NEW f \in Folder, FolderStep(f), ~RefreshAlbum(f)
  PROVE  /\ stage[f] \notin {"out", "done"} /\ scan.pc = "folders"
         /\ stage' \in [Folder -> Stages]
         /\ stage'[f] \notin {"out", "todo"}
         /\ \A g \in Folder : g # f => stage'[g] = stage[g]
  <1>1. stage \in [Folder -> Stages]
    BY DEF Typed, TypeOK
  <1>2. PICK q \in Stages \ {"out", "todo"} : stage' = [stage EXCEPT ![f] = q]
    BY DEF Stages, FolderStep, Walk, ProcessFolder, StatFiles, ProcessFault, PersistChanges, PersistFault, Discard
  <1>3. stage[f] \notin {"out", "done"}
    BY DEF Ready, FolderStep, Walk, ProcessFolder, StatFiles, ProcessFault, PersistChanges, PersistFault, Discard
  <1>4. scan.pc = "folders"
    BY <1>3 DEF Typed, Staged
  <1> QED
    BY <1>1, <1>2, <1>3, <1>4

\* The pipeline takes no folder off the known ones.
LEMMA KnownKept ==
  ASSUME TypeOK, NEW f \in Folder, FolderStep(f)
  PROVE  /\ folder' \in [Folder -> Row]
         /\ \A g \in Folder : folder[g].known = "yes" => folder'[g].known = "yes"
         /\ \A g \in Folder : g # f => folder'[g] = folder[g]
  <1>0. folder \in [Folder -> Row] /\ read[f] \in Version /\ stat[f] \in Version
    BY DEF TypeOK
  <1>1. CASE PersistChanges(f)
    <2>1. Hash(f) \in Version \cup {Garbled}
      BY DEF Hash, TypeOK
    <2>2. CASE \E all \in BOOLEAN : SaveTracks(f, all)
      <3>1. PICK n \in Version : folder' = [folder EXCEPT ![f] =
              [known |-> "yes", hash |-> Hash(f), stamp |-> stat[f], songs |-> n]]
        BY <1>0, <2>2 DEF SaveTracks, Row
      <3> QED
        BY <1>0, <2>1, <3>1 DEF Row, Flag
    <2>3. CASE SaveFolder(f)
      <3>1. folder' = [folder EXCEPT ![f] = [folder[f] EXCEPT !.known = "yes", !.hash = Hash(f)]]
        BY <1>0, <2>3 DEF SaveFolder, Row
      <3> QED
        BY <1>0, <2>1, <3>1 DEF Row, Flag
    <2> QED
      BY <1>1, <2>2, <2>3 DEF PersistChanges
  <1>2. CASE UNCHANGED folder
    BY <1>0, <1>2
  <1> QED
    BY <1>1, <1>2
    DEF FolderStep, Walk, ProcessFolder, StatFiles, ProcessFault, PersistFault, Discard, RefreshAlbum, tables

LEMMA FolderTyped ==
  ASSUME Typed, NEW f \in Folder, FolderStep(f)
  PROVE  Typed'
  <1>0. TypeOK /\ Staged /\ SameRun /\ UNCHANGED <<disk, edits, lib, pending, interrupts>>
        /\ faults' \in 0..MaxFaults
    BY FolderScan DEF Typed
  <1>1. CASE RefreshAlbum(f)
    <2>1. Staged'
      BY <1>0, <1>1 DEF RefreshAlbum, Staged, SameRun
    <2>2. stale' \subseteq Folder
      BY <1>0, <1>1 DEF RefreshAlbum, TypeOK
    <2>3. TypeOK'
      BY <1>0, <1>1, <2>2 DEF RefreshAlbum, TypeOK, SameRun, tables
    <2> QED
      BY <2>1, <2>3 DEF Typed
  <1>2. CASE ~RefreshAlbum(f)
    <2>1. Staged'
      <3>1. scan'.pc = "folders" /\ LibOf[f] \in scan'.libs
        BY <1>0, <1>2, FolderMoves DEF SameRun, Staged
      <3>2. \A g \in Folder : stage'[g] # "out" => LibOf[g] \in scan'.libs
        BY <1>0, <1>2, <3>1, FolderMoves DEF SameRun, Staged
      <3>3. \A g \in Folder : stage'[g] = "kept" => scan'.full = "no" /\ folder'[g].known = "yes"
        <4>1. ASSUME NEW g \in Folder, stage'[g] = "kept"
              PROVE  scan.full = "no" /\ folder[g].known = "yes"
          <5>1. CASE stage[g] = "kept"
            BY <1>0, <5>1 DEF Staged
          <5>2. CASE stage[g] # "kept"
            <6>1. g = f
              BY <1>2, <4>1, <5>2, FolderMoves
            <6>2. stage \in [Folder -> Stages]
              BY <1>0 DEF TypeOK
            <6>3. ProcessFolder(f)
              BY <1>2, <4>1, <6>1, <6>2
              DEF FolderStep, Walk, StatFiles, ProcessFault, PersistChanges, PersistFault, Discard
            <6> QED
              BY <4>1, <6>1, <6>2, <6>3 DEF ProcessFolder, NoneAfter
          <5> QED
            BY <5>1, <5>2
        <4> QED
          BY <1>0, <1>2, <4>1, KnownKept DEF SameRun
      <3> QED
        BY <1>0, <3>1, <3>2, <3>3 DEF Staged, SameRun
    <2>2. /\ walked' \in [Folder -> Version] /\ read' \in [Folder -> Version]
          /\ stat' \in [Folder -> Version] /\ overlooked' \subseteq Folder /\ cut' \subseteq Library
          /\ fresh' \subseteq Folder /\ touched' \subseteq Folder /\ stale' \subseteq Folder
          /\ unkept' \subseteq Library /\ owed' \subseteq Folder /\ unread' \subseteq Folder
      <3>1. LibOf[f] \in Library
        BY LibraryAssumption
      <3> QED
        BY <1>0, <1>2, <3>1
        DEF TypeOK, FolderStep, Walk, ProcessFolder, StatFiles, ProcessFault, PersistChanges, PersistFault,
            Discard, SaveTracks, SaveFolder, tables, history
    <2>3. /\ folder' \in [Folder -> Row]
          /\ \A g \in Folder : folder[g].known = "yes" => folder'[g].known = "yes"
      BY <1>0, <1>2, KnownKept
    <2>4. /\ listed' \subseteq listed
          /\ \A g \in listed' : stage'[g] = "todo" \/ (stage'[g] = "done" /\ walked'[g] = 0)
      <3>1. CASE Walk(f)
        <4>1. listed' \subseteq listed
          BY <3>1 DEF Walk, Unlisted
        <4>2. ASSUME NEW g \in listed', g = f
              PROVE  stage'[g] = "done" /\ walked'[g] = 0
          <5>1. disk[f] = 0
            BY <3>1, <4>2 DEF Walk, Unlisted
          <5> QED
            BY <1>0, <3>1, <4>2, <5>1 DEF Walk, TypeOK
        <4>3. ASSUME NEW g \in listed', g # f
              PROVE  stage'[g] = stage[g] /\ walked'[g] = walked[g] /\ g \in listed
          BY <1>0, <3>1, <4>1, <4>3 DEF Walk, TypeOK
        <4> QED
          BY <1>0, <4>1, <4>2, <4>3 DEF TypeOK
      <3>2. CASE ~Walk(f)
        <4>1. listed' = listed /\ walked' = walked /\ stage[f] \notin {"todo", "done"}
          BY <1>2, <3>2 DEF FolderStep, ProcessFolder, StatFiles, ProcessFault, PersistChanges, PersistFault,
                              Discard, Ready
        <4>2. f \notin listed
          BY <1>0, <4>1 DEF TypeOK
        <4> QED
          BY <1>0, <1>2, <4>1, <4>2, FolderMoves DEF TypeOK
      <3> QED
        BY <3>1, <3>2
    <2>5. listed' \subseteq {g \in Folder : folder'[g].known = "yes"}
      BY <1>0, <2>3, <2>4 DEF TypeOK
    <2>6. stage' \in [Folder -> Stages]
      BY <1>2, FolderMoves
    <2>7. TypeOK'
      BY <1>0, <2>2, <2>3, <2>4, <2>5, <2>6 DEF TypeOK, SameRun
    <2> QED
      BY <2>1, <2>7 DEF Typed
  <1> QED
    BY <1>1, <1>2

\* finalize of phase 1: the scan goes on, or is forgotten after an error.
LEMMA FinalizeScan ==
  ASSUME Typed, FinalizeFolders
  PROVE  /\ scan.pc = "folders" /\ (\A f \in Folder : stage[f] \in {"out", "done"})
         /\ listed \subseteq Folder /\ listed' = {}
         /\ UNCHANGED <<disk, edits, lib, pending, interrupts, faults>>
         /\ scan' \in Scan
         /\ \/ scan.failed = "yes" /\ Forget
            \/ /\ scan.failed = "no" /\ scan'.pc = "missing" /\ UNCHANGED <<stage, walked, read, stat>>
               /\ scan'.full = scan.full /\ scan'.sel = scan.sel /\ scan'.libs = scan.libs
               /\ scan'.todo = scan.todo /\ scan'.changes = scan.changes
               /\ scan'.failed = scan.failed /\ scan'.clean = scan.clean
  <1>0. TypeOK /\ scan \in Scan /\ scan.failed \in {"yes", "no"}
    BY DEF Typed, TypeOK, Scan, Flag
  <1>1. scan.pc = "folders" /\ (\A f \in Folder : stage[f] \in {"out", "done"})
    BY DEF FinalizeFolders, Drained
  <1>2. listed \subseteq Folder
    BY <1>0 DEF TypeOK
  <1>3. UNCHANGED <<disk, edits, lib, pending, interrupts, faults>>
    BY DEF FinalizeFolders, bounds
  <1>4. CASE scan.failed = "yes"
    <2>1. Forget
      BY <1>4 DEF FinalizeFolders
    <2> QED
      BY <1>1, <1>2, <1>3, <1>4, <2>1, ForgetTyped
  <1>5. CASE scan.failed = "no"
    <2>1. scan' = [scan EXCEPT !.pc = "missing"] /\ UNCHANGED <<stage, walked, read, stat>> /\ listed' = {}
      BY <1>5 DEF FinalizeFolders
    <2>2. scan' \in Scan
      BY <1>0, <2>1, ScanMoves
    <2>3. /\ scan'.pc = "missing" /\ scan'.full = scan.full /\ scan'.sel = scan.sel
          /\ scan'.libs = scan.libs /\ scan'.todo = scan.todo /\ scan'.changes = scan.changes
          /\ scan'.failed = scan.failed /\ scan'.clean = scan.clean
      BY <1>0, <2>1 DEF Scan
    <2> QED
      BY <1>1, <1>2, <1>3, <1>5, <2>1, <2>2, <2>3
  <1> QED
    BY <1>0, <1>4, <1>5

LEMMA FinalizeTyped ==
  ASSUME Typed, FinalizeFolders
  PROVE  Typed'
  <1>0. TypeOK /\ Staged
    BY DEF Typed
  <1>1. folder' \in [Folder -> Row]
    BY <1>0, ScanBounds DEF FinalizeFolders, TypeOK, Row, Version, Flag
  <1>2. /\ overlooked' \subseteq Folder
        /\ fresh' \subseteq Folder /\ touched' \subseteq Folder /\ stale' \subseteq Folder
        /\ owed' \subseteq Folder /\ unread' \subseteq Folder
    BY <1>0, FinalizeScan DEF FinalizeFolders, TypeOK
  <1>3. unkept' \subseteq Library /\ cut' \subseteq Library
    BY <1>0, FinalizeScan, LibraryAssumption DEF FinalizeFolders, TypeOK, CutOff, Scan
  <1>4. /\ stage' \in [Folder -> {"out", "done"}]
        /\ walked' \in [Folder -> Version] /\ read' \in [Folder -> Version]
        /\ stat' \in [Folder -> Version]
    <2>1. CASE Forget
      BY <2>1, ForgetTyped
    <2>2. CASE UNCHANGED <<stage, walked, read, stat>>
      BY <1>0, <2>2, FinalizeScan DEF TypeOK
    <2> QED
      BY <2>1, <2>2, FinalizeScan
  <1>5. TypeOK'
    <2>1. stage' \in [Folder -> Stages]
      BY <1>4 DEF Stages
    <2> QED
      BY <1>0, <1>1, <1>2, <1>3, <1>4, <2>1, FinalizeScan DEF TypeOK
  <1>6. Staged'
    <2>1. CASE Forget
      BY <2>1, ForgetTyped DEF Staged
    <2>2. CASE scan'.pc = "missing" /\ scan'.libs = scan.libs /\ UNCHANGED <<stage, lib>>
      BY <1>0, <2>2, FinalizeScan DEF Staged
    <2> QED
      BY <2>1, <2>2, FinalizeScan
  <1> QED
    BY <1>5, <1>6 DEF Typed

\* The steps from one phase to the next.
PhaseStep == MissingTracks \/ AlbumsRefreshed \/ RunMaintenance

LEMMA PhaseScan ==
  ASSUME Typed, PhaseStep
  PROVE  /\ scan' \in Scan /\ UNCHANGED <<disk, edits, lib, folder, fresh, touched, pending, stage,
                                          walked, read, stat, listed, stale, owed, unread, overlooked,
                                          interrupts, faults>>
         /\ \/ MissingTracks /\ scan.pc = "missing" /\ scan'.pc = "albums" /\ UNCHANGED <<unkept, cut>>
            \/ AlbumsRefreshed /\ scan.pc = "albums" /\ scan'.pc = "keep" /\ UNCHANGED <<unkept, cut>>
            \/ RunMaintenance /\ scan.pc = "keep" /\ scan'.pc = "end"
               /\ unkept' = unkept \ Maintained /\ cut' = cut \ Maintained
         /\ scan'.full = scan.full /\ scan'.sel = scan.sel /\ scan'.libs = scan.libs
         /\ scan'.todo = scan.todo /\ scan'.changes = scan.changes
         /\ scan'.failed = scan.failed /\ scan'.clean = scan.clean
  <1>0. TypeOK /\ scan \in Scan
    BY DEF Typed, TypeOK
  <1>1. PICK p \in {"missing", "albums", "keep", "end"} : scan' = [scan EXCEPT !.pc = p]
    BY DEF PhaseStep, MissingTracks, AlbumsRefreshed, RunMaintenance
  <1>2. scan' \in Scan
    BY <1>0, <1>1, ScanMoves
  <1>3. /\ scan'.full = scan.full /\ scan'.sel = scan.sel /\ scan'.libs = scan.libs
        /\ scan'.todo = scan.todo /\ scan'.changes = scan.changes
        /\ scan'.failed = scan.failed /\ scan'.clean = scan.clean
    BY <1>0, <1>1 DEF Scan
  <1>4. /\ UNCHANGED <<disk, edits, lib, folder, fresh, touched, pending, stage,
                       walked, read, stat, listed, stale, owed, unread, overlooked, interrupts, faults>>
        /\ \/ MissingTracks /\ scan.pc = "missing" /\ scan'.pc = "albums" /\ UNCHANGED <<unkept, cut>>
           \/ AlbumsRefreshed /\ scan.pc = "albums" /\ scan'.pc = "keep" /\ UNCHANGED <<unkept, cut>>
           \/ RunMaintenance /\ scan.pc = "keep" /\ scan'.pc = "end"
               /\ unkept' = unkept \ Maintained /\ cut' = cut \ Maintained
    BY <1>0 DEF PhaseStep, MissingTracks, AlbumsRefreshed, RunMaintenance, Scan, tables, history, bounds
  <1> QED
    BY <1>2, <1>3, <1>4

LEMMA PhaseTyped ==
  ASSUME Typed, PhaseStep
  PROVE  Typed'
  <1>1. unkept' \subseteq Library /\ cut' \subseteq Library
    BY PhaseScan DEF Typed, TypeOK
  <1>2. TypeOK'
    BY <1>1, PhaseScan DEF Typed, TypeOK
  <1>3. Staged'
    BY PhaseScan DEF Typed, Staged
  <1> QED
    BY <1>2, <1>3 DEF Typed

\* The scan ends.
LEMMA EndTyped ==
  ASSUME Typed, NothingToScan \/ UpdateLibraries \/ Interrupt
  PROVE  Typed' /\ Forget
  <1>0. TypeOK /\ Forget
    BY DEF Typed, NothingToScan, UpdateLibraries, Interrupt
  <1>1. /\ lib' \in [Library -> [started : Flag, full : Flag]]
        /\ touched' \subseteq Folder /\ interrupts' \in 0..MaxInterrupts
        /\ UNCHANGED <<disk, edits, folder, fresh, pending, stale, unkept, owed, unread, overlooked, faults>>
        /\ cut' \subseteq Library
    <2>1. [started |-> "no", full |-> "no"] \in [started : Flag, full : Flag]
      BY DEF Flag
    <2>2. lib' \in [Library -> [started : Flag, full : Flag]]
      BY <1>0, <2>1 DEF TypeOK, NothingToScan, UpdateLibraries, Interrupt, tables
    <2> QED
      BY <1>0, <2>2, ScanBounds DEF TypeOK, NothingToScan, UpdateLibraries, Interrupt, tables, bounds,
                                    history, CutOff
  <1>2. TypeOK'
    BY <1>0, <1>1, ForgetTyped DEF TypeOK, Stages
  <1>3. Staged'
    BY <1>0, ForgetTyped DEF Staged
  <1> QED
    BY <1>0, <1>2, <1>3 DEF Typed

\* The steps there are, for the proofs below.
LEMMA Steps ==
  ASSUME Next
  PROVE  \/ \E f \in Folder, v \in Version : Change(f, v)
         \/ \E full \in Flag, sel \in SUBSET Folder :
               /\ Start(full, sel) /\ pending' \in Flag \cup {pending}
               /\ UNCHANGED <<disk, edits, lib, folder, fresh, touched, stage, walked, read, stat, listed,
                              stale, unkept, unread, overlooked, cut, bounds>>
         \/ pending' = "no" /\ UNCHANGED <<scan, owed, disk, edits, lib, folder, fresh, touched, stage,
                                           walked, read, stat, listed, stale, unkept, unread, overlooked, cut, bounds>>
         \/ \E l \in Library : Begin(l) \/ BeginFault(l)
         \/ \E J \in SUBSET Library : CreatePhaseFolders(J)
         \/ \E f \in Folder : FolderStep(f)
         \/ FinalizeFolders \/ PhaseStep
         \/ NothingToScan \/ UpdateLibraries \/ Interrupt
  <1>1. ASSUME NEW r \in Requests, Request(r)
        PROVE  \E full \in Flag, sel \in SUBSET Folder :
               /\ Start(full, sel) /\ pending' \in Flag \cup {pending}
               /\ UNCHANGED <<disk, edits, lib, folder, fresh, touched, stage, walked, read, stat, listed,
                              stale, unkept, unread, overlooked, cut, bounds>>
    <2>1. r.full \in Flag /\ r.sel \in SUBSET Folder
      BY RequestsAssumption DEF Flag
    <2> QED
      BY <1>1, <2>1 DEF Request, tables
  <1>2. ASSUME InitialScan, ~UNCHANGED <<scan, owed>>
        PROVE  \E full \in Flag, sel \in SUBSET Folder :
               /\ Start(full, sel) /\ pending' \in Flag \cup {pending}
               /\ UNCHANGED <<disk, edits, lib, folder, fresh, touched, stage, walked, read, stat, listed,
                              stale, unkept, unread, overlooked, cut, bounds>>
    <2>1. "yes" \in Flag /\ {} \in SUBSET Folder /\ "no" \in Flag
      BY DEF Flag
    <2>2. Start("yes", {}) /\ pending' = "no"
          /\ UNCHANGED <<disk, edits, lib, folder, fresh, touched, stage, walked, read, stat, listed,
                         stale, unkept, unread, overlooked, cut, bounds>>
      BY <1>2 DEF InitialScan
    <2> QED
      BY <2>1, <2>2
  <1>3. ASSUME InitialScan, UNCHANGED <<scan, owed>>
        PROVE  pending' = "no" /\ UNCHANGED <<scan, owed, disk, edits, lib, folder, fresh, touched, stage,
                                              walked, read, stat, listed, stale, unkept, unread, overlooked, cut, bounds>>
    BY <1>3 DEF InitialScan
  <1> QED
    BY <1>1, <1>2, <1>3 DEF Next, ScanStep, PhaseStep, Version

LEMMA StepTyped == Typed /\ [Next]_vars => Typed'
  <1> SUFFICES ASSUME Typed, [Next]_vars PROVE Typed'
    OBVIOUS
  <1>1. CASE Next
    <2>1. CASE \E f \in Folder, v \in Version : Change(f, v)
      BY <2>1, ChangeTyped
    <2>2. ASSUME NEW full \in Flag, NEW sel \in SUBSET Folder, Start(full, sel),
                 pending' \in Flag \cup {pending},
                 UNCHANGED <<disk, edits, lib, folder, fresh, touched, stage, walked, read, stat, listed,
                             stale, unkept, unread, overlooked, cut, bounds>>
          PROVE  Typed'
      <3>1. pending' \in Flag
        BY <2>2 DEF Typed, TypeOK
      <3> QED
        BY <2>2, <3>1, RequestTyped
    <2>3. CASE pending' = "no" /\ UNCHANGED <<scan, owed, disk, edits, lib, folder, fresh, touched,
                     stage, walked, read, stat, listed, stale, unkept, unread, overlooked, cut, bounds>>
      BY <2>3 DEF Typed, TypeOK, Staged, Flag, bounds
    <2>4. CASE \E l \in Library : Begin(l) \/ BeginFault(l)
      BY <2>4, BeginTyped
    <2>5. CASE \E J \in SUBSET Library : CreatePhaseFolders(J)
      BY <2>5, CreateTyped
    <2>6. CASE \E f \in Folder : FolderStep(f)
      BY <2>6, FolderTyped
    <2>7. CASE FinalizeFolders
      BY <2>7, FinalizeTyped
    <2>8. CASE PhaseStep
      BY <2>8, PhaseTyped
    <2>9. CASE NothingToScan \/ UpdateLibraries \/ Interrupt
      BY <2>9, EndTyped
    <2> QED
      BY <1>1, <2>1, <2>2, <2>3, <2>4, <2>5, <2>6, <2>7, <2>8, <2>9, Steps
  <1>2. CASE UNCHANGED vars
    BY <1>2 DEF vars, Typed, TypeOK, Staged
  <1> QED
    BY <1>1, <1>2

\* Type correctness, with what is in the pipeline: folders of libraries that
\* are stamped and belong to the scan.
THEOREM ScanTyped == Spec => []Typed
  BY TypedInit, StepTyped, PTL DEF Spec

-----------------------------------------------------------------------------
(* What a quick scan skips is imported *)

Good(f) ==
    /\ Dated(f)
    /\ folder[f].known = "yes" /\ folder[f].hash = disk[f] /\ f \notin unread \cup overlooked =>
           folder[f].songs = disk[f]

LEMMA GoodVersions == Versions <=> \A f \in Folder : Good(f)
  BY DEF Good, Versions, SkippedIsImported

LEMMA VersionsInit == Init => Versions
  BY DEF Init, Versions, SkippedIsImported, Dated, Ready

\* The numbers of a folder.
LEMMA Numbers ==
  ASSUME Typed, NEW f \in Folder
  PROVE  /\ disk[f] \in Nat /\ edits \in Nat /\ walked[f] \in Nat /\ read[f] \in Nat
         /\ stat[f] \in Nat /\ folder[f].hash \in Int /\ folder[f].songs \in Nat
         /\ folder[f].stamp \in Nat /\ folder[f] \in Row
  <1>1. Version \subseteq Nat /\ Version \cup {Garbled} \subseteq Int
    BY ScanBounds DEF Version, Garbled
  <1>2. folder[f] \in Row
    BY DEF Typed, TypeOK
  <1>3. /\ folder[f].hash \in Version \cup {Garbled} /\ folder[f].songs \in Version
        /\ folder[f].stamp \in Version
    BY <1>2 DEF Row
  <1>4. /\ disk[f] \in Version /\ walked[f] \in Version /\ read[f] \in Version
        /\ stat[f] \in Version /\ edits \in Nat
    BY DEF Typed, TypeOK
  <1> QED
    BY <1>1, <1>2, <1>3, <1>4

\* A folder whose files and row stay, and that moves on in no stage of the
\* pipeline but to one without anything in hand.
LEMMA GoodKept ==
  ASSUME NEW f \in Folder, Good(f),
         disk'[f] = disk[f], edits' = edits, folder'[f] = folder[f], f \in unread' <=> f \in unread,
         f \in overlooked' <=> f \in overlooked,
         \/ /\ walked'[f] = walked[f] /\ read'[f] = read[f] /\ stat'[f] = stat[f]
            /\ stage'[f] = stage[f]
         \/ walked'[f] <= edits + 1 /\ stage'[f] \in {"out", "todo", "done"}
  PROVE  Good(f)'
  BY DEF Good, Dated, Ready

LEMMA GoodChange ==
  ASSUME Typed, NEW g \in Folder, NEW v \in Version, Change(g, v), NEW f \in Folder, Good(f)
  PROVE  Good(f)'
  <1>0. /\ disk \in [Folder -> Version] /\ edits' = edits + 1 /\ v \in {0, edits + 2}
        /\ disk' = [disk EXCEPT ![g] = v]
        /\ UNCHANGED <<folder, walked, read, stat, stage, unread>> /\ overlooked \subseteq overlooked'
    BY DEF Change, Typed, TypeOK, tables
  <1>1. /\ disk[f] \in Nat /\ edits \in Nat /\ walked[f] \in Nat /\ read[f] \in Nat
        /\ folder[f].hash \in Int /\ folder[f].songs \in Nat
    BY Numbers
  <1>2. CASE f = g
    <2>1. disk'[f] = v
      BY <1>0, <1>2
    <2>2. disk'[f] <= edits' + 1 /\ walked'[f] <= edits' + 1 /\ folder'[f].hash <= edits' + 1
      BY <1>0, <1>1, <2>1 DEF Good, Dated
    <2>3. /\ folder'[f].known = "yes" => folder'[f].hash # disk'[f]
          /\ stage'[f] \in {"walked", "parsed"} \cup Ready => walked'[f] # disk'[f]
      BY <1>0, <1>1, <2>1 DEF Good, Dated
    <2> QED
      BY <1>0, <2>2, <2>3 DEF Good, Dated, Ready
  <1>3. CASE f # g
    <2>1. disk'[f] = disk[f]
      BY <1>0, <1>3
    <2> QED
      BY <1>0, <1>1, <2>1 DEF Good, Dated
  <1> QED
    BY <1>2, <1>3

\* A folder as it is saved.
LEMMA GoodPersist ==
  ASSUME Typed, NEW f \in Folder, PersistChanges(f), Good(f)
  PROVE  Good(f)'
  <1>0. UNCHANGED <<disk, edits, walked, read, stat>> /\ TypeOK /\ stage[f] \in Ready /\ stage'[f] = "done"
    BY DEF Typed, TypeOK, PersistChanges
  <1>1. /\ disk[f] \in Nat /\ edits \in Nat /\ walked[f] \in Nat /\ read[f] \in Nat /\ stat[f] \in Nat
        /\ folder[f] \in Row
    BY Numbers
  <1>2. \/ walked[f] = disk[f] /\ Hash(f) = disk[f]
        \/ walked[f] # disk[f] /\ Hash(f) = -1
    BY DEF Hash, Garbled
  <1>3. walked[f] # 0
    BY <1>0 DEF Good, Dated
  <1>4. ASSUME folder'[f].known = "yes", folder'[f].hash = Hash(f),
               f \notin unread' \cup overlooked' =>
                   /\ folder'[f].songs = folder'[f].stamp
                   /\ walked[f] = disk[f] => folder'[f].songs = disk[f]
        PROVE  Good(f)'
    <2>1. /\ disk'[f] <= edits' + 1 /\ folder'[f].hash <= edits' + 1 /\ walked'[f] <= edits' + 1
          /\ folder'[f].hash # 0
      BY <1>0, <1>1, <1>2, <1>3, <1>4 DEF Good, Dated
    <2>2. Dated(f)'
      BY <1>0, <1>4, <2>1 DEF Dated, Ready
    <2>3. folder'[f].hash = disk'[f] => walked[f] = disk[f]
      BY <1>0, <1>1, <1>2, <1>4
    <2> QED
      BY <1>0, <1>4, <2>2, <2>3 DEF Good
  <1>5. ASSUME NEW all \in BOOLEAN, stage[f] = "read", SaveTracks(f, all), all \/ ~ImportsAll(f)
        PROVE  Good(f)'
    <2>1. folder'[f] = [known |-> "yes", hash |-> Hash(f), stamp |-> stat[f],
                        songs |-> IF all THEN read[f] ELSE folder[f].songs]
      BY <1>0, <1>5 DEF SaveTracks, TypeOK
    <2>2. folder'[f].known = "yes" /\ folder'[f].hash = Hash(f)
      BY <2>1
    <2>3. f \notin overlooked' => all /\ read[f] = stat[f]
      BY <1>5 DEF SaveTracks, ImportsAll
    <2>4. all => folder'[f].songs = read[f] /\ folder'[f].stamp = stat[f]
      BY <2>1
    <2>5. walked[f] = disk[f] => read[f] = disk[f]
      BY <1>5 DEF Good, Dated
    <2> QED
      BY <1>4, <2>2, <2>3, <2>4, <2>5
  <1>6. ASSUME stage[f] # "read", SaveFolder(f) PROVE Good(f)'
    <2>1. folder' = [folder EXCEPT ![f] = [folder[f] EXCEPT !.known = "yes", !.hash = Hash(f)]]
      BY <1>0, <1>1, <1>6 DEF SaveFolder, TypeOK, Row
    <2>2. folder'[f] = [folder[f] EXCEPT !.known = "yes", !.hash = Hash(f)]
      BY <1>0, <2>1 DEF TypeOK
    <2>3. /\ folder'[f].known = "yes" /\ folder'[f].hash = Hash(f)
          /\ folder'[f].songs = folder[f].songs /\ folder'[f].stamp = folder[f].stamp
      BY <1>1, <2>2 DEF Row
    <2>4. CASE stage[f] = "kept"
      <3>1. unread' = unread /\ overlooked' = overlooked /\ folder[f].known = "yes"
        BY <1>6, <2>4 DEF SaveFolder, Typed, Staged
      <3>2. f \notin unread \cup overlooked =>
              /\ folder[f].songs = folder[f].stamp
              /\ walked[f] = disk[f] => folder[f].stamp = disk[f]
        BY <2>4, <3>1 DEF Good, Dated
      <3> QED
        BY <1>4, <2>3, <3>1, <3>2
    <2>5. CASE stage[f] # "kept"
      <3>1. f \in unread'
        BY <1>6, <2>5 DEF SaveFolder
      <3> QED
        BY <1>4, <2>3, <3>1
    <2> QED
      BY <2>4, <2>5
  <1> QED
    BY <1>5, <1>6 DEF PersistChanges

LEMMA GoodFolderStep ==
  ASSUME Typed, NEW g \in Folder, FolderStep(g), NEW f \in Folder, Good(f)
  PROVE  Good(f)'
  <1>0. UNCHANGED <<disk, edits>> /\ TypeOK
    BY FolderScan DEF Typed
  <1>1. /\ disk[f] \in Nat /\ edits \in Nat /\ walked[f] \in Nat /\ read[f] \in Nat
        /\ folder[f].hash \in Int /\ folder[f].songs \in Nat
    BY Numbers
  <1>2. CASE f # g \/ RefreshAlbum(g)
    <2>1. folder'[f] = folder[f]
      BY <1>0, <1>2, KnownKept DEF RefreshAlbum, tables
    <2>2. (f \in unread' <=> f \in unread) /\ (f \in overlooked' <=> f \in overlooked)
      BY <1>0, <1>2
      DEF TypeOK, FolderStep, Walk, ProcessFolder, StatFiles, ProcessFault, PersistChanges, PersistFault,
          Discard, RefreshAlbum, SaveTracks, SaveFolder, history
    <2>3. walked'[f] = walked[f] /\ read'[f] = read[f] /\ stat'[f] = stat[f]
      BY <1>0, <1>2
      DEF TypeOK, FolderStep, Walk, ProcessFolder, StatFiles, ProcessFault, PersistChanges, PersistFault,
          Discard, RefreshAlbum
    <2>4. stage'[f] = stage[f]
      BY <1>2, FolderMoves DEF RefreshAlbum
    <2> QED
      BY <1>0, <2>1, <2>2, <2>3, <2>4, GoodKept
  <1>3. CASE f = g /\ Walk(f)
    <2>1. /\ walked'[f] = disk[f] /\ UNCHANGED <<folder, unread, overlooked, read, stat>>
          /\ stage'[f] \in {"walked", "done"} /\ (stage'[f] = "walked" => disk[f] # 0)
      BY <1>0, <1>3 DEF Walk, TypeOK, tables, history
    <2> QED
      BY <1>0, <1>1, <2>1 DEF Good, Dated, Ready
  <1>4. CASE f = g /\ ProcessFolder(f)
    <2>1. /\ UNCHANGED <<folder, unread, overlooked, walked, stat>> /\ stage[f] = "walked"
          /\ \/ stage'[f] = "parsed" /\ read'[f] = disk[f]
             \/ stage'[f] = "unread"
             \/ stage'[f] = "kept" /\ (folder[f].stamp = disk[f] \/ f \in overlooked)
      BY <1>0, <1>4 DEF ProcessFolder, NoneAfter, TypeOK, tables, history
    <2> QED
      BY <1>0, <1>1, <2>1 DEF Good, Dated, Ready
  <1>5. CASE f = g /\ (StatFiles(f) \/ ProcessFault(f))
    <2>1. /\ UNCHANGED <<folder, unread, overlooked, walked, read>> /\ stage[f] = "parsed"
          /\ stat'[f] = disk[f] /\ stage'[f] \in {"read", "part", "unread"}
      BY <1>0, <1>5 DEF StatFiles, ProcessFault, TypeOK, tables, history
    <2> QED
      BY <1>0, <1>1, <2>1 DEF Good, Dated, Ready
  <1>6. CASE f = g /\ PersistChanges(f)
    BY <1>6, GoodPersist
  <1>7. CASE f = g /\ (PersistFault(f) \/ Discard(f))
    <2>1. UNCHANGED <<folder, unread, overlooked, walked>> /\ stage'[f] = "done"
      BY <1>0, <1>7 DEF PersistFault, Discard, TypeOK, tables, history
    <2> QED
      BY <1>0, <1>1, <2>1 DEF Good, Dated, Ready
  <1> QED
    BY <1>2, <1>3, <1>4, <1>5, <1>6, <1>7 DEF FolderStep

LEMMA VersionsStep == Typed /\ Versions /\ [Next]_vars => Versions'
  <1> SUFFICES ASSUME Typed, Versions, [Next]_vars, NEW f \in Folder PROVE Good(f)'
    BY GoodVersions DEF Good, Versions, SkippedIsImported
  <1>0. Good(f) /\ TypeOK
    BY GoodVersions DEF Typed
  <1>1. ASSUME NEW g \in Folder, NEW v \in Version, Change(g, v) PROVE Good(f)'
    BY <1>0, <1>1, GoodChange
  <1>2. CASE UNCHANGED <<disk, edits, folder, unread, overlooked, walked, read, stat, stage>>
    BY <1>0, <1>2, GoodKept
  <1>a. ASSUME Forget, UNCHANGED <<disk, edits, folder, unread, overlooked>> PROVE Good(f)'
    <2>1. walked'[f] = 0 /\ stage'[f] = "out" /\ edits \in Nat
      BY <1>a, <1>0 DEF Forget, TypeOK
    <2>2. walked'[f] <= edits + 1
      BY <2>1
    <2> QED
      BY <1>0, <1>a, <2>1, <2>2, GoodKept
  <1>3. ASSUME NEW l \in Library, Begin(l) \/ BeginFault(l) PROVE Good(f)'
    BY <1>0, <1>2, <1>3 DEF Begin, BeginFault, history
  <1>4. ASSUME NEW J \in SUBSET Library, CreatePhaseFolders(J) PROVE Good(f)'
    <2>1. stage'[f] \in {"out", "todo"} /\ UNCHANGED <<disk, edits, folder, unread, overlooked, walked>>
      BY <1>4 DEF CreatePhaseFolders, tables, history
    <2>2. walked'[f] <= edits + 1
      BY <1>0, <2>1 DEF Good, Dated
    <2> QED
      BY <1>0, <2>1, <2>2, GoodKept
  <1>5. ASSUME NEW g \in Folder, FolderStep(g) PROVE Good(f)'
    BY <1>0, <1>5, GoodFolderStep
  <1>6. CASE FinalizeFolders
    <2>0. UNCHANGED <<disk, edits>> /\ edits \in Nat
      BY <1>6, Numbers, FinalizeScan
    <2>1. \/ UNCHANGED <<stage, walked, read, stat>>
          \/ walked'[f] = 0 /\ stage'[f] = "out"
      BY <1>6, FinalizeScan DEF Forget
    <2>2. walked[f] <= edits + 1 /\ stage[f] \in {"out", "done"}
      BY <1>0, <1>6, FinalizeScan DEF Good, Dated
    <2>3. walked'[f] <= edits + 1 /\ stage'[f] \in {"out", "done"}
      BY <2>0, <2>1, <2>2
    <2>4. CASE f \in listed
      <3>1. folder'[f] = [known |-> "no", hash |-> 0, songs |-> 0, stamp |-> 0]
        BY <1>6, <2>4 DEF FinalizeFolders
      <3>2. folder'[f].known = "no" /\ folder'[f].hash = 0
        BY <3>1
      <3> QED
        BY <1>0, <2>0, <2>3, <3>2 DEF Good, Dated, Ready
    <2>5. CASE f \notin listed
      <3>1. folder'[f] = folder[f] /\ (f \in unread' <=> f \in unread)
            /\ (f \in overlooked' <=> f \in overlooked)
        BY <1>6, <2>5 DEF FinalizeFolders
      <3> QED
        BY <1>0, <2>0, <2>3, <3>1, GoodKept
    <2> QED
      BY <2>4, <2>5
  <1>7. CASE PhaseStep
    BY <1>2, <1>7, PhaseScan
  <1>8. CASE NothingToScan \/ UpdateLibraries \/ Interrupt
    BY <1>8, <1>a, EndTyped DEF NothingToScan, UpdateLibraries, Interrupt, tables, history
  <1>9. CASE Next
    BY <1>1, <1>2, <1>3, <1>4, <1>5, <1>6, <1>7, <1>8, <1>9, Steps
  <1> QED
    BY <1>2, <1>9 DEF vars

\* Whatever changes on disk while a scan walks, reads and saves, a folder whose
\* saved hash is that of the disk was imported as it is on disk, unless tags of
\* it could not be read, or it has a file that is not later than its track
\* though it has other tags.
THEOREM SkippedImported == Spec => []SkippedIsImported
  <1>1. Versions => SkippedIsImported
    BY DEF Versions
  <1> QED
    BY <1>1, VersionsInit, VersionsStep, ScanTyped, PTL DEF Spec

-----------------------------------------------------------------------------
(* Incomplete albums stay on the list of phase 3 *)

LEMMA AlbumsInit == Init => Albums
  BY DEF Init, Albums, IncompleteAlbumsTouched, Completed

LEMMA AlbumsStep == Typed /\ Albums /\ [Next]_vars => Albums'
  <1> SUFFICES ASSUME Typed, Albums, [Next]_vars PROVE Albums'
    OBVIOUS
  <1>0. TypeOK /\ Staged /\ stale \subseteq touched /\ Completed /\ stale \subseteq Folder
    BY DEF Typed, TypeOK, Albums, IncompleteAlbumsTouched
  <1>1. CASE UNCHANGED <<stale, touched, scan>>
    BY <1>1 DEF Albums, IncompleteAlbumsTouched, Completed
  <1>2. ASSUME UNCHANGED <<stale, touched>>, scan'.pc \notin {"keep", "end"} PROVE Albums'
    BY <1>0, <1>2 DEF Albums, IncompleteAlbumsTouched, Completed
  <1>3. ASSUME NEW g \in Folder, NEW v \in Version, Change(g, v) PROVE Albums'
    BY <1>1, <1>3 DEF Change, tables
  <1>4. ASSUME NEW full \in Flag, NEW sel \in SUBSET Folder, Start(full, sel),
               UNCHANGED <<stale, touched>>
        PROVE  Albums'
    BY <1>2, <1>4, StartTyped
  <1>5. ASSUME NEW l \in Library, Begin(l) \/ BeginFault(l) PROVE Albums'
    BY <1>2, <1>5, BeginTyped DEF Begin, BeginFault, history
  <1>6. ASSUME NEW J \in SUBSET Library, CreatePhaseFolders(J) PROVE Albums'
    BY <1>2, <1>6, CreateTyped DEF CreatePhaseFolders, tables, history
  <1>7. ASSUME NEW g \in Folder, FolderStep(g) PROVE Albums'
    <2>0. SameRun
      BY <1>0, <1>7, FolderScan
    <2>1. CASE RefreshAlbum(g)
      BY <1>0, <2>0, <2>1 DEF RefreshAlbum, tables, Albums, IncompleteAlbumsTouched, Completed, SameRun
    <2>2. CASE ~RefreshAlbum(g)
      <3>1. scan'.pc = "folders"
        BY <1>7, <2>0, <2>2, FolderMoves DEF SameRun
      <3>2. stale' \subseteq touched'
        BY <1>0, <1>7, <2>2
        DEF FolderStep, Walk, ProcessFolder, StatFiles, ProcessFault, PersistChanges, PersistFault, Discard,
            tables, history
      <3> QED
        BY <3>1, <3>2 DEF Albums, IncompleteAlbumsTouched, Completed
    <2> QED
      BY <2>1, <2>2
  <1>8. CASE FinalizeFolders
    <2>1. scan'.pc \in {"missing", "idle"}
      BY <1>8, FinalizeScan, ForgetTyped
    <2>2. stale' \subseteq touched'
      BY <1>0, <1>8 DEF FinalizeFolders
    <2> QED
      BY <2>1, <2>2 DEF Albums, IncompleteAlbumsTouched, Completed
  <1>9. CASE PhaseStep
    <2>0. UNCHANGED <<stale, touched>> /\ scan'.libs = scan.libs
      BY <1>9, PhaseScan
    <2>1. CASE scan'.pc = "albums"
      BY <1>2, <2>0, <2>1
    <2>2. CASE AlbumsRefreshed
      <3>1. \A f \in stale : LibOf[f] \notin scan.libs
        BY <1>0, <2>2 DEF AlbumsRefreshed, TouchedAlbums
      <3> QED
        BY <1>0, <2>0, <3>1 DEF Albums, IncompleteAlbumsTouched, Completed
    <2>3. CASE scan.pc = "keep"
      <3>1. \A f \in stale : LibOf[f] \notin scan.libs
        BY <1>0, <2>3 DEF Completed
      <3> QED
        BY <1>0, <2>0, <3>1 DEF Albums, IncompleteAlbumsTouched, Completed
    <2> QED
      BY <1>9, <2>1, <2>2, <2>3, PhaseScan
  <1>10. CASE NothingToScan \/ Interrupt
    BY <1>2, <1>10, EndTyped, ForgetTyped DEF NothingToScan, Interrupt, tables, history
  <1>11. CASE UpdateLibraries
    <2>1. scan'.pc = "idle" /\ stale' = stale /\ touched' = touched \ FoldersOf(scan.libs)
          /\ scan.pc = "end"
      BY <1>11, EndTyped, ForgetTyped DEF UpdateLibraries, history
    <2>2. \A f \in stale : f \notin FoldersOf(scan.libs)
      BY <1>0, <2>1 DEF Completed, FoldersOf
    <2> QED
      BY <1>0, <2>1, <2>2 DEF Albums, IncompleteAlbumsTouched, Completed
  <1>12. CASE Next
    BY <1>1, <1>3, <1>4, <1>5, <1>6, <1>7, <1>8, <1>9, <1>10, <1>11, <1>12, Steps
  <1> QED
    BY <1>1, <1>12 DEF vars

\* An album that phase 1 has left incomplete stays among those phase 3 looks
\* at until it is completed, across interruptions and scans of other folders.
THEOREM AlbumsNotForgotten == Spec => []IncompleteAlbumsTouched
  <1>1. Albums => IncompleteAlbumsTouched
    BY DEF Albums
  <1> QED
    BY <1>1, AlbumsInit, AlbumsStep, ScanTyped, PTL DEF Spec

-----------------------------------------------------------------------------
(* A full scan that was interrupted resumes soundly *)

\* What counts as done of a library marked for a full scan has been imported.
Done(f) == lib[LibOf[f]].full = "yes" /\ f \in fresh /\ f \in owed => f \in unread

LEMMA DoneIsSound == ResumeIsSound <=> \A f \in Folder : Done(f)
  <1>1. ASSUME ResumeIsSound, NEW f \in Folder PROVE Done(f)
    <2>1. LibOf[f] \in Library
      BY LibraryAssumption
    <2> QED
      BY <1>1, <2>1 DEF ResumeIsSound, Done, FoldersOf
  <1>2. ASSUME \A f \in Folder : Done(f) PROVE ResumeIsSound
    BY <1>2 DEF ResumeIsSound, Done, FoldersOf
  <1> QED
    BY <1>1, <1>2

LEMMA ResumeInit == Init => Resume
  BY IdleScan DEF Init, Resume, ResumeIsSound, Marked

LEMMA MarkedStep == Typed /\ Marked /\ [Next]_vars => Marked'
  <1> SUFFICES ASSUME Typed, Marked, [Next]_vars PROVE Marked'
    OBVIOUS
  <1>0. TypeOK /\ Staged /\ scan \in Scan /\ scan.libs \subseteq Library /\ scan.todo \subseteq Library
        /\ scan.full \in Flag
    BY DEF Typed, TypeOK, Scan
  <1>1. ASSUME UNCHANGED lib, scan'.full = scan.full, scan'.libs = scan.libs, scan'.todo = scan.todo
        PROVE  Marked'
    BY <1>1 DEF Marked
  <1>2. ASSUME scan'.libs = {}, scan'.todo = {} PROVE Marked'
    BY <1>2 DEF Marked
  <1>3. ASSUME NEW g \in Folder, NEW v \in Version, Change(g, v) PROVE Marked'
    BY <1>1, <1>3 DEF Change, tables
  <1>4. ASSUME NEW full \in Flag, NEW sel \in SUBSET Folder, Start(full, sel), UNCHANGED lib
        PROVE  Marked'
    <2>1. /\ scan'.libs = {} /\ scan'.todo = SelectedLibraries(sel)
          /\ scan'.full = Promoted(full, SelectedLibraries(sel))
          /\ SelectedLibraries(sel) \subseteq Library
      BY <1>4, StartTyped, SelectedTypes
    <2>2. scan'.full = "no" => \A l \in scan'.todo : lib[l].full # "yes"
      BY <2>1 DEF Promoted
    <2>3. \A l \in scan'.todo : lib[l].full \in {"yes", "no"}
      BY <1>0, <2>1 DEF TypeOK, Flag
    <2> QED
      BY <1>4, <2>1, <2>2, <2>3 DEF Marked
  <1>5. ASSUME NEW l \in Library, Begin(l) \/ BeginFault(l) PROVE Marked'
    <2>1. \A k \in Library : lib'[k].full = lib[k].full \/ lib'[k].full = scan.full
      BY <1>0, <1>5, StampTyped DEF Begin, BeginFault
    <2>2. scan'.full = scan.full /\ scan'.todo \subseteq scan.todo /\ scan'.libs \subseteq scan.libs \cup {l}
          /\ l \in scan.todo
      BY <1>5, BeginTyped DEF Begin, BeginFault
    <2> QED
      BY <1>0, <2>1, <2>2 DEF Marked
  <1>6. ASSUME NEW J \in SUBSET Library, CreatePhaseFolders(J) PROVE Marked'
    BY <1>1, <1>6, CreateTyped DEF CreatePhaseFolders, tables
  <1>7. ASSUME NEW g \in Folder, FolderStep(g) PROVE Marked'
    BY <1>0, <1>1, <1>7, FolderScan DEF SameRun
  <1>8. CASE FinalizeFolders
    BY <1>1, <1>2, <1>8, FinalizeScan, ForgetTyped
  <1>9. CASE PhaseStep
    BY <1>1, <1>9, PhaseScan
  <1>10. CASE NothingToScan \/ UpdateLibraries \/ Interrupt
    BY <1>2, <1>10, EndTyped, ForgetTyped
  <1>11. CASE UNCHANGED <<lib, scan>>
    BY <1>1, <1>11
  <1>12. CASE Next
    BY <1>3, <1>4, <1>5, <1>6, <1>7, <1>8, <1>9, <1>10, <1>11, <1>12, Steps
  <1> QED
    BY <1>11, <1>12 DEF vars

\* A folder that is saved by a full scan, or whose library has no mark, is
\* settled.
LEMMA SavedSettled ==
  ASSUME Typed, Marked, NEW f \in Folder, PersistChanges(f)
  PROVE  /\ lib[LibOf[f]].full = "yes" /\ f \in owed' => f \in unread'
         /\ owed' \subseteq owed
         /\ \A g \in Folder : g # f => (g \in fresh' <=> g \in fresh) /\ (g \in unread' <=> g \in unread)
  <1>0. LibOf[f] \in scan.libs /\ scan.full \in {"yes", "no"} /\ stage[f] \in Ready
    BY DEF PersistChanges, Typed, Staged, TypeOK, Scan, Flag, Ready
  <1>1. CASE stage[f] \in {"part", "unread"}
    BY <1>1 DEF PersistChanges, SaveFolder
  <1>2. CASE stage[f] = "read" /\ scan.full = "yes"
    BY <1>2 DEF PersistChanges, SaveTracks
  <1>3. CASE stage[f] \in {"read", "kept"} /\ scan.full = "no"
    <2>1. lib[LibOf[f]].full = "no"
      BY <1>0, <1>3 DEF Marked
    <2> QED
      BY <1>3, <2>1 DEF PersistChanges, SaveTracks, SaveFolder
  <1>4. stage[f] = "kept" => scan.full = "no"
    BY DEF Typed, Staged
  <1> QED
    BY <1>0, <1>1, <1>2, <1>3, <1>4 DEF Ready

LEMMA ResumeStep == Typed /\ Resume /\ [Next]_vars => Resume'
  <1> SUFFICES ASSUME Typed, Resume, [Next]_vars PROVE Resume'
    OBVIOUS
  <1>0. /\ TypeOK /\ Staged /\ Marked /\ ResumeIsSound /\ (\A f \in owed : disk[f] # 0)
        /\ owed \subseteq Folder /\ disk \in [Folder -> Version]
    BY DEF Typed, TypeOK, Resume
  <1>1. Marked'
    BY <1>0, MarkedStep
  <1>2. \A f \in owed' : disk'[f] # 0
    <2>1. ASSUME NEW g \in Folder, NEW v \in Version, Change(g, v) PROVE \A f \in owed' : disk'[f] # 0
      <3>1. disk' = [disk EXCEPT ![g] = v] /\ owed' = (IF v = 0 THEN owed \ {g} ELSE owed)
        BY <2>1 DEF Change
      <3> QED
        BY <1>0, <3>1
    <2>2. ASSUME NEW full \in Flag, NEW sel \in SUBSET Folder, Start(full, sel), UNCHANGED disk
          PROVE  \A f \in owed' : disk'[f] # 0
      BY <1>0, <2>2, StartTyped DEF Owing
    <2>3. ASSUME UNCHANGED disk, owed' \subseteq owed
          PROVE  \A f \in owed' : disk'[f] # 0
      BY <1>0, <2>3
    <2>4. ASSUME NEW g \in Folder, FolderStep(g) PROVE UNCHANGED disk /\ owed' \subseteq owed
      BY <2>4 DEF FolderStep, Walk, ProcessFolder, StatFiles, ProcessFault, PersistChanges, PersistFault,
                  Discard, RefreshAlbum, SaveTracks, SaveFolder, history
    <2>5. CASE Next
      BY <2>1, <2>2, <2>3, <2>4, <2>5, Steps
      DEF Begin, BeginFault, CreatePhaseFolders, FinalizeFolders, PhaseStep, MissingTracks,
          AlbumsRefreshed, RunMaintenance, NothingToScan, UpdateLibraries, Interrupt, history
    <2> QED
      BY <2>3, <2>5 DEF vars
  <1>3. ASSUME NEW f \in Folder PROVE Done(f)'
    <2>0. Done(f) /\ LibOf[f] \in Library
      BY <1>0, DoneIsSound, LibraryAssumption
    <2>1. ASSUME lib'[LibOf[f]].full = lib[LibOf[f]].full \/ lib'[LibOf[f]].full = "no",
                 f \in fresh' => f \in fresh, f \in owed' => f \in owed, f \in unread => f \in unread'
          PROVE  Done(f)'
      BY <2>0, <2>1 DEF Done
    <2>2. ASSUME NEW g \in Folder, NEW v \in Version, Change(g, v) PROVE Done(f)'
      BY <2>1, <2>2 DEF Change, tables
    <2>3. ASSUME NEW full \in Flag, NEW sel \in SUBSET Folder, Start(full, sel),
                 UNCHANGED <<lib, fresh, unread>>
          PROVE  Done(f)'
      BY <2>0, <2>3, StartTyped DEF Done, Owing
    <2>4. ASSUME NEW l \in Library, Begin(l) \/ BeginFault(l) PROVE Done(f)'
      <3>1. UNCHANGED <<owed, unread>> /\ (UNCHANGED <<lib, fresh>> \/ Stamp(l))
        BY <2>4 DEF Begin, BeginFault, history
      <3>2. CASE UNCHANGED <<lib, fresh>>
        BY <2>1, <3>1, <3>2
      <3>3. CASE Stamp(l)
        <4>1. CASE LibOf[f] = l
          BY <3>3, <4>1 DEF Stamp, FoldersOf, Done
        <4>2. CASE LibOf[f] # l
          <5>1. lib'[LibOf[f]] = lib[LibOf[f]]
            BY <2>0, <3>3, <4>2, StampTyped
          <5> QED
            BY <2>1, <3>1, <3>3, <5>1 DEF Stamp
        <4> QED
          BY <4>1, <4>2
      <3> QED
        BY <3>1, <3>2, <3>3
    <2>5. ASSUME NEW g \in Folder, PersistChanges(g) PROVE Done(f)'
      <3>1. UNCHANGED lib /\ g \in fresh'
        BY <2>5 DEF PersistChanges
      <3>2. CASE f = g
        BY <1>0, <2>5, <3>1, <3>2, SavedSettled DEF Done
      <3>3. CASE f # g
        BY <1>0, <2>0, <2>5, <3>1, <3>3, SavedSettled DEF Done
      <3> QED
        BY <3>2, <3>3
    <2>6. ASSUME NEW g \in Folder, FolderStep(g), ~PersistChanges(g) PROVE Done(f)'
      BY <2>1, <2>6 DEF FolderStep, Walk, ProcessFolder, StatFiles, ProcessFault, PersistFault,
                  Discard, RefreshAlbum, history, tables
    <2>7. CASE FinalizeFolders
      BY <2>0, <2>7 DEF FinalizeFolders, Done
    <2>8. CASE UpdateLibraries
      <3>1. lib'[LibOf[f]].full = lib[LibOf[f]].full \/ lib'[LibOf[f]].full = "no"
        BY <2>0, <2>8 DEF UpdateLibraries
      <3> QED
        BY <2>1, <2>8, <3>1 DEF UpdateLibraries, history
    <2>9. CASE UNCHANGED <<lib, fresh, owed, unread>>
      BY <2>1, <2>9
    <2>10. CASE Next
      BY <2>2, <2>3, <2>4, <2>5, <2>6, <2>7, <2>8, <2>9, <2>10, Steps
      DEF CreatePhaseFolders, PhaseStep, MissingTracks, AlbumsRefreshed, RunMaintenance,
          NothingToScan, Interrupt, history, tables
    <2> QED
      BY <2>9, <2>10 DEF vars
  <1>4. ResumeIsSound'
    <2>1. \A l \in Library, f \in Folder : lib'[LibOf[f]].full = "yes" /\ f \in fresh' /\ f \in owed' => f \in unread'
      BY <1>3 DEF Done
    <2> QED
      BY <2>1 DEF ResumeIsSound, FoldersOf
  <1> QED
    BY <1>1, <1>2, <1>4 DEF Resume

\* A full scan that resumes after an interruption skips only folders that a
\* full scan has imported, or whose tags could not be read.
THEOREM ResumeSkipsImported == Spec => []ResumeIsSound
  <1>1. Resume => ResumeIsSound
    BY DEF Resume
  <1> QED
    BY <1>1, ResumeInit, ResumeStep, ScanTyped, PTL DEF Spec

-----------------------------------------------------------------------------
(* A full scan that ends has covered the libraries it was marked for *)

LEMMA CoveredInit == Init => Covered
  BY IdleScan DEF Init, Covered, Idle

LEMMA VisitedStep ==
  ASSUME Typed, Resume, NEW g \in Folder, FolderStep(g), NEW f \in FoldersOf(scan.libs), Visited(f),
         scan.failed = "no", scan'.failed = "no"
  PROVE  Visited(f)'
  <1>0. /\ TypeOK /\ Marked /\ ResumeIsSound /\ f \in Folder /\ UNCHANGED lib
        /\ \A h \in owed : disk[h] # 0
    BY FolderScan DEF Typed, Resume, FoldersOf
  <1>1. CASE RefreshAlbum(g)
    BY <1>0, <1>1 DEF RefreshAlbum, Visited, tables
  <1>2. CASE ~RefreshAlbum(g) /\ f # g
    <2>1. stage'[f] = stage[f]
      BY <1>0, <1>2, FolderMoves
    <2>2. (f \in owed' => f \in owed) /\ (f \in unread => f \in unread')
      BY <1>2 DEF FolderStep, Walk, ProcessFolder, StatFiles, ProcessFault, PersistChanges, PersistFault,
                  Discard, SaveTracks, SaveFolder, history
    <2> QED
      BY <1>0, <2>1, <2>2 DEF Visited
  <1>3. CASE ~RefreshAlbum(g) /\ f = g
    <2>1. stage'[f] # "out"
      BY <1>0, <1>3, FolderMoves
    <2>2. CASE Walk(f)
      <3>1. UNCHANGED <<owed, unread, fresh>>
        BY <2>2 DEF Walk, history, tables
      <3>2. stage'[f] = "done" => ~(disk[f] # 0 /\ IsOutdated(f))
        BY <1>0, <2>2 DEF Walk, TypeOK
      <3>3. ~IsOutdated(f) /\ lib[LibOf[f]].full = "yes" => f \in fresh
        BY DEF IsOutdated
      <3>4. lib[LibOf[f]].full = "yes" /\ f \in fresh /\ f \in owed => f \in unread
        BY <1>0, DoneIsSound DEF Done
      <3>5. stage'[f] = "done" /\ lib'[LibOf[f]].full = "yes" /\ f \in owed' => f \in unread'
        BY <1>0, <3>1, <3>2, <3>3, <3>4
      <3> QED
        BY <2>1, <3>5 DEF Visited
    <2>3. CASE ProcessFolder(f) \/ StatFiles(f) \/ ProcessFault(f)
      <3>1. stage'[f] \notin {"out", "done"}
        BY <1>0, <2>3 DEF ProcessFolder, StatFiles, ProcessFault, TypeOK
      <3> QED
        BY <3>1 DEF Visited
    <2>4. CASE PersistChanges(f)
      BY <1>0, <2>1, <2>4, SavedSettled DEF Visited
    <2>5. CASE PersistFault(f)
      <3>1. scan' = [scan EXCEPT !.failed = "yes"] /\ scan \in Scan
        BY <1>0, <2>5 DEF PersistFault, TypeOK
      <3>2. scan'.failed = "yes"
        BY <3>1 DEF Scan
      <3> QED
        BY <3>2
    <2>6. CASE Discard(f)
      BY <2>6 DEF Discard
    <2> QED
      BY <1>3, <2>2, <2>3, <2>4, <2>5, <2>6 DEF FolderStep
  <1> QED
    BY <1>1, <1>2, <1>3

LEMMA CoveredStep == Typed /\ Resume /\ Covered /\ [Next]_vars => Covered'
  <1> SUFFICES ASSUME Typed, Resume, Covered, [Next]_vars PROVE Covered'
    OBVIOUS
  <1>0. TypeOK /\ Staged /\ scan \in Scan
    BY DEF Typed, TypeOK
  <1>1. ASSUME scan'.pc \in {"idle", "prepare"}, scan'.failed = "no" PROVE Covered'
    BY <1>1 DEF Covered
  <1>2. CASE Forget
    BY <1>1, <1>2 DEF Forget, Idle
  <1>3. ASSUME scan'.pc # "folders" => scan'.failed = "no", scan.pc \notin {"idle", "prepare"},
               scan'.libs = scan.libs, Undisturbed' => Undisturbed,
               UNCHANGED <<stage, lib>>,
               \A f \in Folder : (f \in owed' => f \in owed) /\ (f \in owed' /\ f \in unread => f \in unread')
        PROVE  Covered'
    BY <1>3 DEF Covered, Visited, FoldersOf
  <1>4. ASSUME NEW g \in Folder, NEW v \in Version, Change(g, v) PROVE Covered'
    <2>1. UNCHANGED <<scan, stage, lib, unread>> /\ owed' \subseteq owed
      BY <1>4 DEF Change, tables
    <2> QED
      BY <2>1 DEF Covered, Visited, Undisturbed, FoldersOf
  <1>5. ASSUME NEW full \in Flag, NEW sel \in SUBSET Folder, Start(full, sel) PROVE Covered'
    <2>1. scan'.failed = "no"
      BY <1>5 DEF Start, Idle
    <2> QED
      BY <1>1, <1>5, <2>1, StartTyped
  <1>6. ASSUME NEW l \in Library, Begin(l) \/ BeginFault(l) PROVE Covered'
    <2>1. scan.failed = "no"
      BY <1>6 DEF Covered, Begin, BeginFault
    <2> QED
      BY <1>1, <1>6, <2>1, BeginTyped
  <1>7. ASSUME NEW J \in SUBSET Library, CreatePhaseFolders(J) PROVE Covered'
    <2>1. /\ scan'.pc = "folders" /\ scan'.sel = scan.sel /\ scan'.libs = scan.libs
          /\ scan'.clean = "yes" => J = scan.libs
      BY <1>7, CreateTyped
    <2>2. ASSUME Undisturbed', NEW f \in FoldersOf(scan.libs) PROVE stage'[f] = "todo"
      <3>1. f \in Scope(J)
        BY <2>1, <2>2 DEF Undisturbed, Scope, Selected, FoldersOf
      <3> QED
        BY <1>7, <3>1 DEF CreatePhaseFolders, FoldersOf
    <2> QED
      BY <2>1, <2>2 DEF Covered, Visited, FoldersOf
  <1>8. ASSUME NEW g \in Folder, FolderStep(g) PROVE Covered'
    <2>1. /\ SameRun /\ (scan'.failed = "no" => scan.failed = "no")
          /\ (scan'.clean = "yes" => scan.clean = "yes")
      BY <1>0, <1>8, FolderScan
    <2>2. scan.pc \notin {"idle", "prepare"}
      BY <1>8, FolderMoves DEF RefreshAlbum
    <2>3. Undisturbed' => Undisturbed
      BY <2>1 DEF Undisturbed, SameRun
    <2>4. ASSUME Undisturbed', NEW f \in FoldersOf(scan.libs) PROVE Visited(f)'
      <3>1. Visited(f) /\ scan.failed = "no" /\ scan'.failed = "no"
        BY <2>2, <2>3, <2>4 DEF Covered, Undisturbed
      <3> QED
        BY <1>8, <3>1, VisitedStep
    <2>5. scan'.pc # "folders" => scan'.failed = "no"
      <3>1. CASE RefreshAlbum(g)
        <4>1. scan' = [scan EXCEPT !.changes = "yes"]
          BY <3>1 DEF RefreshAlbum
        <4>2. scan'.failed = scan.failed
          BY <1>0, <4>1 DEF Scan
        <4> QED
          BY <2>1, <4>2 DEF Covered, SameRun
      <3>2. CASE ~RefreshAlbum(g)
        BY <1>8, <2>1, <3>2, FolderMoves DEF SameRun
      <3> QED
        BY <3>1, <3>2
    <2> QED
      BY <2>1, <2>2, <2>4, <2>5 DEF Covered, SameRun, FoldersOf
  <1>9. CASE FinalizeFolders
    <2>1. CASE Forget
      BY <1>2, <2>1
    <2>2. CASE ~Forget
      <3>1. /\ scan.failed = "no" /\ scan'.pc = "missing" /\ UNCHANGED <<stage, lib>>
            /\ scan'.sel = scan.sel /\ scan'.libs = scan.libs
            /\ scan'.failed = scan.failed /\ scan'.clean = scan.clean /\ scan.pc = "folders"
        BY <1>9, <2>2, FinalizeScan
      <3>2. owed' = owed \ listed /\ unread' = unread \ listed
        BY <1>9 DEF FinalizeFolders
      <3> QED
        BY <1>3, <3>1, <3>2 DEF Undisturbed
    <2> QED
      BY <2>1, <2>2
  <1>10. CASE PhaseStep
    <2>1. scan.pc \notin {"idle", "prepare", "folders"} /\ scan.failed = "no"
      BY <1>10, PhaseScan DEF Covered
    <2> QED
      BY <1>3, <1>10, <2>1, PhaseScan DEF Undisturbed
  <1>11. CASE NothingToScan \/ UpdateLibraries \/ Interrupt
    BY <1>2, <1>11, EndTyped
  <1>12. CASE UNCHANGED <<scan, stage, lib, owed, unread>>
    BY <1>12 DEF Covered, Undisturbed, Visited, FoldersOf
  <1>13. CASE Next
    BY <1>4, <1>5, <1>6, <1>7, <1>8, <1>9, <1>10, <1>11, <1>12, <1>13, Steps
  <1> QED
    BY <1>12, <1>13 DEF vars

\* A scan of everything that ends on a library marked for a full scan, however
\* it came to be marked, leaves no folder of it that was to be imported again,
\* unless its tags could not be read.
THEOREM MarkedCovered == Spec => MarkedFullScanCovers
  <1>1. Typed /\ Covered /\ [Next]_vars =>
          [UpdateLibraries =>
            \A l \in scan.libs :
                (lib[l].full = "yes" /\ scan.sel = {} /\ scan.clean = "yes") =>
                    FoldersOf({l}) \cap owed \subseteq unread]_vars
    <2> SUFFICES ASSUME Typed, Covered, UpdateLibraries, NEW l \in scan.libs,
                        lib[l].full = "yes", scan.sel = {}, scan.clean = "yes",
                        NEW f \in FoldersOf({l}), f \in owed
                 PROVE  f \in unread
      OBVIOUS
    <2>1. scan.pc = "end" /\ f \in FoldersOf(scan.libs) /\ LibOf[f] = l /\ f \in Folder
      BY DEF UpdateLibraries, FoldersOf
    <2>2. Visited(f)
      BY <2>1 DEF Covered, Undisturbed
    <2>3. stage[f] \in {"out", "done"}
      BY <2>1 DEF Typed, Staged
    <2> QED
      BY <2>1, <2>2, <2>3 DEF Visited
  <1> QED
    BY <1>1, ResumeInit, ResumeStep, CoveredInit, CoveredStep, ScanTyped, PTL
    DEF Spec, MarkedFullScanCovers

-----------------------------------------------------------------------------
(* Maintenance is not forgotten *)

LEMMA TendedInit == Init => Tended
  BY DEF Init, Tended

\* A library is remembered when its scan is cut short, or it is one of cut'.
LEMMA CutRemembered ==
  ASSUME NEW needy, NEW incomplete, NEW l \in needy \ CutOff(needy, incomplete), l \in scan.libs
  PROVE  \E f \in incomplete : LibOf[f] = l
  BY DEF CutOff

LEMMA TendedStep == Typed /\ Albums /\ Tended /\ [Next]_vars => Tended'
  <1> SUFFICES ASSUME Typed, Albums, Tended, [Next]_vars, NEW l \in unkept' \ cut'
               PROVE  Remembered(l)'
    BY DEF Tended
  <1>0. /\ TypeOK /\ Staged /\ Completed /\ scan \in Scan /\ scan.libs \subseteq Library
        /\ stale \subseteq Folder /\ unkept \subseteq Library
    BY DEF Typed, TypeOK, Albums, Scan
  <1>1. ASSUME l \in unkept \ cut, lib'[l].started = "yes", stale \subseteq stale',
               scan.pc \in {"idle", "prepare", "end"} \/ l \notin scan.libs
        PROVE  Remembered(l)'
    BY <1>1 DEF Tended, Remembered
  <1>2. l \in unkept \ cut => l \in Library /\ Remembered(l) /\ lib[l].started = "yes"
    BY <1>0 DEF Tended, Remembered
  <1>3. ASSUME UNCHANGED <<unkept, cut, stale, lib>>, scan'.libs = scan.libs, scan'.changes = scan.changes,
               \/ scan'.pc = scan.pc
               \/ scan'.pc \in {"folders", "missing", "albums", "keep"}
        PROVE  Remembered(l)'
    BY <1>2, <1>3 DEF Remembered
  <1>4. ASSUME NEW g \in Folder, NEW v \in Version, Change(g, v) PROVE Remembered(l)'
    BY <1>3, <1>4 DEF Change, tables
  <1>5. ASSUME NEW full \in Flag, NEW sel \in SUBSET Folder, Start(full, sel),
               UNCHANGED <<unkept, cut, stale, lib>>
        PROVE  Remembered(l)'
    BY <1>1, <1>2, <1>5 DEF Start
  <1>6. ASSUME NEW k \in Library, Begin(k) \/ BeginFault(k) PROVE Remembered(l)'
    <2>1. UNCHANGED <<unkept, cut, stale>> /\ scan.pc = "prepare" /\ (UNCHANGED lib \/ Stamp(k))
      BY <1>6 DEF Begin, BeginFault, history
    <2>2. lib'[l].started = "yes"
      BY <1>2, <2>1, StampTyped
    <2> QED
      BY <1>1, <2>1, <2>2
  <1>7. ASSUME NEW J \in SUBSET Library, CreatePhaseFolders(J) PROVE Remembered(l)'
    <2>1. UNCHANGED <<unkept, cut, stale, lib>> /\ scan.pc = "prepare"
      BY <1>7 DEF CreatePhaseFolders, history, tables
    <2> QED
      BY <1>1, <1>2, <2>1
  <1>8. ASSUME NEW g \in Folder, FolderStep(g) PROVE Remembered(l)'
    <2>0. /\ SameRun /\ UNCHANGED lib
          /\ scan'.changes = scan.changes \/ scan'.changes = "yes"
          /\ RefreshAlbum(g) \/ PersistChanges(g) => scan'.changes = "yes"
      BY <1>0, <1>8, FolderScan
    <2>1. CASE RefreshAlbum(g)
      <3>1. /\ stale' = stale \ {g} /\ UNCHANGED <<unkept, cut>> /\ scan.pc = "albums"
            /\ LibOf[g] \in scan.libs
        BY <2>1 DEF RefreshAlbum, TouchedAlbums
      <3>2. CASE l \in scan.libs
        BY <1>2, <2>0, <2>1, <3>1, <3>2 DEF Remembered, SameRun
      <3>3. CASE l \notin scan.libs
        BY <1>2, <2>0, <3>1, <3>3 DEF Remembered
      <3> QED
        BY <3>2, <3>3
    <2>2. CASE PersistChanges(g)
      <3>1. /\ unkept' = unkept \cup {LibOf[g]} /\ cut' = cut /\ stale \subseteq stale'
            /\ stage[g] \in Ready /\ scan.pc = "folders"
        BY <2>2, FolderMoves DEF PersistChanges, RefreshAlbum, FolderStep, Ready, Typed, Staged
      <3>2. CASE l \in scan.libs
        BY <1>0, <2>0, <2>2, <3>1, <3>2 DEF Remembered, SameRun, Staged
      <3>3. CASE l \notin scan.libs
        <4>1. LibOf[g] \in scan.libs
          BY <1>0, <3>1 DEF Staged, Ready
        <4> QED
          BY <1>1, <1>2, <2>0, <3>1, <3>3, <4>1
      <3> QED
        BY <3>2, <3>3
    <2>3. CASE ~PersistChanges(g) /\ ~RefreshAlbum(g)
      <3>1. UNCHANGED <<unkept, cut, stale>>
        BY <1>8, <2>3 DEF FolderStep, Walk, ProcessFolder, StatFiles, ProcessFault, PersistFault, Discard,
                          history
      <3> QED
        BY <1>2, <2>0, <3>1 DEF Remembered, SameRun
    <2> QED
      BY <2>1, <2>2, <2>3
  <1>9. CASE FinalizeFolders
    <2>1. /\ unkept' = unkept \cup {LibOf[f] : f \in listed} /\ stale' = stale \cup listed
          /\ UNCHANGED lib /\ scan.pc = "folders" /\ listed \subseteq Folder
      BY <1>9, FinalizeScan DEF FinalizeFolders
    <2>2. \A f \in listed : LibOf[f] \in scan.libs /\ lib[LibOf[f]].started = "yes"
      BY <1>0, <2>1 DEF TypeOK, Staged
    <2>3. CASE \E f \in listed : LibOf[f] = l
      BY <2>1, <2>2, <2>3 DEF Remembered
    <2>4. CASE ~\E f \in listed : LibOf[f] = l
      <3>1. l \in unkept
        BY <2>1, <2>4
      <3>2. CASE scan.failed = "yes"
        <4>1. cut' = cut \cup CutOff(unkept', stale')
          BY <1>9, <3>2 DEF FinalizeFolders
        <4>2. CASE l \in scan.libs
          <5>1. \E f \in stale' : LibOf[f] = l
            BY <4>1, <4>2, CutRemembered
          <5> QED
            BY <1>2, <2>1, <3>1, <4>1, <5>1 DEF Remembered
        <4>3. CASE l \notin scan.libs
          BY <1>1, <1>2, <2>1, <3>1, <4>1, <4>3
        <4> QED
          BY <4>2, <4>3
      <3>3. CASE scan.failed # "yes"
        <4>1. cut' = cut /\ scan'.pc = "missing" /\ scan'.libs = scan.libs /\ scan'.changes = scan.changes
          BY <1>9, <3>3, FinalizeScan DEF FinalizeFolders
        <4> QED
          BY <1>2, <2>1, <3>1, <4>1 DEF Remembered
      <3> QED
        BY <3>2, <3>3
    <2> QED
      BY <2>3, <2>4
  <1>10. CASE PhaseStep
    <2>1. UNCHANGED <<lib, stale>> /\ scan'.libs = scan.libs /\ scan'.changes = scan.changes
      BY <1>10, PhaseScan
    <2>2. CASE scan'.pc \in {"albums", "keep"} /\ UNCHANGED <<unkept, cut>>
      BY <1>3, <2>1, <2>2
    <2>3. CASE scan.pc = "keep" /\ unkept' = unkept \ Maintained /\ cut' = cut \ Maintained
      <3>1. l \in unkept \ cut /\ ~(l \in scan.libs /\ scan.changes = "yes")
        BY <2>3 DEF Maintained
      <3> QED
        BY <1>2, <2>1, <3>1 DEF Remembered
    <2> QED
      BY <1>10, <2>2, <2>3, PhaseScan
  <1>11. CASE NothingToScan
    <2>1. scan.pc = "prepare" /\ UNCHANGED <<unkept, cut, stale, lib>>
      BY <1>11 DEF NothingToScan, history, tables
    <2> QED
      BY <1>1, <1>2, <2>1
  <1>12. CASE UpdateLibraries
    <2>1. scan.pc = "end" /\ UNCHANGED <<unkept, cut, stale>>
      BY <1>12 DEF UpdateLibraries, history
    <2>2. l \notin scan.libs
      BY <1>0, <1>2, <2>1 DEF Completed, Remembered
    <2>3. lib'[l] = lib[l]
      BY <1>2, <1>12, <2>1, <2>2 DEF UpdateLibraries
    <2> QED
      BY <1>1, <1>2, <2>1, <2>3
  <1>13. CASE Interrupt
    <2>1. cut' = cut \cup CutOff(unkept, stale) /\ UNCHANGED <<unkept, stale, lib>>
      BY <1>13 DEF Interrupt, tables
    <2>2. CASE l \in scan.libs
      <3>1. \E f \in stale : LibOf[f] = l
        BY <2>1, <2>2, CutRemembered
      <3> QED
        BY <1>2, <2>1, <3>1 DEF Remembered
    <2>3. CASE l \notin scan.libs
      BY <1>1, <1>2, <2>1, <2>3
    <2> QED
      BY <2>2, <2>3
  <1>14. CASE UNCHANGED <<scan, lib, unkept, cut, stale>>
    BY <1>3, <1>14
  <1>15. CASE Next
    BY <1>4, <1>5, <1>6, <1>7, <1>8, <1>9, <1>10, <1>11, <1>12, <1>13, <1>14, <1>15, Steps
  <1> QED
    BY <1>14, <1>15 DEF vars

\* Garbage collection and statistics are owed only to a library that is stamped,
\* so whose scan is under way or is to be resumed, and to one whose own scan was
\* cut short when its albums were complete.
THEOREM MaintenanceOwed == Spec => []UnkeptOnlyByInterruption
  <1>1. Tended => UnkeptOnlyByInterruption
    BY DEF Tended, Remembered, UnkeptOnlyByInterruption
  <1> QED
    BY <1>1, TendedInit, TendedStep, AlbumsInit, AlbumsStep, ScanTyped, PTL DEF Spec
=============================================================================
