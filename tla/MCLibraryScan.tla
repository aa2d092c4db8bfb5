--------------------------- MODULE MCLibraryScan ---------------------------
(* Small instances of LibraryScan for TLC. *)
EXTENDS LibraryScan, TLC

CONSTANTS l1, l2, f1, f2

\* Both folders in one library, or a library each.
OneLibrary   == [f \in Folder |-> l1]
TwoLibraries == [f \in Folder |-> IF f = f1 THEN l1 ELSE l2]

Quick(sel) == [full |-> "no", sel |-> sel]
Full(sel)  == [full |-> "yes", sel |-> sel]

AllRequests   == {Quick({}), Full({}), Quick({f1}), Quick({f2})}
QuickRequests == {Quick({}), Quick({f1})}

\* With one library and every selection the folders may be exchanged.
FolderSymmetry == Permutations(Folder)
=============================================================================
