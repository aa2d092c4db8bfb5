--------------------------- MODULE MCScanControl ---------------------------
(* Small instances of ScanControl for TLC. *)
EXTENDS ScanControl

CONSTANTS f1, f2, c1, s1, s2, k1, k2

\* A scan of everything, and a scan of one folder.
AnyBatch == {{}, {f2}}
=============================================================================
