---------------------------- MODULE MCTaskQueue ----------------------------
(* Small instances of TaskQueue for TLC. *)
EXTENDS TaskQueue, TLC

CONSTANTS q1, q2, t1, t2

TaskSymmetry == Permutations(Task)
=============================================================================
