--------------------------- MODULE MCRadioSession ---------------------------
(* Small instances of RadioSession for TLC. *)
EXTENDS RadioSession

CONSTANTS h1, h2

\* No queue, or the first item, which is being played.
ClientQueues == {[queued |-> {}, cur |-> 0], [queued |-> {1}, cur |-> 1]}
=============================================================================
