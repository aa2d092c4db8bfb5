-------------------------- MODULE MCRadioDiscovery --------------------------
(* Small instances of RadioDiscovery for TLC. *)
EXTENDS RadioDiscovery

CONSTANTS t1, i1, i2, r1, c1

OneTrack == [i \in Item |-> t1]

Report(id, i, kind, heard) == [id |-> id, item |-> i, kind |-> kind, heard |-> heard]

\* The track is played as two items; the first is skipped early, and kept in
\* the end, and the second skipped late.  The start of the second is reported
\* without an event id, and may arrive twice.
Reports == {Report(1, i1, "started", "short"), Report(2, i1, "manual_skip", "short"),
            Report(NoId, i2, "started", "short"), Report(4, i1, "keep", "short"),
            Report(5, i2, "manual_skip", "long")}
=============================================================================
