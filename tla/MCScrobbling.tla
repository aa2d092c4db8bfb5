---------------------------- MODULE MCScrobbling ----------------------------
(* Small instances of Scrobbling for TLC. *)
EXTENDS Scrobbling

CONSTANTS u1, u2, h1

Play(u, t) == [user |-> u, time |-> t]

MixedPlays == {Play(u1, 1), Play(u1, 2), Play(u2, 1)}
=============================================================================
