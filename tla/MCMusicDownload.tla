-------------------------- MODULE MCMusicDownload --------------------------
(* Small instances of MusicDownload for TLC. *)
EXTENDS MusicDownload

CONSTANTS u1, s1, a1, h1, h2

Ask(kind, song, origin, prio, play) ==
    [user |-> u1, kind |-> kind, song |-> song, origin |-> origin, prio |-> prio, play |-> play]

\* The song is asked for by its user, to be played at once, and by the radio;
\* an album takes the worker of the manual jobs.
MixedRequests == {Ask("song", s1, "manual", 0, "yes"), Ask("song", s1, "radio", 100, "no"),
                  Ask("album", a1, "manual", 0, "no")}
=============================================================================
