-------------------------- MODULE MCArtworkQueue --------------------------
(* Two items of one pool, the second of a kind no periodic job rechecks.   *)
EXTENDS ArtworkQueue

CONSTANTS album, track, cover, front

OnePool == {{album, track}}

\* The album's cover is a file of its folder, which the track embeds too, or
\* an agent's front.
Covers ==
  [i \in Item |->
     IF i = album
     THEN {[hash |-> cover, stored |-> FALSE], [hash |-> front, stored |-> TRUE]}
     ELSE {[hash |-> cover, stored |-> TRUE]}]
=============================================================================
