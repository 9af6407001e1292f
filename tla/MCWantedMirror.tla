--------------------------- MODULE MCWantedMirror ---------------------------
(***************************************************************************)
(* Small instances of WantedMirror for TLC: wanted episodes w1, w2, w3 and *)
(* a wanted movie w4.                                                      *)
(***************************************************************************)
EXTENDS WantedMirror, TLC

CONSTANTS w1, w2, w3, w4

KindsOfWants == [w \in Wants |-> IF w = w4 THEN "movie" ELSE "episode"]

EpisodesAlike == Permutations(Wants \ {w4})
=============================================================================
