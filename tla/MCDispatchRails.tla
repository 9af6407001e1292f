-------------------------- MODULE MCDispatchRails --------------------------
(***************************************************************************)
(* Small instances of DispatchRails for TLC: four attempts, one of them a  *)
(* movie that costs twice an episode.                                      *)
(***************************************************************************)
EXTENDS DispatchRails, TLC

CONSTANTS a1, a2, a3, m1

Costs == [a \in Attempts |-> IF a = m1 THEN 2 ELSE 1]
Caps == [hour |-> 1, day |-> 2, week |-> 3]
NoCaps == [h \in Horizons |-> Cardinality(Attempts) + 1]

Episodes == Permutations(Attempts \ {m1})
=============================================================================
