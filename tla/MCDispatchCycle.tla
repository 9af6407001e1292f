-------------------------- MODULE MCDispatchCycle --------------------------
(***************************************************************************)
(* Small instances of DispatchCycle for TLC: episodes e1 and e2 of one     *)
(* series, movies m1 and m2, one or two source languages.                  *)
(***************************************************************************)
EXTENDS DispatchCycle, TLC

CONSTANTS e1, e2, series

TitleOf == [i \in Intents |-> IF i \in {e1, e2} THEN series ELSE i]

Episodes == Permutations({e1, e2})
=============================================================================
