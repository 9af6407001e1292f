--------------------------------- MODULE Sums ---------------------------------
(***************************************************************************)
(* Sums over finite sets, with what is known of them.                      *)
(***************************************************************************)
EXTENDS Naturals, FiniteSetsExt

\* The sum of f[x] over the elements of S.
SumOver(f, S) == MapThenSumSet(LAMBDA x : f[x], S)
===============================================================================
