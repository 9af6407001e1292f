------------------------- MODULE BudgetReconciliation -------------------------
(***************************************************************************)
(* The loop that asks every enabled Lingarr for its statistics and keeps   *)
(* the averages, from which volumes are estimated.  A pass is one session: *)
(* a rollback of an open transaction expires the rows the pass works from, *)
(* and the handler that has rolled back reads the instance's name.         *)
(***************************************************************************)
EXTENDS Naturals, Sequences, SequencesExt

CONSTANTS
  Counted,     \* the Lingarr instances
  ListOrder,   \* in the order of list_lingarr
  MaxFiles,    \* bound on the files a Lingarr has translated
  NoActuals, NoPass

VARIABLES
  counting,    \* the enabled instances
  answering,   \* the instances that answer (external)
  files,       \* files[l]: total_files_translated there (external)
  actuals,     \* actuals[l]: the total stored with the averages, or NoActuals
  budgetPass   \* the pass of the loop, or NoPass

budgetVars == <<counting, answering, files, actuals, budgetPass>>

BudgetInit ==
  /\ counting = Counted /\ answering \in SUBSET Counted
  /\ files = [l \in Counted |-> 0] /\ actuals = [l \in Counted |-> NoActuals]
  /\ budgetPass = NoPass

\* open: the session is in a transaction.  steady: the instances of the pass
\* that have answered all along.
PassBegins ==
  /\ budgetPass = NoPass
  /\ LET listed == SelectSeq(ListOrder, LAMBDA l : l \in counting)
     IN budgetPass' = [left |-> listed, open |-> TRUE, saved |-> {},
                       steady |-> ToSet(listed) \cap answering]
  /\ UNCHANGED <<counting, answering, files, actuals>>

Turn(l) == budgetPass # NoPass /\ budgetPass.left # << >> /\ l = Head(budgetPass.left)

\* upsert_actuals, which commits.
Upserts(l) ==
  /\ Turn(l) /\ l \in answering
  /\ actuals' = [actuals EXCEPT ![l] = files[l]]
  /\ budgetPass' = [budgetPass EXCEPT !.left = Tail(@), !.open = FALSE, !.saved = @ \cup {l}]
  /\ UNCHANGED <<counting, answering, files>>

\* The statistics cannot be had: the instance is skipped, unless the rollback
\* has expired the rows, when the handler raises and the pass ends.
Skips(l) ==
  /\ Turn(l) /\ l \notin answering
  /\ budgetPass' = IF budgetPass.open THEN NoPass ELSE [budgetPass EXCEPT !.left = Tail(@)]
  /\ UNCHANGED <<counting, answering, files, actuals>>

PassEnds ==
  /\ budgetPass # NoPass /\ budgetPass.left = << >>
  /\ budgetPass' = NoPass
  /\ UNCHANGED <<counting, answering, files, actuals>>

ToggleCounting(l) ==
  /\ counting' = (counting \ {l}) \cup ({l} \ counting)
  /\ UNCHANGED <<answering, files, actuals, budgetPass>>

AnswerFlips(l) ==
  /\ answering' = (answering \ {l}) \cup ({l} \ answering)
  /\ budgetPass' = IF budgetPass = NoPass THEN NoPass
                   ELSE [budgetPass EXCEPT !.steady = @ \ {l}]
  /\ UNCHANGED <<counting, files, actuals>>

FileTranslated(l) ==
  /\ files[l] < MaxFiles /\ files' = [files EXCEPT ![l] = @ + 1]
  /\ UNCHANGED <<counting, answering, actuals, budgetPass>>

BudgetNext ==
  \/ PassBegins \/ PassEnds
  \/ \E l \in Counted : \/ Upserts(l) \/ Skips(l) \/ ToggleCounting(l)
                        \/ AnswerFlips(l) \/ FileTranslated(l)
-----------------------------------------------------------------------------
\* "per-instance failures never cascade": a pass that ends has saved the actuals
\* of every instance that answered as long as it ran.
FailuresNeverCascade ==
  [][budgetPass # NoPass /\ budgetPass' = NoPass
       => budgetPass.steady \subseteq budgetPass.saved]_budgetVars
=============================================================================
