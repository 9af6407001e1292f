----------------------------- MODULE StatsRollup -----------------------------
(***************************************************************************)
(* The daily rollup of the outcome events.  A rollup reads the events of a *)
(* trailing window, and replaces the rows of that window in one commit.    *)
(* Startup runs it over the whole history while there is no row yet, then  *)
(* over the trailing window; a loop repeats the latter.  The dashboard     *)
(* reads the rows and never the events.                                    *)
(***************************************************************************)
EXTENDS Sums

CONSTANTS
  LastDay,      \* bound on the days modelled; day 0 is the first
  MaxPerDay,    \* bound on the outcomes of a day
  TrailingDays, \* days of run_stats_rollup
  NoRollup

\* Today and yesterday at least: the outcomes of yesterday's last hours, which
\* no rollup of yesterday's has read, are in today's window.
ASSUME StatsAssumption ==
  LastDay \in Nat /\ MaxPerDay \in Nat /\ TrailingDays \in Nat \ {0, 1}

VARIABLES
  today,
  events,       \* events[d]: the outcomes recorded on day d
  rows,         \* rows[d]: what stats_daily counts for day d, 0 for no row
  phase,        \* where the process is: down, backfill, rollup or serving
  rollup,       \* the rollup under way: its first day and what it has read
  rolledToday,  \* history: a rollup that began today has committed
  missed,       \* history: a day ended on which no rollup was begun and committed
  unfilled      \* history: the backfill has failed

statsVars == <<today, events, rows, phase, rollup, rolledToday, missed, unfilled>>

Days == 0..LastDay

\* An upgraded deployment has a history and no rows; a new one has neither.
StatsInit ==
  /\ today \in Days
  /\ events \in [Days -> 0..MaxPerDay] /\ \A d \in Days : d > today => events[d] = 0
  /\ rows = [d \in Days |-> 0]
  /\ phase = "down" /\ rollup = NoRollup
  /\ rolledToday = FALSE /\ missed = FALSE /\ unfilled = FALSE

Outcome ==
  /\ phase = "serving" /\ events[today] < MaxPerDay
  /\ events' = [events EXCEPT ![today] = @ + 1]
  /\ UNCHANGED <<today, rows, phase, rollup, rolledToday, missed, unfilled>>

Start ==
  /\ phase = "down" /\ phase' = "backfill"
  /\ UNCHANGED <<today, events, rows, rollup, rolledToday, missed, unfilled>>

Read(first) == [first |-> first, on |-> today,
                counts |-> [d \in Days |-> IF d >= first THEN events[d] ELSE 0]]

\* run_stats_backfill: from the earliest outcome on, while there is no row.
BeginBackfill ==
  /\ phase = "backfill" /\ rollup = NoRollup
  /\ \A d \in Days : rows[d] = 0
  /\ \E d \in Days : events[d] > 0
  /\ rollup' = Read(Min({d \in Days : events[d] > 0}))
  /\ UNCHANGED <<today, events, rows, phase, rolledToday, missed, unfilled>>

NoBackfill ==
  /\ phase = "backfill" /\ rollup = NoRollup
  /\ (\E d \in Days : rows[d] > 0) \/ (\A d \in Days : events[d] = 0)
  /\ phase' = "rollup"
  /\ UNCHANGED <<today, events, rows, rollup, rolledToday, missed, unfilled>>

\* Mutant of WindowStart: one day less.
WindowStartLater == IF TrailingDays > today THEN 0 ELSE today - TrailingDays + 2

\* start_day of run_stats_rollup
WindowStart == IF TrailingDays > today THEN 0 ELSE today - TrailingDays + 1

BeginRollup ==
  /\ phase \in {"rollup", "serving"} /\ rollup = NoRollup
  /\ rollup' = Read(WindowStart)
  /\ UNCHANGED <<today, events, rows, phase, rolledToday, missed, unfilled>>

\* delete, add_all: the rows of the window are replaced.
Replaced == [d \in Days |-> IF d >= rollup.first THEN rollup.counts[d] ELSE rows[d]]

AfterRollup == CASE phase = "backfill" -> "rollup" [] OTHER -> "serving"

CommitRollup ==
  /\ rollup # NoRollup
  /\ rows' = Replaced
  /\ rollup' = NoRollup
  /\ phase' = AfterRollup
  /\ rolledToday' = (rolledToday \/ rollup.on = today)
  /\ UNCHANGED <<today, events, missed, unfilled>>

\* An exception is logged, and startup or the loop goes on.
RollupFails ==
  /\ rollup # NoRollup
  /\ rollup' = NoRollup
  /\ phase' = AfterRollup
  /\ unfilled' = (unfilled \/ phase = "backfill")
  /\ UNCHANGED <<today, events, rows, rolledToday, missed>>

Stop ==
  /\ phase # "down" /\ phase' = "down"
  /\ rollup' = NoRollup
  /\ UNCHANGED <<today, events, rows, rolledToday, missed, unfilled>>

\* The loop's interval is a fraction of a day: a day of serving has its rollup.
Midnight ==
  /\ today < LastDay /\ today' = today + 1
  /\ phase = "serving" => rolledToday
  /\ rolledToday' = FALSE
  /\ missed' = (missed \/ ~ rolledToday)
  /\ UNCHANGED <<events, rows, phase, rollup, unfilled>>

StatsNext ==
  \/ Outcome \/ Start \/ BeginBackfill \/ NoBackfill \/ BeginRollup
  \/ CommitRollup \/ RollupFails \/ Stop \/ Midnight
-----------------------------------------------------------------------------
\* The coverage trend over since..today: the cumulative count day by day,
\* from language_baseline on.
Baseline(since) == SumOver(rows, {d \in Days : d < since})

Cumulative(since) == [d \in since..today |-> Baseline(since) + SumOver(rows, since..d)]

\* The day a range begins with does not change the trend within it.
TrendIsRangeFree ==
  \A s, t \in 0..today : \A d \in (s..today) \cap (t..today) :
    Cumulative(s)[d] = Cumulative(t)[d]

\* "Never double-counts across a crash" (stats/models.py).
NeverOverstates == \A d \in Days : rows[d] <= events[d]

ClosedDays == {d \in Days : d + TrailingDays <= today}

\* A day that has left the trailing window is counted in full, if the process
\* was up for a rollup on each day and the backfill did not fail.
ClosedDaysAreExact ==
  phase = "serving" /\ ~ missed /\ ~ unfilled => \A d \in ClosedDays : rows[d] = events[d]

\* What the dashboard shows is what has happened.
StatisticsAreTrue == TrendIsRangeFree /\ NeverOverstates /\ ClosedDaysAreExact

\* "The trailing-window job then keeps it current" (run_stats_backfill): the
\* same, however long the process was down. Not so: a day before the
\* trailing window is not recomputed, such as the one a longer downtime began on.
RollupKeepsCurrent ==
  phase = "serving" /\ ~ unfilled => \A d \in ClosedDays : rows[d] = events[d]
=============================================================================
