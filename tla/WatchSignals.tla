----------------------------- MODULE WatchSignals -----------------------------
(***************************************************************************)
(* The cache of watch signals.  A refresh asks every enabled source,       *)
(* aggregates what those that answer report over all of them, and rewrites *)
(* the rows of the titles it has a signal for; the other rows stay, and    *)
(* readers leave out what is older than the TTL.                           *)
(***************************************************************************)
EXTENDS FiniteSets, Sums

CONSTANTS
  Sources, Titles,
  Reports,      \* what a source may report: a function from titles to activity
  MinPlays,     \* frequent_min_plays
  TTL,          \* the age at which a row is no longer read, in ticks
  NoRow, NoReport

\* What a source says of a title, a row of the cache, and an answer as kept.
Activities == [plays : Nat, recent : BOOLEAN, listed : BOOLEAN]
Scores == [frequent : BOOLEAN, recent : BOOLEAN, listed : BOOLEAN,
           sources : SUBSET Sources, age : 0..(TTL + 1)]
Answers == [report : [Titles -> Activities], age : 0..(TTL + 1)]

ASSUME WatchAssumption ==
  /\ IsFiniteSet(Sources) /\ Reports \subseteq [Titles -> Activities]
  /\ MinPlays \in Nat /\ TTL \in Nat \ {0}
  /\ NoRow \notin Scores /\ NoReport \notin Answers

VARIABLES
  enabled,      \* the sources that exist and are enabled
  activity,     \* activity[s]: what s would report now
  cache,        \* cache[t]: the row of t, with its age, or NoRow
  heard         \* history: heard[s], what s last answered, with its age

watchVars == <<enabled, activity, cache, heard>>

\* A title is in a report if its activity is not this.
Nothing == [plays |-> 0, recent |-> FALSE, listed |-> FALSE]

WatchInit ==
  /\ enabled = Sources
  /\ activity = [s \in Sources |-> [t \in Titles |-> Nothing]]
  /\ cache = [t \in Titles |-> NoRow]
  /\ heard = [s \in Sources |-> NoReport]

\* create_source, update_source, delete_source
ToggleSource(s) ==
  /\ enabled' = (enabled \ {s}) \cup ({s} \ enabled)
  /\ UNCHANGED <<activity, cache, heard>>

\* Someone watches, or a viewing falls out of the window.
Watching(s) ==
  /\ \E report \in Reports : report # activity[s] /\ activity' = [activity EXCEPT ![s] = report]
  /\ UNCHANGED <<enabled, cache, heard>>

\* aggregate_activity: plays add up over the sources, the flags are joined.
Signal(t, answering) ==
  LET reports == {s \in answering : activity[s][t] # Nothing}
  IN [frequent |-> SumOver([s \in reports |-> activity[s][t].plays], reports) >= MinPlays,
      recent |-> \E s \in reports : activity[s][t].recent,
      listed |-> \E s \in reports : activity[s][t].listed,
      sources |-> reports,
      age |-> 0]

\* A title that no report lists has no entry, whatever the number of plays asked for.
HasSignal(row) == row.sources # {} /\ (row.frequent \/ row.recent \/ row.listed)

\* Mutant of Merged: the cache becomes what this refresh has seen.
MergedByReplacing(answering) ==
  [t \in Titles |-> IF HasSignal(Signal(t, answering)) THEN Signal(t, answering) ELSE NoRow]

\* "Merge, don't full-replace"
Merged(answering) ==
  [t \in Titles |-> IF HasSignal(Signal(t, answering)) THEN Signal(t, answering) ELSE cache[t]]

\* refresh, in which only the sources of answering answer; with none of them
\* the cache is kept.
Refresh(answering) ==
  /\ answering # {} /\ answering \subseteq enabled
  /\ cache' = Merged(answering)
  /\ heard' = [s \in Sources |-> IF s \in answering THEN [report |-> activity[s], age |-> 0]
                                                   ELSE heard[s]]
  /\ UNCHANGED <<enabled, activity>>

Older(x) == IF x.age <= TTL THEN [x EXCEPT !.age = @ + 1] ELSE x

Tick ==
  /\ cache' = [t \in Titles |-> IF cache[t] = NoRow THEN NoRow ELSE Older(cache[t])]
  /\ heard' = [s \in Sources |-> IF heard[s] = NoReport THEN NoReport ELSE Older(heard[s])]
  /\ UNCHANGED <<enabled, activity>>

WatchNext == \/ Tick
             \/ \E s \in Sources : ToggleSource(s) \/ Watching(s)
             \/ \E answering \in SUBSET Sources : Refresh(answering)

\* load_watch_index, signal_for
Fresh(t) == cache[t] # NoRow /\ cache[t].age <= TTL
-----------------------------------------------------------------------------
\* s has answered within the TTL, and its last answer is a signal for t.
SignalledLately(s, t) ==
  /\ heard[s] # NoReport /\ heard[s].age <= TTL
  /\ LET said == heard[s].report[t]
     IN said # Nothing /\ (said.recent \/ said.listed \/ said.plays >= MinPlays)

\* "Survives to age out via the TTL" (refresh): a source that cannot be reached,
\* or is disabled, takes no title with it that it has signalled within the TTL.
OutageKeepsSignal ==
  \A s \in Sources, t \in Titles : SignalledLately(s, t) => Fresh(t)

\* The other way round, a boost does not outlive its sources: one of those a
\* title that is read is credited to has answered within the TTL.
BoostIsRecent ==
  \A t \in Titles : Fresh(t) => \E s \in cache[t].sources : heard[s].age <= TTL

\* A title is boosted while, and only while, a source has lately signalled it.
BoostFollowsActivity == OutageKeepsSignal /\ BoostIsRecent
=============================================================================
