---------------------------- MODULE PlanPreview ----------------------------
(***************************************************************************)
(* "What would dispatch next, and why": the pure planner of the preview,   *)
(* folded over the backlog in its order, beside the pass of the dispatcher *)
(* over the same backlog.  Characters are counted in thousands.            *)
(***************************************************************************)
EXTENDS Integers, Sequences, SequencesExt, FiniteSets, Sums

CONSTANTS
  Candidates,   \* records [instance, pair, media, name]
  RailSettings, \* records [window, caps, budget] of the presets
  Limits,       \* the horizons asked for
  Statistics,   \* [files, characters] as Lingarr reports, or NoStatistics
  NoStatistics, NoBudget

ASSUME PlanAssumption ==
  /\ \A c \in Candidates : c.media \in {"episode", "movie"}
  /\ \A r \in RailSettings : r.window \in Nat /\ r.caps \subseteq Nat /\ r.budget \in Nat \cup {NoBudget}
  /\ NoBudget \notin Nat /\ Limits \subseteq Nat
  /\ \A s \in Statistics : s.files \in Nat /\ s.characters \in Nat

ActualsMinSample == 20
Heuristic == [episode |-> 36, movie |-> 81]

VARIABLES backlog, rails, statistics

planVars == <<backlog, rails, statistics>>

\* estimate_intent: the rolling average and a quarter, rounded up, or the
\* heuristic when the sample is small.
Estimate(media, stats) ==
  IF stats # NoStatistics /\ stats.files >= ActualsMinSample
  THEN (5 * stats.characters + 4 * stats.files - 1) \div (4 * stats.files)
  ELSE Heuristic[media]

\* A plan gives each place of the backlog that it has come to an item.
Unjudged == [k \in {} |-> ""]

Judged(items, k, c, characters, verdict) ==
  [j \in DOMAIN items \cup {k} |->
     IF j = k THEN [candidate |-> c, characters |-> characters, verdict |-> verdict]
              ELSE items[j]]

Included(items) == {k \in DOMAIN items : items[k].verdict = "included"}

Characters(items) == SumOver([k \in Included(items) |-> items[k].characters], Included(items))

OfInstance(items, i) == {k \in Included(items) : items[k].candidate.instance = i}

PairTaken(items, pair) == \E k \in Included(items) : items[k].candidate.pair = pair

\* Mutant of OverBudget: the candidate's own share is forgotten.
OverBudgetAlready(items, characters, r) == r.budget # NoBudget /\ Characters(items) > r.budget

OverBudget(items, characters, r) ==
  r.budget # NoBudget /\ Characters(items) + characters > r.budget

\* _evaluate past the horizon: the first rail that holds the candidate, given the
\* items before it.
RailVerdict(c, characters, items, r) ==
  IF PairTaken(items, c.pair) THEN "held_invariant"
  ELSE IF Cardinality(OfInstance(items, c.instance)) >= r.window THEN "held_window"
  ELSE IF \E cap \in r.caps : Cardinality(Included(items)) >= cap THEN "held_cap"
  ELSE IF OverBudget(items, characters, r) THEN "held_budget"
  ELSE "included"

Verdict(c, characters, items, r, limit) ==
  IF Cardinality(Included(items)) >= limit THEN "held_limit"
  ELSE RailVerdict(c, characters, items, r)

\* build_plan, over the candidates at the given places
BuildPlan(candidates, places, r, stats, limit) ==
  LET plan[n \in 0..Len(candidates)] ==
        IF n = 0 THEN Unjudged
        ELSE LET items == plan[n - 1]
                 c == candidates[n]
                 characters == Estimate(c.media, stats)
             IN IF n \notin places THEN items
                ELSE Judged(items, n, c, characters, Verdict(c, characters, items, r, limit))
  IN plan[Len(candidates)]

\* Mutant of PassVerdict: the pairs sent in this pass are not held.
PassVerdictUnpaired(c, items, r) ==
  RailVerdict([c EXCEPT !.pair = "any"], Heuristic[c.media], items, r)

\* The dispatcher always estimates by the heuristic.
PassVerdict(c, items, r) == RailVerdict(c, Heuristic[c.media], items, r)

\* run_for_instance, for an instance with nothing in flight, nothing used and
\* the preset's window: a pair that is held is passed over, a full window or a
\* blocking rail ends the pass.
DispatchPass(candidates, places, r) ==
  LET pass[n \in 0..Len(candidates)] ==
        IF n = 0 THEN [items |-> Unjudged, stopped |-> FALSE]
        ELSE LET before == pass[n - 1]
                 c == candidates[n]
                 verdict == PassVerdict(c, before.items, r)
             IN IF n \notin places \/ before.stopped THEN before
                ELSE IF verdict \in {"held_window", "held_cap", "held_budget"}
                     THEN [before EXCEPT !.stopped = TRUE]
                ELSE [before EXCEPT !.items = Judged(@, n, c, Heuristic[c.media], verdict)]
  IN pass[Len(candidates)].items
-----------------------------------------------------------------------------
PlanInit == backlog = << >> /\ rails = [window |-> 2, caps |-> {}, budget |-> NoBudget]
            /\ statistics = NoStatistics

\* A row becomes eligible, with a score or a bump that puts it anywhere.
Arrives(c) ==
  /\ \A k \in DOMAIN backlog : backlog[k] # c
  /\ \E k \in 1..(Len(backlog) + 1) : backlog' = InsertAt(backlog, k, c)
  /\ UNCHANGED <<rails, statistics>>

Leaves == /\ \E k \in DOMAIN backlog : backlog' = RemoveAt(backlog, k)
          /\ UNCHANGED <<rails, statistics>>

ActivatePreset(r) == rails' = r /\ UNCHANGED <<backlog, statistics>>

\* An unreachable Lingarr, and one without history, leave the heuristic.
ReadStatistics(s) == statistics' = s /\ UNCHANGED <<backlog, rails>>

PlanNext == \/ \E c \in Candidates : Arrives(c)
            \/ Leaves
            \/ \E r \in RailSettings : ActivatePreset(r)
            \/ \E s \in Statistics \cup {NoStatistics} : ReadStatistics(s)

PlanSpec == PlanInit /\ [][PlanNext]_planVars
-----------------------------------------------------------------------------
PlanFor(limit) == BuildPlan(backlog, DOMAIN backlog, rails, statistics, limit)

\* What a plan includes respects every rail at once, whatever the order of the
\* backlog: the horizon, one row per pair, the window of each instance, the
\* caps, the budget.
RespectsRails(items, limit) ==
  /\ Cardinality(Included(items)) <= limit
  /\ \A j, k \in Included(items) : items[j].candidate.pair = items[k].candidate.pair => j = k
  /\ \A k \in Included(items) :
       Cardinality(OfInstance(items, items[k].candidate.instance)) <= rails.window
  /\ \A cap \in rails.caps : Cardinality(Included(items)) <= cap
  /\ rails.budget # NoBudget => Characters(items) <= rails.budget

\* Nothing is held without a cause that still holds when the plan is complete:
\* no held row could be added to it.
NothingHeldInVain(items, limit) ==
  \A k \in DOMAIN items \ Included(items) :
    LET c == items[k].candidate
    IN \/ Cardinality(Included(items)) \in {limit} \cup rails.caps
       \/ PairTaken(items, c.pair)
       \/ Cardinality(OfInstance(items, c.instance)) = rails.window
       \/ OverBudget(items, items[k].characters, rails)

\* The limit is a horizon: a longer plan begins with the shorter one, and goes
\* on only where that is full.
Continues(long, short, limit) ==
  /\ Included(short) \subseteq Included(long)
  /\ Included(short) # Included(long) => Cardinality(Included(short)) = limit
  /\ \A j \in Included(short), k \in Included(long) \ Included(short) : j < k

\* A plan judges every row of the backlog; it is all that the rails admit up to
\* its horizon, and nothing else.
PlanIsTrue ==
  \A limit \in Limits :
    LET items == PlanFor(limit)
    IN /\ DOMAIN items = DOMAIN backlog
       /\ RespectsRails(items, limit)
       /\ NothingHeldInVain(items, limit)
       /\ \A more \in Limits : limit <= more => Continues(PlanFor(more), items, limit)

PlacesOf(i) == {k \in DOMAIN backlog : backlog[k].instance = i}

\* "What would dispatch next": with the dispatcher's estimates, a pass sends
\* nothing that a full preview of its instance does not include.
PassIsPreviewed ==
  \A i \in {c.instance : c \in Candidates} :
    Included(DispatchPass(backlog, PlacesOf(i), rails)) \subseteq
      Included(BuildPlan(backlog, PlacesOf(i), rails, NoStatistics, Len(backlog)))

\* "Once blocked, no lower-priority candidate can pass": what the preview still
\* includes after the row at which the pass stopped. Not so: after a row too large
\* for the budget the pass ends, the preview goes on to smaller ones.
BlockHoldsTheRest ==
  \A i \in {c.instance : c \in Candidates} :
    Included(BuildPlan(backlog, PlacesOf(i), rails, NoStatistics, Len(backlog)))
      = Included(DispatchPass(backlog, PlacesOf(i), rails))
=============================================================================
