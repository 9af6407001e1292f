--------------------------- MODULE BacklogPolicy ---------------------------
(***************************************************************************)
(* How far the policy reaches: one want, the policy that plans it, and its *)
(* row from discovery to dispatch.  Discovery applies the whole policy; a  *)
(* row that is in the backlog is dispatched by what the dispatcher reads.  *)
(***************************************************************************)
EXTENDS DiscoveryRules

CONSTANTS
  Item, Want,     \* the item and the subtitle of it that Bazarr lists
  Postures,       \* the values of the presets an operator may activate
  Rules,          \* the exclusion rules an operator may add
  Subs,           \* the subtitle files and tracks the item may have
  MaxAge,         \* bound on the days that pass
  Recency,        \* Recency[age]: the points of the recency component
  MonitoredBonus, WatchBonus, Base,
  NoRow

ASSUME BacklogPolicyAssumption ==
  /\ MaxAge \in Nat
  /\ Recency \in [0..MaxAge -> Nat]
  /\ \A a, b \in 0..MaxAge : a <= b => Recency[b] <= Recency[a]
  /\ \A p \in Postures : \A f \in DOMAIN p \cap {"grace_episodes", "grace_movies"} :
       p[f] \in Nat

VARIABLES
  posture, rules, \* the active preset's values, the exclusions
  subs, monitored, age, watched, \* the facts of the mirror and the watch index
  active,         \* dispatch_active of the instance
  row             \* the row of the intent, or NoRow

backlogVars == <<posture, rules, subs, monitored, age, watched, active, row>>

Policy == Resolve(Item, posture, << >>, << >>, << >>)

Decision == Explain(Item, monitored, Want, subs, Policy, rules, age)

\* score_intent, watch_boost
Score == Base + (IF monitored THEN MonitoredBonus ELSE 0) + Recency[age]
              + (IF watched THEN WatchBonus ELSE 0)

BacklogInit ==
  /\ posture = [dry_run |-> TRUE] /\ rules = {} /\ subs = {}
  /\ monitored = TRUE /\ age = 0 /\ watched = FALSE
  /\ active = FALSE /\ row = NoRow

\* Mutant of Refreshed: the score is refreshed, its explanation is not.
RefreshedSilently(r, score) == [r EXCEPT !.priority = score]

\* The steady state: a changed score is written with its step of the trace.
Refreshed(r, score) == IF r.priority = score THEN r
                       ELSE [r EXCEPT !.priority = score, !.explained = score]

\* One want of _evaluate_batch.  What is not planned is not touched, nor is a
\* terminal row; a row keeps its state when its source is elected anew.
Discover ==
  /\ Decision.reason = "planned"
  /\ row' = IF row = NoRow
            THEN [state |-> "eligible", source |-> Decision.source,
                  priority |-> Score, explained |-> Score]
            ELSE IF row.state = "superseded" THEN row
            ELSE IF row.source = Decision.source THEN Refreshed(row, Score)
            ELSE [row EXCEPT !.source = Decision.source,
                             !.priority = Score, !.explained = Score]
  /\ UNCHANGED <<posture, rules, subs, monitored, age, watched, active>>

\* elect_source_path: a plain file if there is one, any file otherwise.
SourceFiles ==
  LET files == {sub \in subs : sub.language = row.source /\ ~ sub.embedded}
      plain == {sub \in files : ~ sub.hi /\ ~ sub.forced}
  IN IF plain # {} THEN plain ELSE files

TargetPresent == \E sub \in subs : /\ ~ sub.embedded /\ sub.language = Want.language
                                   /\ sub.hi = Want.hi /\ sub.forced = Want.forced

\* run_for_instance and _guard: activation, state, target, source.
Dispatch ==
  /\ active /\ row # NoRow /\ row.state = "eligible"
  /\ ~ TargetPresent /\ SourceFiles # {}
  /\ row' = [row EXCEPT !.state = "dispatched"]
  /\ UNCHANGED <<posture, rules, subs, monitored, age, watched, active>>

\* The reconciler and the guard: the target is there by other means.
Supersede ==
  /\ row # NoRow /\ row.state = "eligible" /\ TargetPresent
  /\ row' = [row EXCEPT !.state = "superseded"]
  /\ UNCHANGED <<posture, rules, subs, monitored, age, watched, active>>

\* A failed attempt comes back to the backlog.
RetryDue ==
  /\ row # NoRow /\ row.state = "dispatched"
  /\ row' = [row EXCEPT !.state = "eligible"]
  /\ UNCHANGED <<posture, rules, subs, monitored, age, watched, active>>

ActivatePosture(p) ==
  /\ posture' = p
  /\ UNCHANGED <<rules, subs, monitored, age, watched, active, row>>

SetActivation(b) ==
  /\ active' = b
  /\ UNCHANGED <<posture, rules, subs, monitored, age, watched, row>>

ChangeRule(rule) ==
  /\ rules' = IF rule \in rules THEN rules \ {rule} ELSE rules \cup {rule}
  /\ UNCHANGED <<posture, subs, monitored, age, watched, active, row>>

\* The mirror follows the library: a track or a file comes or goes.
ChangeSub(sub) ==
  /\ subs' = IF sub \in subs THEN subs \ {sub} ELSE subs \cup {sub}
  /\ UNCHANGED <<posture, rules, monitored, age, watched, active, row>>

SetMonitored(b) ==
  /\ monitored' = b
  /\ UNCHANGED <<posture, rules, subs, age, watched, active, row>>

SetWatched(b) ==
  /\ watched' = b
  /\ UNCHANGED <<posture, rules, subs, monitored, age, active, row>>

DayPasses ==
  /\ age < MaxAge /\ age' = age + 1
  /\ UNCHANGED <<posture, rules, subs, monitored, watched, active, row>>

BacklogNext ==
  \/ Discover \/ Dispatch \/ Supersede \/ RetryDue \/ DayPasses
  \/ \E p \in Postures : ActivatePosture(p)
  \/ \E b \in BOOLEAN : SetActivation(b) \/ SetMonitored(b) \/ SetWatched(b)
  \/ \E rule \in Rules : ChangeRule(rule)
  \/ \E sub \in Subs : ChangeSub(sub)

BacklogSpec == BacklogInit /\ [][BacklogNext]_backlogVars
-----------------------------------------------------------------------------
\* Time alone never takes a plan back: the grace period only ends.
TimeNeverUnplans ==
  [][age' > age /\ Decision.reason = "planned" => Decision'.reason = "planned"]_backlogVars

\* A new exclusion stops a plan or leaves it alone: a pair that is excluded is
\* never replaced by the next source in the order of preference.
ExclusionNeverRedirects ==
  [][rules \subseteq rules' /\ rules # rules' =>
       Decision'.source \in {Decision.source, NoSource}]_backlogVars

\* A decision changes only for a reason an operator can see.
DecisionsAreSteady == TimeNeverUnplans /\ ExclusionNeverRedirects

\* "Backlog order and explanation never drift apart": the score a row is ordered
\* by is the one its trace explains.
PriorityIsExplained == row # NoRow => row.priority = row.explained

\* "Dry-run only ... dispatches nothing", the description of the preset Observe.
\* Not so: a row planned before the preset became active is dispatched after.
DryRunDispatchesNothing ==
  [][Policy.dry_run.value => ~ Dispatch]_backlogVars

\* Exclusions are "never translate" rules. Not so: discovery alone reads them, and
\* a row it has planned is dispatched though a rule has been added since.
ExcludedIsNeverTranslated ==
  [][MatchExclusions(Item, rules, << >>) # {} => ~ Dispatch]_backlogVars
=============================================================================
