-------------------------- MODULE PolicyResolution --------------------------
(***************************************************************************)
(* The policy cascade: global defaults, the active preset, the profile of  *)
(* the most specific assignment, the override of the item.  A layer is a   *)
(* partial function from field names to values: a field outside its domain *)
(* is "not set here, inherit".  Assignments and overrides are functions    *)
(* from the time of their last update, in whose order they are read.       *)
(***************************************************************************)
EXTENDS Naturals, FiniteSetsExt

NoLayer == << >>

\* Safe by default: nothing is dispatched, nothing is wanted.  Grace periods
\* are counted in days.
GlobalDefaults ==
  [dry_run |-> TRUE, target_languages |-> {}, source_preferences |-> <<"en">>,
   allow_hi_source |-> TRUE, allow_forced_source |-> FALSE,
   translate_hi_targets |-> FALSE, translate_forced_targets |-> FALSE,
   grace_episodes |-> 3, grace_movies |-> 7,
   skip_if_embedded_target |-> FALSE, skip_unmonitored |-> TRUE,
   priority_weights |-> "default"]

Fields == DOMAIN GlobalDefaults

\* An item is an episode of a series, or a movie; a scope names all of an
\* instance, a tag, a series or a movie.
ScopeMatches(scope, item) ==
  \/ scope.type = "instance"
  \/ scope.type = "library" /\ scope.key \in item.tags
  \/ scope.type = item.media /\ scope.key = item.key

Specificity == [instance |-> 1, library |-> 2, series |-> 3, movie |-> 3]

\* Mutant of Selected: among equals the oldest stays.
SelectedFirst(matching, rank) ==
  LET better(time, best) == IF rank[time] > rank[best] THEN time ELSE best
  IN MapThenFoldSet(better, Min(matching), LAMBDA time : time, Max, matching)

\* The loop over the rows that match, oldest first: a row takes the place of the
\* best so far unless its rank is lower.
Selected(matching, rank) ==
  LET better(time, best) == IF rank[time] >= rank[best] THEN time ELSE best
  IN MapThenFoldSet(better, Min(matching), LAMBDA time : time, Max, matching)

\* The most specific matching scope wins, the latest of equals.
SelectAssignment(item, assignments) ==
  LET matching == {i \in DOMAIN assignments : ScopeMatches(assignments[i].scope, item)}
      rank == [i \in matching |-> Specificity[assignments[i].scope.type]]
  IN IF matching = {} THEN NoLayer ELSE assignments[Selected(matching, rank)]

\* Overrides have no rank.
SelectOverride(item, overrides) ==
  LET matching == {i \in DOMAIN overrides : overrides[i].media = item.media
                                            /\ overrides[i].key = item.key}
  IN IF matching = {} THEN NoLayer ELSE overrides[Selected(matching, [i \in matching |-> 0])]

\* _apply, _pick: what the layer sets replaces what is below, with its stamp.
Apply(effective, layer, values) ==
  [f \in Fields |-> IF f \in DOMAIN values THEN [value |-> values[f], layer |-> layer]
                                           ELSE effective[f]]

Initially == [f \in Fields |-> [value |-> GlobalDefaults[f], layer |-> "global"]]

\* preset is the values of the active preset, or NoLayer; profiles maps the
\* names of profiles to their values.
Resolve(item, preset, assignments, profiles, overrides) ==
  LET assignment == SelectAssignment(item, assignments)
      override == SelectOverride(item, overrides)
      withPreset == Apply(Initially, "preset", preset)
      withProfile == IF assignment = NoLayer THEN withPreset
                     ELSE Apply(withPreset, "profile", profiles[assignment.profile])
  IN IF override = NoLayer THEN withProfile
     ELSE Apply(withProfile, "override", override.values)

\* match_exclusions: a rule's key is <<name>> or <<source, target>>; pair is
\* such a pair, or << >> for the item alone.
MatchExclusions(item, exclusions, pair) ==
  {rule \in exclusions : \/ rule.kind = item.media /\ rule.key = <<item.key>>
                         \/ rule.kind = "tag" /\ \E tag \in item.tags : rule.key = <<tag>>
                         \/ rule.kind = "language_pair" /\ rule.key = pair}
=============================================================================
