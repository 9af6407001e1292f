--------------------------- MODULE DiscoveryRules ---------------------------
(***************************************************************************)
(* Whether a wanted subtitle is planned, and from which source language:   *)
(* the rule chain that discovery and the explainer share.                  *)
(*   want: [language, hi, forced]                                          *)
(*   subs: a set of [language, hi, forced, embedded]                       *)
(*   policy: what Resolve returns; age: days since the want was first seen *)
(***************************************************************************)
EXTENDS PolicyResolution

NoSource == "none"

\* A file the policy allows to translate from.
Usable(sub, policy) ==
  /\ ~ sub.embedded
  /\ policy.allow_hi_source.value \/ ~ sub.hi
  /\ policy.allow_forced_source.value \/ ~ sub.forced

\* The first of the places that are left, or what stands for none.
FirstOf(seq, places, none) == IF places = {} THEN none ELSE seq[Min(places)]

\* Mutant of ElectSource: pairs that are excluded are passed over.
ElectAllowedSource(want, subs, policy, excluded) ==
  LET codes == policy.source_preferences.value
  IN FirstOf(codes, {k \in DOMAIN codes :
                       /\ codes[k] # want.language /\ <<codes[k], want.language>> \notin excluded
                       /\ \E sub \in subs : sub.language = codes[k] /\ Usable(sub, policy)},
             NoSource)

\* The first preference that has a usable file.
ElectSource(want, subs, policy, excluded) ==
  LET codes == policy.source_preferences.value
  IN FirstOf(codes, {k \in DOMAIN codes :
                       /\ codes[k] # want.language
                       /\ \E sub \in subs : sub.language = codes[k] /\ Usable(sub, policy)},
             NoSource)

GracePassed(item, policy, age) ==
  age >= IF item.media = "movie" THEN policy.grace_movies.value
                                 ELSE policy.grace_episodes.value

EmbeddedTarget(want, subs) ==
  \E sub \in subs : /\ sub.embedded /\ sub.language = want.language
                    /\ sub.hi = want.hi /\ sub.forced = want.forced

\* explain_candidate: the first obstacle is the reason, and a source without
\* one is a plan.  A pair exclusion ends the search: no other preference is
\* tried.  excluded is the set of rules, pairs among them.
Explain(item, monitored, want, subs, policy, rules, age) ==
  LET pairs == {rule.key : rule \in {r \in rules : r.kind = "language_pair"}}
      source == ElectSource(want, subs, policy, pairs)
      met == {obstacle \in {
        [at |-> 1, reason |-> "target_not_in_policy",
         holds |-> want.language \notin policy.target_languages.value],
        [at |-> 2, reason |-> "hi_target_disabled",
         holds |-> want.hi /\ ~ policy.translate_hi_targets.value],
        [at |-> 3, reason |-> "forced_target_disabled",
         holds |-> want.forced /\ ~ policy.translate_forced_targets.value],
        [at |-> 4, reason |-> "unmonitored",
         holds |-> policy.skip_unmonitored.value /\ ~ monitored],
        [at |-> 5, reason |-> "excluded", holds |-> MatchExclusions(item, rules, << >>) # {}],
        [at |-> 6, reason |-> "embedded_target_exists",
         holds |-> policy.skip_if_embedded_target.value /\ EmbeddedTarget(want, subs)],
        [at |-> 7, reason |-> "no_eligible_source", holds |-> source = NoSource],
        [at |-> 8, reason |-> "excluded",
         holds |-> MatchExclusions(item, rules, <<source, want.language>>) # {}],
        [at |-> 9, reason |-> "grace_pending", holds |-> ~ GracePassed(item, policy, age)]} :
          obstacle.holds}
  IN IF met = {} THEN [reason |-> "planned", source |-> source]
     ELSE [reason |-> (CHOOSE o \in met : \A p \in met : o.at <= p.at).reason,
           source |-> NoSource]
=============================================================================
