----------------------------- MODULE PolicyAdmin -----------------------------
(***************************************************************************)
(* The policy tables and the requests that edit them.  Every handler runs  *)
(* in a session of its own: it reads rows, awaits, and commits what it has *)
(* changed of them.  Activation and deletion of presets are the two whose  *)
(* commit rests on rows read before, so that they take two steps here; the *)
(* others are protected by the unique constraints and take one.            *)
(***************************************************************************)
EXTENDS PolicyResolution

CONSTANTS
  Operators,    \* sessions of administrators
  PresetNames, ProfileNames, BuiltIns, Observe,
  LayerValues,  \* the values a request may carry
  Scopes, Items, ExclusionRules,
  MaxEdits,     \* bound on committed edits
  Idle

ASSUME PolicyAdminAssumption ==
  /\ Observe \in BuiltIns /\ BuiltIns \subseteq PresetNames
  /\ MaxEdits \in Nat

VARIABLES
  presets,      \* name -> [values, active]
  profiles,     \* name -> values
  assignments,  \* the time it was made -> [scope, profile]
  overrides,    \* the time of its last update -> [media, key, values]
  exclusions,
  request,      \* request[u]: what u has read and not yet committed
  edits

adminVars == <<presets, profiles, assignments, overrides, exclusions, request, edits>>

PolicyInit ==
  /\ presets = [n \in BuiltIns |-> [values |-> [dry_run |-> n = Observe],
                                    active |-> n = Observe]]
  /\ profiles = << >> /\ assignments = << >> /\ overrides = << >>
  /\ exclusions = {}
  /\ request = [u \in Operators |-> Idle]
  /\ edits = 0

Edits == edits < MaxEdits /\ edits' = edits + 1

Active == {n \in DOMAIN presets : presets[n].active}

\* table with a row added.
With(table, key, row) ==
  [k \in DOMAIN table \cup {key} |-> IF k = key THEN row ELSE table[k]]
-----------------------------------------------------------------------------
\* create_preset, fork_preset and import_policies add rows that are neither
\* built in nor active; a name that is taken is refused, or skipped.
AddPreset(n, values) ==
  /\ n \notin DOMAIN presets
  /\ presets' = With(presets, n, [values |-> values, active |-> FALSE])

CreatePreset(u, n, values) ==
  /\ request[u] = Idle /\ Edits
  /\ AddPreset(n, values)
  /\ UNCHANGED <<profiles, assignments, overrides, exclusions, request>>

ForkPreset(u, m, n) ==
  /\ request[u] = Idle /\ Edits
  /\ m \in DOMAIN presets
  /\ AddPreset(n, presets[m].values)
  /\ UNCHANGED <<profiles, assignments, overrides, exclusions, request>>

\* One import brings a preset and a profile, each unless its name is taken.
ImportPolicies(u, n, p, values) ==
  /\ request[u] = Idle /\ Edits
  /\ \/ AddPreset(n, values)
     \/ n \in DOMAIN presets /\ UNCHANGED presets
  /\ profiles' = IF p \in DOMAIN profiles THEN profiles ELSE With(profiles, p, values)
  /\ UNCHANGED <<assignments, overrides, exclusions, request>>

UpdatePreset(u, n, values) ==
  /\ request[u] = Idle /\ Edits
  /\ n \in DOMAIN presets
  /\ presets' = [presets EXCEPT ![n].values = values]
  /\ UNCHANGED <<profiles, assignments, overrides, exclusions, request>>

RenamePreset(u, n, m) ==
  /\ request[u] = Idle /\ Edits
  /\ n \in DOMAIN presets \ BuiltIns /\ m \notin DOMAIN presets
  /\ presets' = With(Restrict(presets, DOMAIN presets \ {n}), m, presets[n])
  /\ UNCHANGED <<profiles, assignments, overrides, exclusions, request>>

\* delete_preset, up to its commit
ReadForDelete(u, n) ==
  /\ request[u] = Idle
  /\ n \in DOMAIN presets \ BuiltIns /\ ~ presets[n].active
  /\ request' = [request EXCEPT ![u] = [op |-> "delete", preset |-> n]]
  /\ UNCHANGED <<presets, profiles, assignments, overrides, exclusions, edits>>

CommitDelete(u) ==
  /\ request[u] # Idle /\ request[u].op = "delete" /\ Edits
  /\ presets' = Restrict(presets, DOMAIN presets \ {request[u].preset})
  /\ request' = [request EXCEPT ![u] = Idle]
  /\ UNCHANGED <<profiles, assignments, overrides, exclusions>>

\* activate_preset, up to its commit: every row is read.
ReadForActivate(u, n) ==
  /\ request[u] = Idle
  /\ n \in DOMAIN presets
  /\ request' = [request EXCEPT ![u] =
                   [op |-> "activate", preset |-> n, seen |-> Active, rows |-> DOMAIN presets]]
  /\ UNCHANGED <<presets, profiles, assignments, overrides, exclusions, edits>>

\* Mutant of Flipped: the presets that were active stay so.
FlippedOn(r) == {r.preset} \ r.seen

\* The rows whose active flag differs from what was read: only they are written.
Flipped(r) == (r.seen \ {r.preset}) \cup ({r.preset} \ r.seen)

\* A written row that is gone by then fails the whole commit.
CommitActivate(u) ==
  /\ request[u] # Idle /\ request[u].op = "activate" /\ Edits
  /\ IF Flipped(request[u]) \subseteq DOMAIN presets
     THEN presets' = [n \in DOMAIN presets |->
                        IF n \in Flipped(request[u])
                        THEN [presets[n] EXCEPT !.active = (n = request[u].preset)]
                        ELSE presets[n]]
     ELSE UNCHANGED presets
  /\ request' = [request EXCEPT ![u] = Idle]
  /\ UNCHANGED <<profiles, assignments, overrides, exclusions>>
-----------------------------------------------------------------------------
CreateProfile(u, p, values) ==
  /\ request[u] = Idle /\ Edits
  /\ p \notin DOMAIN profiles
  /\ profiles' = With(profiles, p, values)
  /\ UNCHANGED <<presets, assignments, overrides, exclusions, request>>

UpdateProfile(u, p, values) ==
  /\ request[u] = Idle /\ Edits
  /\ p \in DOMAIN profiles
  /\ profiles' = [profiles EXCEPT ![p] = values]
  /\ UNCHANGED <<presets, assignments, overrides, exclusions, request>>

\* Its assignments go with it: the relationship cascades.
DeleteProfile(u, p) ==
  /\ request[u] = Idle /\ Edits
  /\ p \in DOMAIN profiles
  /\ profiles' = Restrict(profiles, DOMAIN profiles \ {p})
  /\ assignments' = Restrict(assignments, {i \in DOMAIN assignments : assignments[i].profile # p})
  /\ UNCHANGED <<presets, overrides, exclusions, request>>

\* One profile for a scope.
ScopeTaken(scope) == \E i \in DOMAIN assignments : assignments[i].scope = scope

CreateAssignment(u, p, scope) ==
  /\ request[u] = Idle /\ Edits
  /\ p \in DOMAIN profiles /\ ~ ScopeTaken(scope)
  /\ assignments' = With(assignments, edits, [scope |-> scope, profile |-> p])
  /\ UNCHANGED <<presets, profiles, overrides, exclusions, request>>

DeleteAssignment(u, i) ==
  /\ request[u] = Idle /\ Edits
  /\ assignments' = Restrict(assignments, DOMAIN assignments \ {i})
  /\ UNCHANGED <<presets, profiles, overrides, exclusions, request>>

\* An updated override is the latest again.
UpsertOverride(u, item, values) ==
  /\ request[u] = Idle /\ Edits
  /\ LET mine(o) == o.media = item.media /\ o.key = item.key
     IN overrides' = With(Restrict(overrides, {i \in DOMAIN overrides : ~ mine(overrides[i])}),
                          edits, [media |-> item.media, key |-> item.key, values |-> values])
  /\ UNCHANGED <<presets, profiles, assignments, exclusions, request>>

DeleteOverride(u, i) ==
  /\ request[u] = Idle /\ Edits
  /\ overrides' = Restrict(overrides, DOMAIN overrides \ {i})
  /\ UNCHANGED <<presets, profiles, assignments, exclusions, request>>

CreateExclusion(u, rule) ==
  /\ request[u] = Idle /\ Edits
  /\ rule \notin exclusions
  /\ exclusions' = exclusions \cup {rule}
  /\ UNCHANGED <<presets, profiles, assignments, overrides, request>>

DeleteExclusion(u, rule) ==
  /\ request[u] = Idle /\ Edits
  /\ rule \in exclusions
  /\ exclusions' = exclusions \ {rule}
  /\ UNCHANGED <<presets, profiles, assignments, overrides, request>>

EditsPresets(u) ==
  \E n \in PresetNames :
    \/ ReadForDelete(u, n) \/ ReadForActivate(u, n)
    \/ \E m \in PresetNames : ForkPreset(u, m, n) \/ RenamePreset(u, m, n)
    \/ \E values \in LayerValues : CreatePreset(u, n, values) \/ UpdatePreset(u, n, values)

EditsProfiles(u) ==
  \E p \in ProfileNames :
    \/ DeleteProfile(u, p)
    \/ \E scope \in Scopes : CreateAssignment(u, p, scope)
    \/ \E values \in LayerValues :
         \/ CreateProfile(u, p, values) \/ UpdateProfile(u, p, values)
         \/ \E n \in PresetNames : ImportPolicies(u, n, p, values)

EditsRules(u) ==
  \/ \E i \in DOMAIN assignments : DeleteAssignment(u, i)
  \/ \E i \in DOMAIN overrides : DeleteOverride(u, i)
  \/ \E item \in Items, values \in LayerValues : UpsertOverride(u, item, values)
  \/ \E rule \in ExclusionRules : CreateExclusion(u, rule) \/ DeleteExclusion(u, rule)

PolicyNext ==
  \E u \in Operators : \/ CommitDelete(u) \/ CommitActivate(u)
                       \/ EditsPresets(u) \/ EditsProfiles(u) \/ EditsRules(u)

PolicySpec == PolicyInit /\ [][PolicyNext]_adminVars
-----------------------------------------------------------------------------
\* What active_preset() may return: the values of the first row that is active,
\* in no order, or none.
PresetLayers ==
  IF Active = {} THEN {NoLayer} ELSE {presets[n].values : n \in Active}

EffectivePolicy(item, preset) == Resolve(item, preset, assignments, profiles, overrides)

\* Every preset has its values and its flag, every assignment an existing
\* profile, every scope one assignment and every item one override.
PolicyTypeOK ==
  /\ BuiltIns \subseteq DOMAIN presets /\ DOMAIN presets \subseteq PresetNames
  /\ \A n \in DOMAIN presets : presets[n].active \in BOOLEAN
  /\ DOMAIN profiles \subseteq ProfileNames
  /\ exclusions \subseteq ExclusionRules
  /\ edits \in 0..MaxEdits
  /\ \A i, j \in DOMAIN assignments :
       assignments[i].scope = assignments[j].scope => i = j

\* "Exactly one active preset" (activate_preset).
ExactlyOneActive == Cardinality(Active) = 1

\* Deleting a profile leaves no assignment behind that would still be resolved.
AssignmentsResolve ==
  \A i \in DOMAIN assignments : assignments[i].profile \in DOMAIN profiles

\* The policy tables agree with one another after any sequence of requests:
\* creating, importing, renaming, activating, assigning and deleting.
PolicyRowsAgree == PolicyTypeOK /\ ExactlyOneActive /\ AssignmentsResolve

\* Each value of the effective policy, and the layer it is stamped with, comes
\* from the nearest layer that sets it: the override of the item, the profile
\* of the latest of the most specific assignments, the preset, the defaults.
NearestLayerWins ==
  \A item \in Items, preset \in PresetLayers :
    LET own == {i \in DOMAIN overrides : overrides[i].media = item.media
                                         /\ overrides[i].key = item.key}
        matching == {i \in DOMAIN assignments : ScopeMatches(assignments[i].scope, item)}
        rank(i) == Specificity[assignments[i].scope.type]
        best == {i \in matching : \A j \in matching :
                   rank(j) < rank(i) \/ (rank(j) = rank(i) /\ j <= i)}
        sets(f, layers) == {v \in layers : f \in DOMAIN v}
        byOverride(f) == sets(f, {overrides[i].values : i \in own})
        byProfile(f) == sets(f, {profiles[assignments[i].profile] : i \in best})
        stamps(f, layers, name) == {[value |-> v[f], layer |-> name] : v \in layers}
        nearest(f) == IF byOverride(f) # {} THEN stamps(f, byOverride(f), "override")
                      ELSE IF byProfile(f) # {} THEN stamps(f, byProfile(f), "profile")
                      ELSE IF f \in DOMAIN preset THEN stamps(f, {preset}, "preset")
                      ELSE stamps(f, {GlobalDefaults}, "global")
    IN LET policy == EffectivePolicy(item, preset) IN \A f \in Fields : policy[f] \in nearest(f)

=============================================================================
