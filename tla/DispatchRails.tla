---------------------------- MODULE DispatchRails ----------------------------
(***************************************************************************)
(* The rails one instance's dispatches pass: operator pause, circuit       *)
(* breaker, scheduling window, volume caps and the character budget, asked *)
(* once per candidate by the dispatch pass, and fed by the verification    *)
(* pass, which commits a row's outcome before it tells the breaker.  The   *)
(* instance lock serialises the two; operators act without it.             *)
(*                                                                         *)
(* An Attempt is one dispatch the backlog offers, so a retry is another    *)
(* attempt.  probeDue says that breaker_probe_minutes have passed since    *)
(* the breaker opened or was last probed.                                  *)
(***************************************************************************)
EXTENDS FiniteSets, Sums

CONSTANTS
  Attempts,     \* dispatches the backlog may offer
  Cost,         \* the character estimate of each
  Cap,          \* hourly, daily and weekly caps
  Budget,       \* the daily character budget
  Threshold,    \* breaker_failure_threshold
  Unfed,        \* may outcomes occur that the breaker is not told of?
  MaxFailures,  \* bound on the failure streak
  MaxRestarts,  \* bound on restarts of the process
  None

Horizons == {"hour", "day", "week"}

ASSUME DispatchRailsAssumption ==
  /\ IsFiniteSet(Attempts) /\ None \notin Attempts
  /\ Cost \in [Attempts -> Nat] /\ Cap \in [Horizons -> Nat] /\ Budget \in Nat
  /\ Threshold \in Nat \ {0} /\ Unfed \in BOOLEAN
  /\ MaxFailures \in Nat /\ MaxRestarts \in Nat

VARIABLES
  row,          \* what became of each attempt
  recent,       \* per horizon, the attempts whose dispatched event is in it
  breaker, failures, probeDue,
  paused, windowOpen,
  pc, todo, cur, moment, probing, outcome,
  leaked,       \* attempts recorded since dispatch was paused
  restarts

control == <<paused, windowOpen>>
circuit == <<breaker, failures, probeDue>>
pass    == <<pc, todo, cur, moment, probing, outcome>>
vars == <<row, recent, circuit, control, pass, leaked, restarts>>

InFlight == {a \in Attempts : row[a] = "in_flight"}
Spent(S) == SumOver(Cost, S)

-----------------------------------------------------------------------------
(* evaluate_admission, in its order; now is the start of the pass.         *)

\* Mutant of WithinCaps: the cap itself may be used once more.
WithinCapsOneMore(a) ==
  /\ \A h \in Horizons : Cardinality(recent[h]) <= Cap[h]
  /\ Spent(recent["day"]) + Cost[a] <= Budget

WithinCaps(a) ==
  /\ \A h \in Horizons : Cardinality(recent[h]) < Cap[h]
  /\ Spent(recent["day"]) + Cost[a] <= Budget

\* Mutant of BreakerAdmits: half_open is taken for closed.
BreakerAdmitsHalfOpen == breaker = "open" => moment.probeDue /\ probeDue

BreakerAdmits ==
  \/ breaker = "closed"
  \/ breaker = "open" /\ moment.probeDue /\ probeDue

\* Mutant of Allowed: a pause is not looked at again.
AllowedThoughPaused(a) == BreakerAdmits /\ moment.windowOpen /\ WithinCaps(a)

Allowed(a) ==
  /\ ~ paused
  /\ BreakerAdmits
  /\ moment.windowOpen
  /\ WithinCaps(a)

-----------------------------------------------------------------------------
(* The dispatch pass.                                                      *)

NoPass == [probeDue |-> FALSE, windowOpen |-> FALSE]

Ends == /\ pc' = "idle" /\ todo' = {} /\ cur' = None /\ moment' = NoPass
        /\ probing' = FALSE /\ outcome' = "none"

BeginDispatch ==
  /\ pc = "idle"
  /\ pc' = "dispatch"
  /\ todo' = {a \in Attempts : row[a] = "eligible"}
  /\ moment' = [probeDue |-> probeDue, windowOpen |-> windowOpen]
  /\ UNCHANGED <<row, recent, circuit, control, cur, probing, outcome, leaked, restarts>>

Admit(a) ==
  /\ pc = "dispatch" /\ a \in todo
  /\ Allowed(a)
  /\ probing' = (breaker = "open")
  /\ cur' = a
  /\ todo' = todo \ {a}
  /\ pc' = "guard"
  /\ UNCHANGED <<row, recent, circuit, control, moment, outcome, leaked, restarts>>

\* The pre-dispatch guard supersedes or skips the candidate; no probe is used.
GuardStops ==
  /\ pc = "guard"
  /\ \E to \in {"eligible", "closed"} : row' = [row EXCEPT ![cur] = to]
  /\ pc' = "dispatch" /\ cur' = None /\ probing' = FALSE
  /\ UNCHANGED <<recent, circuit, control, todo, moment, outcome, leaked, restarts>>

RecordDispatched ==
  /\ pc = "guard"
  /\ row' = [row EXCEPT ![cur] = "in_flight"]
  /\ recent' = [h \in Horizons |-> recent[h] \cup {cur}]
  /\ leaked' = IF paused THEN leaked \cup {cur} ELSE leaked
  /\ pc' = "patch"
  /\ UNCHANGED <<circuit, control, todo, cur, moment, probing, outcome, restarts>>

PatchAccepted ==
  /\ pc = "patch"
  /\ IF probing THEN pc' = "mark" /\ UNCHANGED <<cur, probing>>
                ELSE pc' = "dispatch" /\ cur' = None /\ probing' = FALSE
  /\ UNCHANGED <<row, recent, circuit, control, todo, moment, outcome, leaked, restarts>>

PatchFails ==
  /\ pc = "patch"
  /\ row' = [row EXCEPT ![cur] = "closed"]
  /\ Ends
  /\ UNCHANGED <<recent, circuit, control, leaked, restarts>>

MarkProbe ==
  /\ pc = "mark"
  /\ breaker' = "half_open" /\ probeDue' = FALSE
  /\ pc' = "dispatch" /\ cur' = None /\ probing' = FALSE
  /\ UNCHANGED <<row, recent, failures, control, todo, moment, outcome, leaked, restarts>>

-----------------------------------------------------------------------------
(* The verification pass, as far as the breaker is concerned.              *)

BeginVerify ==
  /\ pc = "idle"
  /\ pc' = "verify"
  /\ todo' = InFlight
  /\ UNCHANGED <<row, recent, circuit, control, cur, moment, probing, outcome, leaked, restarts>>

StillWaiting(a) ==
  /\ pc = "verify" /\ a \in todo
  /\ todo' = todo \ {a}
  /\ UNCHANGED <<row, recent, circuit, control, pc, cur, moment, probing, outcome, leaked, restarts>>

\* The row's own commits: converged, failed by the provider, or any of the
\* outcomes that _verify_one does not feed.
Settle(a) ==
  /\ pc = "verify" /\ a \in todo
  /\ row' = [row EXCEPT ![a] = "closed"]
  /\ todo' = todo \ {a}
  /\ \/ outcome' \in {"converged", "provider"} /\ pc' = "feed"
     \/ Unfed /\ outcome' = "none" /\ pc' = "verify"
  /\ UNCHANGED <<recent, circuit, control, cur, moment, probing, leaked, restarts>>

\* Mutant of Feed: a failed probe is counted like any other failure.
FeedUnderThreshold ==
  /\ pc = "feed"
  /\ IF outcome = "converged" THEN breaker' = "closed" /\ failures' = 0
     ELSE /\ failures' = failures + 1
          /\ breaker' = IF failures' > Threshold THEN "open" ELSE "closed"
  /\ probeDue' = FALSE
  /\ pc' = "verify" /\ outcome' = "none"
  /\ UNCHANGED <<row, recent, control, todo, cur, moment, probing, leaked, restarts>>

\* record_dispatch_result: breaker_after_success, breaker_after_failure.
Feed ==
  /\ pc = "feed"
  /\ IF outcome = "converged" THEN breaker' = "closed" /\ failures' = 0
     ELSE /\ failures < MaxFailures
          /\ failures' = failures + 1
          /\ breaker' = IF breaker = "half_open" \/ failures' >= Threshold
                        THEN "open" ELSE "closed"
  /\ probeDue' = FALSE
  /\ pc' = "verify" /\ outcome' = "none"
  /\ UNCHANGED <<row, recent, control, todo, cur, moment, probing, leaked, restarts>>

\* A pass runs out of rows, or a rail blocks a dispatch pass.
EndPass ==
  /\ \/ pc \in {"dispatch", "verify"} /\ todo = {}
     \/ pc = "dispatch" /\ \E a \in todo : ~ Allowed(a)
  /\ Ends
  /\ UNCHANGED <<row, recent, circuit, control, leaked, restarts>>

-----------------------------------------------------------------------------
(* Operators, the clock and restarts.                                      *)

SetPaused ==
  /\ paused' = ~ paused
  /\ leaked' = {}
  /\ UNCHANGED <<row, recent, circuit, windowOpen, pass, restarts>>

WindowFlips ==
  /\ windowOpen' = ~ windowOpen
  /\ UNCHANGED <<row, recent, circuit, paused, pass, leaked, restarts>>

\* A dispatched event leaves a rolling horizon, the shorter ones first.
EventAges(h, a) ==
  /\ a \in recent[h]
  /\ h = "day" => a \notin recent["hour"]
  /\ h = "week" => a \notin recent["day"]
  /\ recent' = [recent EXCEPT ![h] = @ \ {a}]
  /\ UNCHANGED <<row, circuit, control, pass, leaked, restarts>>

ProbeIntervalElapses ==
  /\ breaker = "open" /\ ~ probeDue
  /\ probeDue' = TRUE
  /\ UNCHANGED <<row, recent, breaker, failures, control, pass, leaked, restarts>>

Restart ==
  /\ restarts < MaxRestarts
  /\ restarts' = restarts + 1
  /\ Ends
  /\ UNCHANGED <<row, recent, circuit, control, leaked>>

-----------------------------------------------------------------------------
Init ==
  /\ row = [a \in Attempts |-> "eligible"]
  /\ recent = [h \in Horizons |-> {}]
  /\ breaker = "closed" /\ failures = 0 /\ probeDue = FALSE
  /\ paused = FALSE /\ windowOpen = TRUE
  /\ pc = "idle" /\ todo = {} /\ cur = None /\ moment = NoPass
  /\ probing = FALSE /\ outcome = "none"
  /\ leaked = {} /\ restarts = 0

PassStep ==
  \/ GuardStops \/ RecordDispatched \/ PatchAccepted \/ PatchFails \/ MarkProbe
  \/ Feed \/ EndPass
  \/ \E a \in Attempts : Admit(a) \/ StillWaiting(a) \/ Settle(a)

Next ==
  \/ BeginDispatch \/ BeginVerify \/ PassStep
  \/ SetPaused \/ WindowFlips \/ ProbeIntervalElapses \/ Restart
  \/ \E h \in Horizons, a \in Attempts : EventAges(h, a)

Spec == Init /\ [][Next]_vars

(* A pass runs to its end, verification gets its turns, and no row waits   *)
(* for ever: every lease runs out.                                         *)
Fairness == /\ WF_vars(PassStep)
            /\ SF_vars(BeginVerify)
            /\ \A a \in Attempts : SF_vars(Settle(a))

FairSpec == Spec /\ Fairness

-----------------------------------------------------------------------------
\* Every variable keeps its type, and a candidate is at hand exactly between
\* its admission and the end of its dispatch.
TypeOK ==
  /\ row \in [Attempts -> {"eligible", "in_flight", "closed"}]
  /\ recent \in [Horizons -> SUBSET Attempts]
  /\ breaker \in {"closed", "open", "half_open"}
  /\ failures \in 0..MaxFailures /\ probeDue \in BOOLEAN
  /\ paused \in BOOLEAN /\ windowOpen \in BOOLEAN
  /\ pc \in {"idle", "dispatch", "guard", "patch", "mark", "verify", "feed"}
  /\ todo \subseteq Attempts
  /\ IF pc \in {"guard", "patch", "mark"} THEN cur \in Attempts ELSE cur = None
  /\ moment \in [probeDue : BOOLEAN, windowOpen : BOOLEAN]
  /\ probing \in BOOLEAN
  /\ outcome \in {"none", "converged", "provider"}
  /\ leaked \subseteq Attempts
  /\ restarts \in 0..MaxRestarts

\* The volume caps bound the events of each rolling horizon.
VolumeCapsHold == \A h \in Horizons : Cardinality(recent[h]) <= Cap[h]

\* Caps and budget bound the events of each rolling horizon, restarts and
\* interrupted passes included ("derived from the durable dispatch audit
\* trail, never from a volatile counter").
CapsRespected == VolumeCapsHold /\ Spent(recent["day"]) <= Budget

\* A pause takes effect within the pass that is running: it lets through no
\* more than the one candidate admitted before it.
PauseIsPrompt == Cardinality(leaked) <= 1

\* While a probe is out, nothing is dispatched; from an open breaker only
\* probes are ("hold further dispatch until the probe resolves").
OnlyProbesWhileTripped ==
  [][\A a \in Attempts :
       row[a] = "eligible" /\ row'[a] = "in_flight" =>
         breaker = "closed" \/ (breaker = "open" /\ probing)]_vars

\* A streak of Threshold provider failures never leaves the breaker closed,
\* and only a converged translation closes a tripped breaker.
TripsAndCloses ==
  [][/\ breaker' = "closed" => failures' < Threshold
     /\ breaker # "closed" /\ breaker' = "closed" =>
          outcome = "converged" /\ failures' = 0]_vars

\* "Hold further dispatch until its verified outcome closes (success) or
\* re-opens (failure) the breaker": a probe always resolves.
ProbeResolves == breaker = "half_open" ~> breaker # "half_open"
=============================================================================
