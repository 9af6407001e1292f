---------------------------- MODULE DispatchCycle ----------------------------
(***************************************************************************)
(* One Bazarr instance's intent ledger and the background passes over it:  *)
(* discovery, reconciliation, dispatch and verification, serialised by the *)
(* instance lock, against operators who act without the lock, Bazarr's job *)
(* queue, Lingarr's request records, and process restarts.                 *)
(*                                                                         *)
(* A pass is a sequence of steps, split at every await whose answer can be *)
(* stale by the time it is used and at every commit.  Time is two-valued:  *)
(* elapsed[i] says that the timer which matters in row i's state (the      *)
(* lease of a dispatched row, the backoff of a retry-eligible one) has run *)
(* out; translated[i] says that Bazarr's history holds a translation entry *)
(* newer than the row's updated_at.                                        *)
(***************************************************************************)
EXTENDS IntentStates, FiniteSets

CONSTANTS
  Intents,      \* natural keys: (media, target language, forced, hi)
  Sources,      \* source languages the policy may elect
  Groups,       \* titles with a target language: what a pair key holds
  GroupOf,      \* the group of each intent
  WindowK,      \* the configured dispatch window
  Slots,        \* Bazarr's concurrent_jobs
  Backpressure, \* pending jobs at which a dispatch pass holds
  MaxAttempts,  \* dispatches before automation gives up
  Operators,    \* concurrent HTTP requests acting on the quarantine view
  Actions,      \* what they ask: a subset of {"retry", "release", "exclude"}
  MaxRetries,   \* bound on manual retries per intent
  MaxRestarts,  \* bound on restarts of the process
  Faults,       \* what may go wrong around the passes, see AllFaults
  NoIntent, Idle

AllFaults == {"abort",          \* an upstream read fails and ends the pass
              "reject",         \* Bazarr refuses a translate PATCH
              "lost_reply",     \* Bazarr queues the job, the reply is lost
              "provider", "environmental",  \* Lingarr records a failed request
              "lost_job",       \* a Bazarr job vanishes without a record
              "slow_job",       \* a job may outlive the lease
              "other_means",    \* the subtitle appears without a translation
              "foreign",        \* somebody else's Lingarr request on the pair
              "rescore",        \* discovery refreshes a row's priority
              "withdraw"}       \* the want disappears from the mirror

ASSUME DispatchCycleAssumption ==
  /\ IsFiniteSet(Intents) /\ Intents # {} /\ NoIntent \notin Intents
  /\ Sources # {} /\ Groups # {}
  /\ GroupOf \in [Intents -> Groups]
  /\ WindowK \in Nat \ {0} /\ Slots \in Nat \ {0}
  /\ Backpressure \in Nat /\ MaxAttempts \in Nat \ {0} /\ MaxRetries \in Nat
  /\ MaxRestarts \in Nat
  /\ IsFiniteSet(Operators)
  /\ Actions \subseteq {"retry", "release", "exclude"}
  /\ Faults \subseteq AllFaults

VARIABLES
  \* the ledger and policy tables
  state, source, attempts, failure, granted, excluded, wanted,
  \* time
  elapsed,
  \* Bazarr and Lingarr
  target, translated, queue, working, finished, refused, foreign,
  \* the pass that holds the instance lock
  pc, moment, seen, todo, held, room, cur, verdict,
  \* HTTP requests in progress, and how often the process has restarted
  request, restarts

ledger   == <<state, source, attempts, failure, granted>>
policy   == <<excluded, wanted>>
upstream == <<target, queue, working, finished, refused, foreign>>
pass     == <<pc, moment, seen, todo, held, room, cur, verdict>>
outside  == <<request, restarts>>
vars     == <<ledger, policy, elapsed, upstream, translated, pass, outside>>

-----------------------------------------------------------------------------
Pairs == Groups \X Sources
Pair(i) == <<GroupOf[i], source[i]>>

\* A translate job in Bazarr: the dispatch it comes from, the file it reads.
Job == [intent : Intents, attempt : Nat, source : Sources]
JobPair(j) == <<GroupOf[j.intent], j.source>>

FailureKind == {"provider", "environmental"}
Record == [pair : Pairs, status : FailureKind \cup {"active"}]

RowStates == IntentState \cup {Absent}
InFlight == {i \in Intents : state[i] \in InFlightStates}
Rows(S) == {i \in Intents : state[i] \in S}

\* headroom_window(k, concurrent_jobs)
Window == IF WindowK < Slots THEN WindowK
          ELSE IF Slots > 1 THEN Slots - 1 ELSE 1

\* What a read of Lingarr's request list returns: running requests, ours or
\* not, and the failed ones, which stay listed.
ActiveRecords ==
  [pair : {JobPair(j) : j \in working} \cup foreign, status : {"active"}]

Outcomes == {"none", "converged", "superseded", "environmental",
             "retry_provider", "retry_transient",
             "quarantine_provider", "quarantine_poison"}

\* Mutants of Classify: the ceiling off by one; the lease not consulted; the
\* lease consulted for translations that did arrive; no lease at all.
ClassifyOneMore(present, inWindow, f, leaseExpired, tries) ==
  IF present THEN IF inWindow THEN "converged" ELSE "superseded"
  ELSE IF ~ leaseExpired THEN "none"
  ELSE IF tries > MaxAttempts THEN "quarantine_poison" ELSE "retry_transient"

ClassifyImpatient(present, inWindow, f, leaseExpired, tries) ==
  IF present THEN IF inWindow THEN "converged" ELSE "superseded"
  ELSE IF tries >= MaxAttempts THEN "quarantine_poison" ELSE "retry_transient"

ClassifyLate(present, inWindow, f, leaseExpired, tries) ==
  IF present THEN IF inWindow /\ ~ leaseExpired THEN "converged" ELSE "superseded"
  ELSE IF ~ leaseExpired THEN "none"
  ELSE IF tries >= MaxAttempts THEN "quarantine_poison" ELSE "retry_transient"

ClassifyPatient(present, inWindow, f, leaseExpired, tries) ==
  IF present THEN IF inWindow THEN "converged" ELSE "superseded" ELSE "none"

\* classify_dispatched: f is the matched failure record, or "none".
Classify(present, inWindow, f, leaseExpired, tries) ==
  IF present THEN IF inWindow THEN "converged" ELSE "superseded"
  ELSE IF f = "environmental" THEN "environmental"
  ELSE IF f = "provider"
       THEN IF tries >= MaxAttempts THEN "quarantine_provider"
                                    ELSE "retry_provider"
  ELSE IF leaseExpired
       THEN IF tries >= MaxAttempts THEN "quarantine_poison"
                                    ELSE "retry_transient"
  ELSE "none"

\* The class a failing outcome writes on its FAILED event.
FailureClass(outcome) ==
  CASE outcome \in {"retry_provider", "quarantine_provider"} -> "provider"
    [] outcome = "environmental"     -> "environmental"
    [] outcome = "retry_transient"   -> "transient"
    [] outcome = "quarantine_poison" -> "poison"
    [] OTHER                         -> "none"

FailureClasses == {"none", "provider", "environmental", "transient", "poison"}

-----------------------------------------------------------------------------
(* Effects shared by the passes.                                           *)

\* IntentsService.transition: the state, its event (whose failure class is
\* kept while the row is failed), and a new updated_at.
Moves(i, to, class) ==
  /\ state' = [state EXCEPT ![i] = to]
  /\ failure' = [failure EXCEPT ![i] = class]
  /\ elapsed' = [elapsed EXCEPT ![i] = FALSE]
  /\ translated' = [translated EXCEPT ![i] = FALSE]
  /\ moment' = moment \ {i}

\* Mutant of Ends: the pass leaves its current row behind.
EndsHoldingRow ==
  /\ pc' = "idle" /\ moment' = {} /\ seen' = {} /\ todo' = {} /\ held' = {}
  /\ room' = 0 /\ cur' = cur /\ verdict' = "none"

\* The pass returns and releases the instance lock.
Ends ==
  /\ pc' = "idle" /\ moment' = {} /\ seen' = {} /\ todo' = {} /\ held' = {}
  /\ room' = 0 /\ cur' = NoIntent /\ verdict' = "none"

NoRowChanges == UNCHANGED <<ledger, elapsed, translated>>

-----------------------------------------------------------------------------
(* Discovery: run_for_instance.                                            *)

BeginDiscovery ==
  /\ pc = "idle"
  /\ pc' = "discover"
  /\ todo' = {i \in wanted : GroupOf[i] \notin excluded}
  /\ NoRowChanges
  /\ UNCHANGED <<policy, upstream, moment, seen, held, room, cur, verdict, outside>>

\* _evaluate_batch: planned wants become eligible rows; rows that are not
\* terminal take a new election; the others may get a new score.  Each row
\* that is written gets a new updated_at.
CommitBatch ==
  /\ pc = "discover"
  /\ \E planned \in SUBSET todo, elected \in [Intents -> Sources],
        rescored \in SUBSET Intents :
       LET new     == {i \in planned : state[i] = Absent}
           open    == {i \in planned : state[i] \notin TerminalStates \cup {Absent}}
           changed == {i \in open : elected[i] # source[i]}
           touched == changed \cup new \cup (rescored \cap open)
       IN /\ rescored # {} => "rescore" \in Faults
          /\ state' = [i \in Intents |-> IF i \in new THEN "eligible" ELSE state[i]]
          /\ source' = [i \in Intents |->
                          IF i \in new \cup changed THEN elected[i] ELSE source[i]]
          /\ translated' = [i \in Intents |-> translated[i] /\ i \notin touched]
          /\ elapsed' = [i \in Intents |->
                           elapsed[i] /\ (i \in touched => state[i] = "dispatched")]
  /\ pc' = "withdraw_load"
  /\ todo' = {}
  /\ UNCHANGED <<attempts, failure, granted, policy, upstream,
                 moment, seen, held, room, cur, verdict, outside>>

\* Mutant of Withdrawable: a quarantined row is taken for backlog.
WithdrawableQuarantine ==
  {"discovered", "eligible", "retry_eligible", "failed", "quarantined"}

\* _WITHDRAWABLE_STATES
Withdrawable == {"discovered", "eligible", "retry_eligible", "failed"}

\* _withdraw_vanished: rows and mirror are read for the whole batch, then
\* each withdrawal commits on its own.
LoadWithdrawable ==
  /\ pc = "withdraw_load"
  /\ pc' = "withdraw"
  /\ todo' = Rows(Withdrawable) \ wanted
  /\ NoRowChanges
  /\ UNCHANGED <<policy, upstream, moment, seen, held, room, cur, verdict, outside>>

Withdraw(i) ==
  /\ pc = "withdraw" /\ i \in todo
  /\ Moves(i, "superseded", "none")
  /\ todo' = todo \ {i}
  /\ UNCHANGED <<source, attempts, granted, policy, upstream,
                 pc, seen, held, room, cur, verdict, outside>>

-----------------------------------------------------------------------------
(* Reconciliation: run_for_instance, _reconcile_batch.                     *)

BeginReconcile ==
  /\ pc = "idle"
  /\ pc' = "metadata"
  /\ todo' = Rows(BacklogStates)
  /\ NoRowChanges
  /\ UNCHANGED <<policy, upstream, moment, seen, held, room, cur, verdict, outside>>

ReadMetadata ==
  /\ pc = "metadata"
  /\ pc' = "reconcile"
  /\ todo' = {i \in todo : target[i]}
  /\ NoRowChanges
  /\ UNCHANGED <<policy, upstream, moment, seen, held, room, cur, verdict, outside>>

Reconcile(i) ==
  /\ pc = "reconcile" /\ i \in todo
  /\ Moves(i, "superseded", "none")
  /\ todo' = todo \ {i}
  /\ UNCHANGED <<source, attempts, granted, policy, upstream,
                 pc, seen, held, room, cur, verdict, outside>>

-----------------------------------------------------------------------------
(* Dispatch: run_for_instance, _guard, _dispatch.                          *)

\* Mutant of Available: one dispatch too many.
AvailableOneMore == Window - Cardinality(InFlight) + 1

\* What the window leaves: available in run_for_instance.
Available == Window - Cardinality(InFlight)

\* Mutant of PairKeys: only this pass's own dispatches are held.
PairKeysForgotten == {p \in Pairs : FALSE}

\* The pairs that rows in flight hold: pair_keys in run_for_instance.
PairKeys == {Pair(i) : i \in InFlight}

\* The window and backpressure gates; a held pass changes nothing.
BeginDispatch ==
  /\ pc = "idle"
  /\ Cardinality(InFlight) < Window
  /\ Cardinality(queue) < Backpressure
  /\ room' = Available
  /\ pc' = "lingarr"
  /\ NoRowChanges
  /\ UNCHANGED <<policy, upstream, moment, seen, todo, held, cur, verdict, outside>>

ReadLingarr ==
  /\ pc = "lingarr"
  /\ seen' = ActiveRecords
  /\ pc' = "load"
  /\ NoRowChanges
  /\ UNCHANGED <<policy, upstream, moment, todo, held, room, cur, verdict, outside>>

LoadCandidates ==
  /\ pc = "load"
  /\ held' = PairKeys
  /\ todo' = Rows({"eligible"})
  /\ pc' = "dispatch"
  /\ NoRowChanges
  /\ UNCHANGED <<policy, upstream, moment, seen, room, cur, verdict, outside>>

\* A candidate is held for its pair, or skipped by the pre-dispatch guard (an
\* active Lingarr request, or no source file in the fresh read).
SkipCandidate(i) ==
  /\ pc = "dispatch" /\ i \in todo /\ room > 0
  /\ Pair(i) \in held \/ ~ target[i]
  /\ todo' = todo \ {i}
  /\ NoRowChanges
  /\ UNCHANGED <<policy, upstream, pc, moment, seen, held, room, cur, verdict, outside>>

GuardSupersedes(i) ==
  /\ pc = "dispatch" /\ i \in todo /\ room > 0
  /\ Pair(i) \notin held
  /\ target[i]
  /\ Moves(i, "superseded", "none")
  /\ todo' = todo \ {i}
  /\ UNCHANGED <<source, attempts, granted, policy, upstream,
                 pc, seen, held, room, cur, verdict, outside>>

\* The guard passes and the dispatched event commits, with a new lease.
RecordDispatched(i) ==
  /\ pc = "dispatch" /\ i \in todo /\ room > 0
  /\ Pair(i) \notin held
  /\ ~ target[i]
  /\ \A r \in seen : r.pair # Pair(i)
  /\ Moves(i, "dispatched", "none")
  /\ attempts' = [attempts EXCEPT ![i] = @ + 1]
  /\ held' = held \cup {Pair(i)}
  /\ todo' = todo \ {i}
  /\ cur' = i
  /\ pc' = "patch"
  /\ UNCHANGED <<source, granted, policy, upstream, seen, room, verdict, outside>>

\* The job the PATCH for the current row asks Bazarr to queue.
CurrentJob == [intent |-> cur, attempt |-> attempts[cur], source |-> source[cur]]

\* Mutant of PatchAccepted: the client repeats a PATCH that was accepted.
PatchRepeated ==
  /\ pc = "patch"
  /\ queue' = queue \cup {CurrentJob}
  /\ NoRowChanges
  /\ UNCHANGED <<policy, target, working, finished, refused, foreign, pass, outside>>

PatchAccepted ==
  /\ pc = "patch"
  /\ queue' = queue \cup {CurrentJob}
  /\ room' = room - 1
  /\ cur' = NoIntent
  /\ pc' = "dispatch"
  /\ NoRowChanges
  /\ UNCHANGED <<policy, target, working, finished, refused, foreign,
                 moment, seen, todo, held, verdict, outside>>

\* The PATCH raises: the row is failed as transient and the pass backs off.
\* Bazarr may have queued the job all the same.
PatchFails ==
  /\ pc = "patch"
  /\ \/ "reject" \in Faults /\ queue' = queue
     \/ "lost_reply" \in Faults /\ queue' = queue \cup {CurrentJob}
  /\ state' = [state EXCEPT ![cur] = "failed"]
  /\ failure' = [failure EXCEPT ![cur] = "transient"]
  /\ elapsed' = [elapsed EXCEPT ![cur] = FALSE]
  /\ translated' = [translated EXCEPT ![cur] = FALSE]
  /\ Ends
  /\ UNCHANGED <<source, attempts, granted, policy,
                 target, working, finished, refused, foreign, outside>>

-----------------------------------------------------------------------------
(* Verification: run_for_instance, _verify_one, _promote_retries.          *)

\* The pass's moment decides which timers have run out; an unreachable Lingarr
\* reads as no records.
BeginVerify ==
  /\ pc = "idle"
  /\ moment' = {i \in Intents : elapsed[i]}
  /\ \/ seen' = refused
     \/ "abort" \in Faults /\ seen' = {}
  /\ pc' = "in_flight"
  /\ NoRowChanges
  /\ UNCHANGED <<policy, upstream, todo, held, room, cur, verdict, outside>>

LoadInFlight ==
  /\ pc = "in_flight"
  /\ todo' = InFlight
  /\ pc' = "verify"
  /\ NoRowChanges
  /\ UNCHANGED <<policy, upstream, moment, seen, held, room, cur, verdict, outside>>

\* Fresh Bazarr evidence for one row, and the first matching failure record.
Observe(i) ==
  /\ pc = "verify" /\ i \in todo
  /\ LET matched == {r.status : r \in {s \in seen : s.pair = Pair(i)}}
     IN \E f \in IF matched = {} THEN {"none"} ELSE matched :
          verdict' = Classify(target[i], translated[i], f, i \in moment, attempts[i])
  /\ IF verdict' = "none" THEN cur' = NoIntent /\ pc' = "verify"
                          ELSE cur' = i /\ pc' = "settle"
  /\ todo' = todo \ {i}
  /\ NoRowChanges
  /\ UNCHANGED <<policy, upstream, moment, seen, held, room, outside>>

\* The first commit of an outcome: _converge, _supersede or _fail.
Settle ==
  /\ pc = "settle"
  /\ LET to == IF verdict \in {"converged", "superseded"} THEN verdict ELSE "failed"
     IN Moves(cur, to, FailureClass(verdict))
  /\ IF verdict \in {"converged", "superseded", "environmental"}
     THEN pc' = "verify" /\ cur' = NoIntent /\ verdict' = "none"
     ELSE pc' = "reroute" /\ UNCHANGED <<cur, verdict>>
  /\ UNCHANGED <<source, attempts, granted, policy, upstream, seen, todo, held, room, outside>>

\* The second commit of a failing outcome.
Reroute ==
  /\ pc = "reroute"
  /\ LET to == IF verdict \in {"retry_provider", "retry_transient"}
               THEN "retry_eligible" ELSE "quarantined"
     IN Moves(cur, to, "none")
  /\ pc' = "verify" /\ cur' = NoIntent /\ verdict' = "none"
  /\ UNCHANGED <<source, attempts, granted, policy, upstream, seen, todo, held, room, outside>>

\* Mutant of RetriesDue: failed rows are read in place of retry-eligible ones.
RetriesDueFailed == Rows({"failed"}) \cap moment

\* The rows _promote_retries moves: their backoff had run out at the moment.
RetriesDue == Rows({"retry_eligible"}) \cap moment

LoadRetries ==
  /\ pc = "verify" /\ todo = {}
  /\ todo' = RetriesDue
  /\ pc' = "promote"
  /\ NoRowChanges
  /\ UNCHANGED <<policy, upstream, moment, seen, held, room, cur, verdict, outside>>

Promote(i) ==
  /\ pc = "promote" /\ i \in todo
  /\ Moves(i, "eligible", "none")
  /\ todo' = todo \ {i}
  /\ UNCHANGED <<source, attempts, granted, policy, upstream,
                 pc, seen, held, room, cur, verdict, outside>>

-----------------------------------------------------------------------------
\* A pass returns when it has no row left; a dispatch pass also when it ran
\* out of room or a rail blocks, and any pass whose upstream read fails.
EndPass ==
  /\ \/ pc \in {"withdraw", "reconcile", "promote"} /\ todo = {}
     \/ pc = "dispatch"
     \/ "abort" \in Faults /\ pc \in {"metadata", "lingarr", "load", "verify", "reconcile"}
  /\ Ends
  /\ NoRowChanges
  /\ UNCHANGED <<policy, upstream, outside>>

-----------------------------------------------------------------------------
(* Operators: QuarantineService.retry, release and exclude, which read the *)
(* row, validate what they read and commit later, without the lock.        *)

ManualTarget(action) == IF action = "retry" THEN "eligible" ELSE "superseded"

Request == [action : Actions, intent : Intents, legal : BOOLEAN, excludes : BOOLEAN]

\* Retries recorded for a row, with those about to be.
Granting(i) ==
  granted[i] + Cardinality({h \in Operators :
                              /\ request[h] # Idle
                              /\ request[h].intent = i
                              /\ request[h].action = "retry"})

OperatorReads(h, i, action) ==
  LET legal == CanManualTransition(state[i], ManualTarget(action))
  IN /\ request[h] = Idle
     /\ state[i] # Absent
     /\ action = "retry" => Granting(i) < MaxRetries
     /\ legal \/ action = "exclude"
     /\ request' = [request EXCEPT ![h] = [action |-> action, intent |-> i,
                      legal |-> legal, excludes |-> action = "exclude"]]
     /\ NoRowChanges
     /\ UNCHANGED <<policy, upstream, pass, restarts>>

\* exclude: the rule commits before the row is touched, legal or not.
OperatorExcludes(h) ==
  /\ request[h] # Idle
  /\ request[h].excludes
  /\ excluded' = excluded \cup {GroupOf[request[h].intent]}
  /\ request' = [request EXCEPT ![h].excludes = FALSE]
  /\ NoRowChanges
  /\ UNCHANGED <<wanted, upstream, pass, restarts>>

OperatorCommits(h) ==
  /\ request[h] # Idle
  /\ ~ request[h].excludes
  /\ LET i == request[h].intent
     IN IF request[h].legal
        THEN /\ Moves(i, ManualTarget(request[h].action), "none")
             /\ granted' = [granted EXCEPT ![i] =
                              @ + IF request[h].action = "retry" THEN 1 ELSE 0]
        ELSE UNCHANGED <<state, failure, elapsed, translated, moment, granted>>
  /\ request' = [request EXCEPT ![h] = Idle]
  /\ UNCHANGED <<source, attempts, policy, upstream,
                 pc, seen, todo, held, room, cur, verdict, restarts>>

-----------------------------------------------------------------------------
(* Bazarr's worker and Lingarr, as the repository's simulators play them.  *)

\* The worker posts a queued job's lines to Lingarr; a request already active
\* on the same title and languages makes Lingarr answer with an empty array,
\* which Bazarr saves as the translation.
StartJob(j) ==
  /\ j \in queue
  /\ Cardinality(working) < Slots
  /\ queue' = queue \ {j}
  /\ IF \E r \in ActiveRecords : r.pair = JobPair(j)
     THEN /\ finished' = finished \cup {[job |-> j, result |-> "empty"]}
          /\ target' = [target EXCEPT ![j.intent] = TRUE]
          /\ translated' = [translated EXCEPT ![j.intent] = TRUE]
          /\ UNCHANGED working
     ELSE /\ working' = working \cup {j}
          /\ UNCHANGED <<finished, target, translated>>
  /\ UNCHANGED <<ledger, policy, elapsed, refused, foreign, pass, outside>>

SaveTranslation(j) ==
  /\ j \in working
  /\ working' = working \ {j}
  /\ finished' = finished \cup {[job |-> j, result |-> "saved"]}
  /\ target' = [target EXCEPT ![j.intent] = TRUE]
  /\ translated' = [translated EXCEPT ![j.intent] = TRUE]
  /\ UNCHANGED <<ledger, policy, elapsed, queue, refused, foreign, pass, outside>>

FailTranslation(j) ==
  /\ j \in working
  /\ working' = working \ {j}
  /\ \E kind \in FailureKind \cap Faults :
       /\ finished' = finished \cup {[job |-> j, result |-> kind]}
       /\ refused' = refused \cup {[pair |-> JobPair(j), status |-> kind]}
  /\ UNCHANGED <<ledger, policy, elapsed, translated, target, queue, foreign, pass, outside>>

\* Bazarr's queue is in memory only.
LoseJob(j) ==
  /\ "lost_job" \in Faults
  /\ j \in queue \cup working
  /\ queue' = queue \ {j}
  /\ working' = working \ {j}
  /\ UNCHANGED <<ledger, policy, elapsed, translated, target, finished, refused, foreign, pass, outside>>

AppearsByOtherMeans(i) ==
  /\ "other_means" \in Faults
  /\ ~ target[i]
  /\ target' = [target EXCEPT ![i] = TRUE]
  /\ UNCHANGED <<ledger, policy, elapsed, translated, queue, working, finished, refused, foreign, pass, outside>>

ForeignRequest(p) ==
  /\ "foreign" \in Faults
  /\ foreign' = IF p \in foreign THEN foreign \ {p} ELSE foreign \cup {p}
  /\ \A j \in working : JobPair(j) # p
  /\ UNCHANGED <<ledger, policy, elapsed, translated, target, queue, working, finished, refused, pass, outside>>

-----------------------------------------------------------------------------
Outstanding(i) == {j \in queue \cup working : j.intent = i}

\* A lease or a backoff runs out; while a PATCH is being sent or a job of the
\* row is outstanding, only if jobs may outlive the lease.
TimerRuns(i) ==
  /\ state[i] \in {"dispatched", "retry_eligible"}
  /\ ~ elapsed[i]
  /\ (pc = "patch" /\ cur = i) \/ (state[i] = "dispatched" /\ Outstanding(i) # {})
       => "slow_job" \in Faults
  /\ elapsed' = [elapsed EXCEPT ![i] = TRUE]
  /\ UNCHANGED <<ledger, policy, translated, upstream, pass, outside>>

\* A wanted sync no longer lists the want.
WantDisappears(i) ==
  /\ i \in wanted
  /\ target[i] \/ "withdraw" \in Faults
  /\ wanted' = wanted \ {i}
  /\ NoRowChanges
  /\ UNCHANGED <<excluded, upstream, pass, outside>>

Restart ==
  /\ restarts < MaxRestarts
  /\ restarts' = restarts + 1
  /\ Ends
  /\ request' = [h \in Operators |-> Idle]
  /\ NoRowChanges
  /\ UNCHANGED <<policy, upstream>>

-----------------------------------------------------------------------------
Init ==
  /\ state = [i \in Intents |-> Absent]
  /\ source \in [Intents -> Sources]
  /\ attempts = [i \in Intents |-> 0]
  /\ failure = [i \in Intents |-> "none"]
  /\ granted = [i \in Intents |-> 0]
  /\ excluded = {}
  /\ wanted = Intents
  /\ elapsed = [i \in Intents |-> FALSE]
  /\ target = [i \in Intents |-> FALSE]
  /\ translated = [i \in Intents |-> FALSE]
  /\ queue = {} /\ working = {} /\ finished = {} /\ refused = {} /\ foreign = {}
  /\ pc = "idle" /\ moment = {} /\ seen = {} /\ todo = {} /\ held = {}
  /\ room = 0 /\ cur = NoIntent /\ verdict = "none"
  /\ request = [h \in Operators |-> Idle]
  /\ restarts = 0

Discovery == BeginDiscovery \/ CommitBatch \/ LoadWithdrawable
             \/ \E i \in Intents : Withdraw(i)

Reconciliation == BeginReconcile \/ ReadMetadata \/ \E i \in Intents : Reconcile(i)

Dispatch == \/ BeginDispatch \/ ReadLingarr \/ LoadCandidates
            \/ \E i \in Intents : \/ SkipCandidate(i)
                                  \/ GuardSupersedes(i)
                                  \/ RecordDispatched(i)
            \/ PatchAccepted \/ PatchFails

Verification == \/ BeginVerify \/ LoadInFlight
                \/ \E i \in Intents : Observe(i)
                \/ Settle \/ Reroute \/ LoadRetries
                \/ \E i \in Intents : Promote(i)

OperatorSteps == \E h \in Operators :
                   \/ \E i \in Intents, a \in Actions : OperatorReads(h, i, a)
                   \/ OperatorExcludes(h)
                   \/ OperatorCommits(h)

Upstream == \/ \E j \in queue \cup working :
                 StartJob(j) \/ SaveTranslation(j) \/ FailTranslation(j) \/ LoseJob(j)
            \/ \E i \in Intents : AppearsByOtherMeans(i)
            \/ \E p \in Pairs : ForeignRequest(p)

Environment == \/ \E i \in Intents : TimerRuns(i) \/ WantDisappears(i)
               \/ Restart

Next == \/ Discovery \/ Reconciliation \/ Dispatch \/ Verification \/ EndPass
        \/ OperatorSteps \/ Upstream \/ Environment

Spec == Init /\ [][Next]_vars

-----------------------------------------------------------------------------
(* Fairness.  A pass that holds the lock runs to its end.  asyncio.Lock is *)
(* first come first served and verify_loop never stops asking for it, so   *)
(* verification gets its turns; discovery, reconciliation and dispatch are *)
(* not assumed to.  Timers run out and Bazarr works its queue off.         *)
(***************************************************************************)
PassStep == \/ CommitBatch \/ LoadWithdrawable \/ ReadMetadata
            \/ ReadLingarr \/ LoadCandidates \/ PatchAccepted \/ PatchFails
            \/ LoadInFlight \/ Settle \/ Reroute \/ LoadRetries \/ EndPass
            \/ \E i \in Intents :
                 \/ Withdraw(i) \/ Reconcile(i)
                 \/ SkipCandidate(i) \/ GuardSupersedes(i) \/ RecordDispatched(i)
                 \/ Observe(i) \/ Promote(i)

WorkerStep == \E j \in queue \cup working :
                StartJob(j) \/ SaveTranslation(j) \/ FailTranslation(j)

Fairness == /\ WF_vars(PassStep)
            /\ SF_vars(BeginVerify)
            /\ WF_vars(WorkerStep)
            /\ \A i \in Intents : WF_vars(TimerRuns(i))

FairSpec == Spec /\ Fairness

-----------------------------------------------------------------------------
(* Properties.                                                             *)

PassPoints == {"idle", "discover", "withdraw_load", "withdraw", "metadata",
               "reconcile", "lingarr", "load", "dispatch", "patch",
               "in_flight", "verify", "settle", "reroute", "promote"}

\* Every variable keeps its type, and a row is being written exactly where
\* the pass has picked one.
TypeOK ==
  /\ state \in [Intents -> RowStates]
  /\ source \in [Intents -> Sources]
  /\ attempts \in [Intents -> Nat]
  /\ failure \in [Intents -> FailureClasses]
  /\ granted \in [Intents -> Nat]
  /\ excluded \subseteq Groups /\ wanted \subseteq Intents
  /\ elapsed \in [Intents -> BOOLEAN]
  /\ target \in [Intents -> BOOLEAN] /\ translated \in [Intents -> BOOLEAN]
  /\ queue \subseteq Job /\ working \subseteq Job
  /\ finished \subseteq [job : Job, result : {"saved", "empty"} \cup FailureKind]
  /\ refused \subseteq Record /\ foreign \subseteq Pairs
  /\ pc \in PassPoints
  /\ moment \subseteq Intents /\ todo \subseteq Intents
  /\ seen \subseteq Record /\ held \subseteq Pairs
  /\ room \in Nat
  /\ verdict \in Outcomes
  /\ IF pc \in {"patch", "settle", "reroute"} THEN cur \in Intents
                                             ELSE cur = NoIntent
  /\ request \in [Operators -> Request \cup {Idle}]
  /\ restarts \in Nat

\* Section 6.5: at most one dispatch per (title, source, target) is in flight
\* (in_flight_rows, pair_keys in run_for_instance).
PairExclusive ==
  \A i, j \in InFlight : i # j => Pair(i) # Pair(j)

\* Section 7.2: a pass never puts more rows in flight than the window it
\* computed leaves (available, summary.dispatched), whatever happens to the
\* rows while it awaits.
WindowRespected == Cardinality(InFlight) <= Window

\* Automation dispatches an intent at most MaxAttempts times, plus once for
\* each manual retry, and a row that waits for a dispatch has one left
\* (classify_dispatched, count_dispatches, manual_transition).
AttemptCeiling ==
  \A i \in Intents :
    /\ attempts[i] <= MaxAttempts + granted[i]
    /\ state[i] \in BacklogStates => attempts[i] < MaxAttempts + granted[i]

\* "Record dispatched with a lease first (crash-safe: no double-dispatch
\* window)": a job enters Bazarr's queue only for the newest attempt on
\* record, and no two jobs ever stem from one attempt.
OneJobPerAttempt ==
  [][\A j \in queue' \ queue :
       /\ j.attempt = attempts[j.intent]
       /\ \A k \in queue \cup working \cup {f.job : f \in finished} :
            k.intent = j.intent => k.attempt < j.attempt]_vars

\* Section 6.4: Perevoditarr's own traffic never makes Lingarr answer a
\* request with the empty array that Bazarr would save as a translation.
NeverCorrupts == \A f \in finished : f.result # "empty"

\* Each want is translated at most once: a retry never repeats work that a
\* late job has done already.
NoRepeatedWork ==
  \A f, g \in finished :
    f.result = "saved" /\ g.result = "saved" /\ f.job.intent = g.job.intent => f = g

\* A row converges only on a translation that a job of its own saved, and
\* without ever having lost its slot to another job.
ConvergedIsOurs ==
  \A i \in Rows({"converged"}) :
    \E f \in finished :
      f.job.intent = i /\ f.job.attempt = attempts[i] /\ f.result = "saved"

\* What we translate is translated once and booked as ours.
OurWorkIsDoneOnce == NoRepeatedWork /\ ConvergedIsOurs

\* "an action-6 after it is our work": verification never books a row as
\* superseded by other means when the attempt in flight saved its
\* translation.
OwnWorkCounts ==
  [][\A i \in Intents :
       state[i] = "dispatched" /\ state'[i] = "superseded" =>
         ~ \E f \in finished :
             f.job.intent = i /\ f.job.attempt = attempts[i] /\ f.result = "saved"]_vars

\* "The transition table is the single normative definition of legal
\* movement": every move of a row is an edge of the table, or an operator's
\* move along an edge of the operators' table.
NormativeTransitions ==
  [][\A i \in Intents :
       state[i] \in IntentState /\ state'[i] # state[i] =>
         \/ CanTransition(state[i], state'[i])
         \/ request' # request /\ CanManualTransition(state[i], state'[i])]_vars

\* Every dispatch is resolved: a row does not stay in flight for ever,
\* whatever became of its job.
InFlightResolves ==
  \A i \in Intents : state[i] = "dispatched" ~> state[i] # "dispatched"

\* Every retry that is scheduled comes back into the backlog or is closed.
RetriesComeBack ==
  \A i \in Intents : state[i] = "retry_eligible" ~> state[i] # "retry_eligible"

\* "A PATCH failure re-classes the intent as a transient failure for the
\* retry pipeline": a row that failed for a transient reason leaves FAILED.
TransientFailureRetries ==
  \A i \in Intents :
    state[i] = "failed" /\ failure[i] = "transient" ~> state[i] # "failed"

\* The ledger's promises, with the passes and their timing hidden.
Lifecycle == INSTANCE IntentLifecycle WITH state <- state, source <- source,
                                           attempts <- attempts, granted <- granted
LifecycleSpec == Lifecycle!Spec
=============================================================================
