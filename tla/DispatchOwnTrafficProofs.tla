----------------------- MODULE DispatchOwnTrafficProofs -----------------------
(***************************************************************************)
(* The corruption trap: as long as jobs end within their lease and nobody  *)
(* but the passes puts a pair to work, Perevoditarr's own requests never   *)
(* meet each other in Lingarr, no work is done twice, and what is done is  *)
(* booked as ours.                                                         *)
(***************************************************************************)
EXTENDS DispatchCycleProofs

\* What is assumed of the world around the passes: no job outlives its lease,
\* Bazarr refuses a PATCH or queues it, no request fails in Lingarr, no subtitle
\* and no request comes from elsewhere; reads may fail, jobs may be lost, wants
\* may vanish and scores may change.  Operators release and exclude.
TamedFaults == {"abort", "reject", "lost_job", "withdraw", "rescore"}

LeaseAssumption == OneSource /\ NoRetries /\ Faults \subseteq TamedFaults

-----------------------------------------------------------------------------
(* The invariant.                                                          *)

Live == queue \cup working

\* A job that has not ended belongs to the attempt in flight of its row, and
\* the subtitle is not there yet; it is queued or being worked on, not both.
LiveJobsInFlight ==
  /\ \A j \in Live : /\ state[j.intent] = "dispatched"
                     /\ j.attempt = attempts[j.intent]
                     /\ ~ target[j.intent]
  /\ queue \cap working = {}

\* Lingarr lists no failure and no request of others, nor has a pass read one.
LingarrIsOurs ==
  /\ refused = {} /\ foreign = {}
  /\ pc \in {"in_flight", "verify", "settle", "reroute", "promote"} => seen = {}

\* A subtitle is there if and only if a job of the newest attempt of its row has
\* saved it, the only job of the row that ever came to an end.
SavedByUs ==
  /\ \A f \in finished : f.result = "saved" /\ target[f.job.intent]
  /\ \A i \in Intents : target[i] =>
       \E f \in finished : f.job.intent = i /\ f.job.attempt = attempts[i]
  /\ \A f, g \in finished : f.job.intent = g.job.intent => f = g

\* While a PATCH is being sent, no job of its row is under way and the subtitle
\* is not there.
PatchIsFirst ==
  pc = "patch" => /\ ~ target[cur]
                  /\ \A j \in Live : j.intent # cur

\* A lease runs out only when no job can come of the attempt any more; a pass
\* has no other rows in its moment than those whose timer has run out, and only
\* a verification pass has any.
LeasesCover ==
  /\ \A i \in Intents : state[i] = "dispatched" /\ elapsed[i] =>
       /\ \A j \in Live : j.intent # i
       /\ pc = "patch" => cur # i
  /\ \A i \in moment : elapsed[i]
  /\ pc \in {"idle", "discover"} => moment = {}

\* A verdict is passed on a row whose job has ended: on one that is translated
\* if it is there, on one that is lost otherwise.
VerdictsAreFinal ==
  /\ pc = "settle" => /\ verdict # "environmental"
                      /\ verdict \in {"converged", "superseded"} => target[cur]
                      /\ \A j \in Live : j.intent # cur
  /\ \A i \in Intents : state[i] = "converged" => target[i]

\* Where no row is rewritten in flight, a translation that arrived is newer than
\* its row.
ArrivalsAreNew ==
  "rescore" \notin Faults =>
    /\ \A i \in Intents : state[i] = "dispatched" /\ target[i] => translated[i]
    /\ pc = "settle" => verdict # "superseded"

OwnTrafficInv ==
  /\ LiveJobsInFlight /\ LingarrIsOurs /\ SavedByUs /\ PatchIsFirst
  /\ LeasesCover /\ VerdictsAreFinal /\ ArrivalsAreNew

\* Every conjunct holds of the empty ledger.
LEMMA OwnTrafficInvInit == Init => OwnTrafficInv
BY DEF Init, OwnTrafficInv, LiveJobsInFlight, LingarrIsOurs, SavedByUs, PatchIsFirst,
       LeasesCover, VerdictsAreFinal, ArrivalsAreNew, Live, Absent

-----------------------------------------------------------------------------
(* The steps that have an argument, one lemma each.                        *)

StepInv == TypeInv /\ PairInv /\ RowsInv /\ OwnTrafficInv

\* Within one source language, the rows a discovery pass writes are new ones,
\* for which nothing has been asked yet; others keep their state and their
\* lease.
LEMMA CommitBatchOwn ==
  ASSUME LeaseAssumption, StepInv, CommitBatch PROVE OwnTrafficInv'
<1> USE DEF StepInv, TypeInv, TypeOK
<1>1. PICK planned \in SUBSET todo, elected \in [Intents -> Sources],
           rescored \in SUBSET Intents :
        LET new     == {i \in planned : state[i] = Absent}
            open    == {i \in planned : state[i] \notin TerminalStates \cup {Absent}}
            changed == {i \in open : elected[i] # source[i]}
            touched == changed \cup new \cup (rescored \cap open)
        IN /\ rescored # {} => "rescore" \in Faults
           /\ state' = [i \in Intents |-> IF i \in new THEN "eligible" ELSE state[i]]
           /\ translated' = [i \in Intents |-> translated[i] /\ i \notin touched]
           /\ elapsed' = [i \in Intents |->
                            elapsed[i] /\ (i \in touched => state[i] = "dispatched")]
    BY SMTT(30) DEF CommitBatch
<1>2. \A i \in Intents : elected[i] = source[i]
    BY DEF LeaseAssumption, OneSource
<1>3. UNCHANGED <<attempts, upstream, moment, seen, cur, verdict>>
      /\ pc = "discover" /\ pc' = "withdraw_load"
    BY DEF CommitBatch, upstream
<1>4. \A i \in Intents :
        /\ state'[i] = state[i] \/ (state[i] = Absent /\ state'[i] = "eligible")
        /\ elapsed'[i] => elapsed[i]
        /\ "rescore" \notin Faults /\ state'[i] = "dispatched" =>
             translated'[i] = translated[i]
    BY <1>1, <1>2, Zenon DEF Absent
<1>5. LiveJobsInFlight'
    BY <1>3, <1>4 DEF OwnTrafficInv, LiveJobsInFlight, Live, upstream, Job, Absent
<1>6. SavedByUs' /\ LingarrIsOurs'
    BY <1>3 DEF OwnTrafficInv, SavedByUs, LingarrIsOurs, upstream
<1>7. LeasesCover' /\ PatchIsFirst'
    BY <1>3, <1>4 DEF OwnTrafficInv, LeasesCover, PatchIsFirst, Live, upstream
<1>8. VerdictsAreFinal' /\ ArrivalsAreNew'
    BY <1>3, <1>4 DEF OwnTrafficInv, VerdictsAreFinal, ArrivalsAreNew, upstream
<1>9. QED
    BY <1>5, <1>6, <1>7, <1>8 DEF OwnTrafficInv

\* A row of which no job is under way may move to any state but DISPATCHED, and
\* to CONVERGED if its subtitle is there, by a pass that goes on or ends.
LEMMA MoveOwn ==
  ASSUME TypeOK, OwnTrafficInv, NEW i \in Intents, NEW to,
         to # "dispatched", to = "converged" => target[i],
         \A j \in Live : j.intent # i,
         state' = [state EXCEPT ![i] = to],
         elapsed' = [elapsed EXCEPT ![i] = FALSE],
         translated' = [translated EXCEPT ![i] = FALSE],
         moment' \subseteq moment \ {i},
         UNCHANGED <<attempts, upstream>>,
         seen' \in {seen, {}},
         pc' \in {pc, "verify", "reroute", "idle"},
         pc' = pc \/ pc \in {"settle", "reroute"} \/ pc' = "idle",
         pc' \in {"patch", "settle"} => cur' = cur /\ verdict' = verdict,
         pc' = "idle" => moment' = {} \/ pc = "idle"
  PROVE  OwnTrafficInv'
<1> USE DEF TypeOK
<1>1. \A k \in Intents : k # i =>
        /\ state'[k] = state[k] /\ elapsed'[k] = elapsed[k]
        /\ translated'[k] = translated[k]
    OBVIOUS
<1>2. state'[i] = to
    OBVIOUS
<1>3. UNCHANGED Live
    BY DEF Live, upstream
<1>4. LiveJobsInFlight'
    BY <1>1, <1>3 DEF OwnTrafficInv, LiveJobsInFlight, Live, upstream, Job
<1>5. SavedByUs' /\ LingarrIsOurs'
    BY DEF OwnTrafficInv, SavedByUs, LingarrIsOurs, upstream
<1>6. PatchIsFirst'
    BY <1>3 DEF OwnTrafficInv, PatchIsFirst, upstream
<1>7. LeasesCover'
    <2>1. \A k \in moment' : elapsed'[k]
        BY <1>1 DEF OwnTrafficInv, LeasesCover
    <2>2. pc' \in {"idle", "discover"} => moment' = {}
        BY DEF OwnTrafficInv, LeasesCover
    <2>3. \A k \in Intents : state'[k] = "dispatched" /\ elapsed'[k] =>
            state[k] = "dispatched" /\ elapsed[k]
        BY <1>1, <1>2
    <2>4. QED
        BY <1>3, <2>1, <2>2, <2>3 DEF OwnTrafficInv, LeasesCover
<1>8. VerdictsAreFinal' /\ ArrivalsAreNew'
    BY <1>1, <1>2, <1>3 DEF OwnTrafficInv, VerdictsAreFinal, ArrivalsAreNew, upstream
<1>9. QED
    BY <1>4, <1>5, <1>6, <1>7, <1>8 DEF OwnTrafficInv

\* Withdrawal, reconciliation, the pre-dispatch guard and promotion move rows that
\* are not in flight, so that no job of theirs is under way.
LEMMA BacklogMoveOwn ==
  ASSUME LeaseAssumption, StepInv, NEW i \in Intents,
         Withdraw(i) \/ Reconcile(i) \/ GuardSupersedes(i) \/ Promote(i)
  PROVE  OwnTrafficInv'
<1>1. state[i] # "dispatched"
    BY DEF StepInv, RowsInv, ListIsCurrent, Rows, Withdrawable, BacklogStates,
           Withdraw, Reconcile, GuardSupersedes, Promote
<1>2. \A j \in Live : j.intent # i
    BY <1>1 DEF StepInv, OwnTrafficInv, LiveJobsInFlight
<1>3. PICK to \in {"superseded", "eligible"} : Moves(i, to, "none")
    BY DEF Withdraw, Reconcile, GuardSupersedes, Promote
<1>4. UNCHANGED <<attempts, upstream, seen, pc, cur, verdict>>
      /\ pc \in {"withdraw", "reconcile", "dispatch", "promote"}
    BY DEF Withdraw, Reconcile, GuardSupersedes, Promote
<1>5. QED
    BY <1>2, <1>3, <1>4, MoveOwn DEF StepInv, TypeInv, Moves

\* A dispatch starts from a row that is not in flight and has no subtitle.
LEMMA RecordDispatchedOwn ==
  ASSUME LeaseAssumption, StepInv, NEW i \in Intents, RecordDispatched(i)
  PROVE  OwnTrafficInv'
<1> USE DEF StepInv, TypeInv, TypeOK
<1>1. /\ pc = "dispatch" /\ pc' = "patch" /\ cur' = i /\ ~ target[i]
      /\ UNCHANGED <<upstream, seen, verdict>>
      /\ attempts' = [attempts EXCEPT ![i] = @ + 1]
      /\ state' = [state EXCEPT ![i] = "dispatched"]
      /\ elapsed' = [elapsed EXCEPT ![i] = FALSE]
      /\ translated' = [translated EXCEPT ![i] = FALSE]
      /\ moment' = moment \ {i}
    BY DEF RecordDispatched, Moves
<1>2. state[i] = "eligible"
    BY DEF RecordDispatched, RowsInv, ListIsCurrent, Rows
<1>3. UNCHANGED <<Live, target, finished>>
    BY <1>1 DEF Live, upstream
<1>4. \A j \in Live : j.intent # i
    BY <1>2 DEF OwnTrafficInv, LiveJobsInFlight
<1>5. \A k \in Intents : k # i =>
        /\ state'[k] = state[k] /\ elapsed'[k] = elapsed[k]
        /\ translated'[k] = translated[k] /\ attempts'[k] = attempts[k]
    BY <1>1
<1>6. LiveJobsInFlight'
    BY <1>1, <1>3, <1>4, <1>5 DEF OwnTrafficInv, LiveJobsInFlight, Live, upstream, Job
<1>7. SavedByUs'
    BY <1>1, <1>3, <1>5 DEF OwnTrafficInv, SavedByUs
<1>8. LingarrIsOurs' /\ PatchIsFirst'
    BY <1>1, <1>3, <1>4 DEF OwnTrafficInv, LingarrIsOurs, PatchIsFirst, upstream
<1>9. LeasesCover'
    BY <1>1, <1>3, <1>5 DEF OwnTrafficInv, LeasesCover
<1>10. VerdictsAreFinal' /\ ArrivalsAreNew'
    BY <1>1, <1>3, <1>5 DEF OwnTrafficInv, VerdictsAreFinal, ArrivalsAreNew
<1>11. QED
    BY <1>6, <1>7, <1>8, <1>9, <1>10 DEF OwnTrafficInv

\* An accepted PATCH puts the first job of its attempt under way, within its lease.
LEMMA PatchAcceptedOwn ==
  ASSUME LeaseAssumption, StepInv, PatchAccepted PROVE OwnTrafficInv'
<1> USE DEF StepInv, TypeInv, TypeOK
<1>1. /\ pc = "patch" /\ pc' = "dispatch" /\ cur \in Intents
      /\ queue' = queue \cup {CurrentJob}
      /\ UNCHANGED <<state, attempts, elapsed, translated, target, working,
                     finished, refused, foreign, moment, verdict>>
    BY DEF PatchAccepted, NoRowChanges, ledger
<1>2. /\ state[cur] = "dispatched" /\ ~ target[cur] /\ ~ elapsed[cur]
      /\ \A j \in Live : j.intent # cur
    BY <1>1 DEF RowsInv, RowIsCurrent, OwnTrafficInv, PatchIsFirst, LeasesCover
<1>3. CurrentJob.intent = cur /\ CurrentJob.attempt = attempts[cur]
    BY DEF CurrentJob
<1>4. Live' = Live \cup {CurrentJob} /\ CurrentJob \notin working
    BY <1>1, <1>2, <1>3 DEF Live
<1>5. LiveJobsInFlight'
    BY <1>1, <1>2, <1>3, <1>4 DEF OwnTrafficInv, LiveJobsInFlight
<1>6. SavedByUs' /\ LingarrIsOurs' /\ PatchIsFirst'
    BY <1>1 DEF OwnTrafficInv, SavedByUs, LingarrIsOurs, PatchIsFirst
<1>7. LeasesCover'
    BY <1>1, <1>2, <1>3, <1>4 DEF OwnTrafficInv, LeasesCover
<1>8. VerdictsAreFinal' /\ ArrivalsAreNew'
    BY <1>1 DEF OwnTrafficInv, VerdictsAreFinal, ArrivalsAreNew
<1>9. QED
    BY <1>5, <1>6, <1>7, <1>8 DEF OwnTrafficInv

\* A refused PATCH has put nothing under way.
LEMMA PatchFailsOwn ==
  ASSUME LeaseAssumption, StepInv, PatchFails PROVE OwnTrafficInv'
<1>1. "lost_reply" \notin Faults
    BY DEF LeaseAssumption, TamedFaults
<1>2. /\ pc = "patch" /\ pc' = "idle" /\ moment' = {} /\ seen' = {}
      /\ UNCHANGED <<attempts, upstream>>
      /\ state' = [state EXCEPT ![cur] = "failed"]
      /\ elapsed' = [elapsed EXCEPT ![cur] = FALSE]
      /\ translated' = [translated EXCEPT ![cur] = FALSE]
    BY <1>1 DEF PatchFails, Ends, upstream
<1>3. cur \in Intents /\ \A j \in Live : j.intent # cur
    BY <1>2 DEF StepInv, TypeInv, TypeOK, OwnTrafficInv, PatchIsFirst
<1>4. QED
    BY <1>2, <1>3, MoveOwn DEF StepInv, TypeInv

\* Verification passes a verdict on a row in flight only when its subtitle is
\* there or its lease is over, and no job of it is under way in either case.
LEMMA ObserveOwn ==
  ASSUME LeaseAssumption, StepInv, NEW i \in Intents, Observe(i)
  PROVE  OwnTrafficInv'
<1> USE DEF StepInv, TypeInv, TypeOK
<1>1. /\ pc = "verify" /\ pc' \in {"verify", "settle"}
      /\ pc' = "settle" => cur' = i /\ verdict' # "none"
      /\ UNCHANGED <<state, attempts, elapsed, translated, upstream, moment, seen>>
    BY DEF Observe, NoRowChanges, ledger
<1>2. state[i] = "dispatched"
    BY DEF Observe, RowsInv, ListIsCurrent, Rows
<1>3. seen = {}
    BY <1>1 DEF OwnTrafficInv, LingarrIsOurs
<1>4. verdict' = Classify(target[i], translated[i], "none", i \in moment, attempts[i])
    BY <1>3 DEF Observe
<1>5. /\ verdict' # "environmental"
      /\ verdict' \in {"converged", "superseded"} <=> target[i]
      /\ verdict' = "superseded" => target[i] /\ ~ translated[i]
      /\ verdict' # "none" => target[i] \/ i \in moment
    BY <1>4 DEF Classify
<1>6. verdict' # "none" => \A j \in Live : j.intent # i
    BY <1>2, <1>5 DEF OwnTrafficInv, LiveJobsInFlight, LeasesCover
<1>7. LiveJobsInFlight' /\ SavedByUs' /\ LingarrIsOurs' /\ PatchIsFirst' /\ LeasesCover'
    BY <1>1 DEF OwnTrafficInv, LiveJobsInFlight, SavedByUs, LingarrIsOurs, PatchIsFirst,
                LeasesCover, Live, upstream
<1>8. VerdictsAreFinal'
    BY <1>1, <1>5, <1>6 DEF OwnTrafficInv, VerdictsAreFinal, Live, upstream
<1>9. ArrivalsAreNew'
    BY <1>1, <1>2, <1>5 DEF OwnTrafficInv, ArrivalsAreNew, upstream
<1>10. QED
    BY <1>7, <1>8, <1>9 DEF OwnTrafficInv

\* The commits of a verdict move a row of which no job is under way.
LEMMA VerdictOwn ==
  ASSUME LeaseAssumption, StepInv, Settle \/ Reroute PROVE OwnTrafficInv'
<1> USE DEF StepInv, TypeInv
<1>1. cur \in Intents /\ \A j \in Live : j.intent # cur
    <2>1. cur \in Intents
        BY DEF TypeOK, Settle, Reroute
    <2>2. CASE Settle
        BY <2>1, <2>2 DEF Settle, OwnTrafficInv, VerdictsAreFinal
    <2>3. CASE Reroute
        BY <2>1, <2>3 DEF Reroute, RowsInv, RowIsCurrent, OwnTrafficInv, LiveJobsInFlight
    <2>4. QED
        BY <2>2, <2>3
<1>2. PICK to \in IntentState, class \in FailureClasses :
        /\ Moves(cur, to, class)
        /\ to # "dispatched"
        /\ to = "converged" => target[cur]
    <2>1. CASE Settle
        BY <2>1 DEF Settle, FailureClass, FailureClasses, IntentState, OwnTrafficInv,
           VerdictsAreFinal
    <2>2. CASE Reroute
        BY <2>2 DEF Reroute, FailureClasses, IntentState
    <2>3. QED
        BY <2>1, <2>2
<1>3. /\ UNCHANGED <<attempts, upstream, seen>>
      /\ pc \in {"settle", "reroute"} /\ pc' \in {"verify", "reroute"}
    BY DEF Settle, Reroute
<1>4. QED
    BY <1>1, <1>2, <1>3, MoveOwn DEF Moves

\* Who releases or excludes closes a row that is not in flight.
LEMMA OperatorCommitsOwn ==
  ASSUME LeaseAssumption, StepInv, NEW h \in Operators, OperatorCommits(h)
  PROVE  OwnTrafficInv'
<1> USE DEF StepInv, TypeInv
<1>1. request[h] \in Request /\ request[h] # Idle
    BY DEF OperatorCommits, TypeOK
<1>2. UNCHANGED <<attempts, upstream, pc, seen, cur, verdict>>
    BY DEF OperatorCommits
<1>3. CASE request[h].legal
    <2> DEFINE i == request[h].intent
    <2>1. i \in Intents /\ ManualTarget(request[h].action) = "superseded"
        BY <1>1 DEF Request, LeaseAssumption, NoRetries, ManualTarget
    <2>2. Moves(i, "superseded", "none")
        BY <1>3, <2>1 DEF OperatorCommits
    <2>3. state[i] # "dispatched"
        BY <1>1, <1>3 DEF RowsInv, RequestIsCurrent, Rows, Closed
    <2>4. \A j \in Live : j.intent # i
        BY <2>3 DEF OwnTrafficInv, LiveJobsInFlight
    <2>5. pc' = "idle" => pc = "idle"
        BY <1>2
    <2> HIDE DEF i
    <2>6. QED
        BY <1>2, <2>1, <2>2, <2>4, <2>5, MoveOwn DEF Moves
<1>4. CASE ~ request[h].legal
    <2>1. UNCHANGED <<state, elapsed, translated, moment>>
        BY <1>4 DEF OperatorCommits
    <2>2. QED
        BY <1>2, <2>1 DEF OwnTrafficInv, LiveJobsInFlight, LingarrIsOurs, SavedByUs,
           PatchIsFirst, LeasesCover, VerdictsAreFinal, ArrivalsAreNew, Live, upstream
<1>5. QED
    BY <1>3, <1>4

\* Two jobs under way are of rows in flight, which hold different pairs, so that
\* Lingarr is never asked for a pair it is working on.
LEMMA NoPairIsBusy ==
  ASSUME LeaseAssumption, StepInv, NEW j \in queue
  PROVE  \A r \in ActiveRecords : r.pair # JobPair(j)
<1> USE DEF StepInv, TypeInv, TypeOK
<1>1. SUFFICES ASSUME NEW k \in working, JobPair(k) = JobPair(j) PROVE FALSE
    BY DEF ActiveRecords, OwnTrafficInv, LingarrIsOurs
<1>2. \A l \in {j, k} : /\ l \in Job /\ l \in Live
                        /\ l.intent \in Intents /\ state[l.intent] = "dispatched"
                        /\ l.attempt = attempts[l.intent]
                        /\ l.source = source[l.intent]
    BY DEF OwnTrafficInv, LiveJobsInFlight, Live, Job, LeaseAssumption, OneSource
<1>3. j.intent \in InFlight /\ k.intent \in InFlight
    BY <1>2 DEF InFlight, InFlightStates
<1>4. Pair(j.intent) = Pair(k.intent)
    BY <1>1, <1>2 DEF Pair, JobPair
<1>5. j.intent = k.intent
    BY <1>3, <1>4 DEF PairInv, PairExclusive
<1>6. j = k
    BY <1>2, <1>5 DEF Job
<1>7. QED
    BY <1>1, <1>6 DEF OwnTrafficInv, LiveJobsInFlight

\* So a job that the worker takes up is worked on, and stays under way.
LEMMA StartJobOwn ==
  ASSUME LeaseAssumption, StepInv, NEW j \in queue, StartJob(j)
  PROVE  OwnTrafficInv'
<1>1. /\ queue' = queue \ {j} /\ working' = working \cup {j}
      /\ UNCHANGED <<state, attempts, elapsed, translated, target, finished, refused,
                     foreign, pc, moment, seen, cur, verdict>>
    BY NoPairIsBusy DEF StartJob, ledger, pass
<1>2. UNCHANGED Live /\ queue' \cap working' = {}
    BY <1>1 DEF Live, StepInv, OwnTrafficInv, LiveJobsInFlight
<1>3. QED
    BY <1>1, <1>2 DEF StepInv, OwnTrafficInv, LiveJobsInFlight, LingarrIsOurs, SavedByUs,
       PatchIsFirst, LeasesCover, VerdictsAreFinal, ArrivalsAreNew

\* A translation that is saved is the first of its row.
LEMMA SaveTranslationOwn ==
  ASSUME LeaseAssumption, StepInv, NEW j \in working, SaveTranslation(j)
  PROVE  OwnTrafficInv'
<1> USE DEF StepInv, TypeInv, TypeOK
<1> DEFINE done == [job |-> j, result |-> "saved"]
<1>1. /\ working' = working \ {j} /\ finished' = finished \cup {done}
      /\ target' = [target EXCEPT ![j.intent] = TRUE]
      /\ translated' = [translated EXCEPT ![j.intent] = TRUE]
      /\ UNCHANGED <<state, attempts, elapsed, queue, refused, foreign, pc, moment, seen,
                     cur, verdict>>
    BY DEF SaveTranslation, ledger, pass
<1>2. /\ j \in Live /\ j.intent \in Intents
      /\ state[j.intent] = "dispatched" /\ j.attempt = attempts[j.intent]
      /\ ~ target[j.intent]
    BY DEF OwnTrafficInv, LiveJobsInFlight, Live, Job
<1>3. done.job = j /\ done.result = "saved"
    OBVIOUS
<1> HIDE DEF done
<1>4. \A k \in Live : k.intent = j.intent => k = j
    BY <1>2 DEF OwnTrafficInv, LiveJobsInFlight, Live, Job, LeaseAssumption, OneSource
<1>5. Live' = Live \ {j}
    BY <1>1, <1>2 DEF Live, OwnTrafficInv, LiveJobsInFlight
<1>6. \A i \in Intents : /\ i # j.intent => target'[i] = target[i]
                                            /\ translated'[i] = translated[i]
                         /\ i = j.intent => target'[i] /\ translated'[i]
    BY <1>1
<1>7. \A f \in finished : f.job.intent \in Intents /\ f.job.intent # j.intent
    BY <1>2 DEF OwnTrafficInv, SavedByUs, Job
<1>8. LiveJobsInFlight'
    BY <1>1, <1>4, <1>5, <1>6 DEF OwnTrafficInv, LiveJobsInFlight, Live, Job
<1>9. SavedByUs'
    BY <1>1, <1>2, <1>3, <1>6, <1>7 DEF OwnTrafficInv, SavedByUs
<1>10. LingarrIsOurs'
    BY <1>1 DEF OwnTrafficInv, LingarrIsOurs
<1>11. PatchIsFirst'
    BY <1>1, <1>2, <1>5, <1>6 DEF OwnTrafficInv, PatchIsFirst
<1>12. LeasesCover'
    BY <1>1, <1>5 DEF OwnTrafficInv, LeasesCover
<1>13. VerdictsAreFinal'
    BY <1>1, <1>5, <1>6 DEF OwnTrafficInv, VerdictsAreFinal
<1>14. ArrivalsAreNew'
    BY <1>1, <1>6 DEF OwnTrafficInv, ArrivalsAreNew
<1>15. QED
    BY <1>8, <1>9, <1>10, <1>11, <1>12, <1>13, <1>14 DEF OwnTrafficInv

\* A lost job leaves nothing behind.
LEMMA LoseJobOwn ==
  ASSUME LeaseAssumption, StepInv, NEW j \in Live, LoseJob(j)
  PROVE  OwnTrafficInv'
<1>1. /\ queue' = queue \ {j} /\ working' = working \ {j}
      /\ UNCHANGED <<state, attempts, elapsed, translated, target, finished, refused,
                     foreign, pc, moment, seen, cur, verdict>>
    BY DEF LoseJob, ledger, pass
<1>2. Live' \subseteq Live /\ queue' \cap working' \subseteq queue \cap working
    BY <1>1 DEF Live
<1>3. QED
    BY <1>1, <1>2 DEF StepInv, OwnTrafficInv, LiveJobsInFlight, LingarrIsOurs, SavedByUs,
       PatchIsFirst, LeasesCover, VerdictsAreFinal, ArrivalsAreNew

\* A lease runs out when the PATCH is answered and no job of the row is under way.
LEMMA TimerRunsOwn ==
  ASSUME LeaseAssumption, StepInv, NEW i \in Intents, TimerRuns(i)
  PROVE  OwnTrafficInv'
<1> USE DEF StepInv, TypeInv, TypeOK
<1>1. "slow_job" \notin Faults
    BY DEF LeaseAssumption, TamedFaults
<1>2. /\ ~ (pc = "patch" /\ cur = i)
      /\ state[i] = "dispatched" => \A j \in Live : j.intent # i
    BY <1>1 DEF TimerRuns, Outstanding, Live
<1>3. /\ elapsed' = [elapsed EXCEPT ![i] = TRUE]
      /\ UNCHANGED <<state, attempts, translated, upstream, pc, moment, seen, cur, verdict>>
    BY DEF TimerRuns, ledger, pass
<1>4. UNCHANGED Live
    BY <1>3 DEF Live, upstream
<1>5. LeasesCover'
    BY <1>2, <1>3, <1>4 DEF OwnTrafficInv, LeasesCover
<1>6. QED
    BY <1>3, <1>4, <1>5 DEF OwnTrafficInv, LiveJobsInFlight, LingarrIsOurs, SavedByUs,
       PatchIsFirst, VerdictsAreFinal, ArrivalsAreNew, upstream

-----------------------------------------------------------------------------
(* The other steps write nothing of a row but its want, and nothing that   *)
(* Bazarr and Lingarr hold.                                                *)

Quiet ==
  /\ UNCHANGED <<state, attempts, elapsed, translated, upstream>>
  /\ pc' \in {"patch", "settle"} => UNCHANGED <<pc, cur, verdict>>
  /\ \A i \in moment' : elapsed[i]
  /\ pc' \in {"idle", "discover"} => moment' = {}
  /\ pc' \in {"in_flight", "verify", "settle", "reroute", "promote"} => seen' = {}

\* Such a step keeps the invariant.
LEMMA QuietOwn == ASSUME OwnTrafficInv, Quiet PROVE OwnTrafficInv'
BY DEF Quiet, upstream, OwnTrafficInv, LiveJobsInFlight, LingarrIsOurs, SavedByUs,
       PatchIsFirst, LeasesCover, VerdictsAreFinal, ArrivalsAreNew, Live

QuietSteps ==
  \/ BeginDiscovery \/ LoadWithdrawable \/ BeginReconcile \/ ReadMetadata
  \/ BeginDispatch \/ ReadLingarr \/ LoadCandidates
  \/ \E i \in Intents : SkipCandidate(i) \/ WantDisappears(i)
  \/ BeginVerify \/ LoadInFlight \/ LoadRetries \/ EndPass
  \/ \E h \in Operators : \/ \E i \in Intents, a \in Actions : OperatorReads(h, i, a)
                          \/ OperatorExcludes(h)
  \/ Restart \/ UNCHANGED vars

\* Reads, the ends of passes, restarts and requests that are only read are quiet.
LEMMA QuietStepsAreQuiet ==
  ASSUME LeaseAssumption, StepInv, QuietSteps PROVE Quiet
<1>1. /\ refused = {} /\ \A i \in moment : elapsed[i]
      /\ pc \in {"idle", "discover"} => moment = {}
      /\ pc \in {"in_flight", "verify", "settle", "reroute", "promote"} => seen = {}
    BY DEF StepInv, OwnTrafficInv, LingarrIsOurs, LeasesCover
<1> USE DEF Quiet, NoRowChanges, ledger, upstream, pass, outside, Ends
<1>2. CASE BeginDiscovery \/ LoadWithdrawable \/ BeginReconcile \/ ReadMetadata
    BY <1>1, <1>2 DEF BeginDiscovery, LoadWithdrawable, BeginReconcile, ReadMetadata
<1>3. CASE BeginDispatch \/ ReadLingarr \/ LoadCandidates
    BY <1>1, <1>3 DEF BeginDispatch, ReadLingarr, LoadCandidates
<1>4. ASSUME NEW i \in Intents, SkipCandidate(i) \/ WantDisappears(i) PROVE Quiet
    BY <1>1, <1>4 DEF SkipCandidate, WantDisappears
<1>5. CASE BeginVerify \/ LoadInFlight \/ LoadRetries
    BY <1>1, <1>5 DEF BeginVerify, LoadInFlight, LoadRetries
<1>6. CASE EndPass \/ Restart
    BY <1>6 DEF EndPass, Restart
<1>7. ASSUME NEW h \in Operators, NEW i \in Intents, NEW a \in Actions,
             OperatorReads(h, i, a) \/ OperatorExcludes(h)
      PROVE  Quiet
    BY <1>1, <1>7 DEF OperatorReads, OperatorExcludes
<1>8. CASE UNCHANGED vars
    BY <1>1, <1>8 DEF vars
<1>9. ASSUME NEW h \in Operators, OperatorExcludes(h) PROVE Quiet
    BY <1>1, <1>9 DEF OperatorExcludes
<1>10. QED
    BY <1>2, <1>3, <1>4, <1>5, <1>6, <1>7, <1>8, <1>9 DEF QuietSteps

\* Nobody else writes a subtitle or asks Lingarr, and Lingarr refuses nothing.
LEMMA NoStrangers ==
  ASSUME LeaseAssumption
  PROVE  /\ \A i \in Intents : ~ AppearsByOtherMeans(i)
         /\ \A p \in Pairs : ~ ForeignRequest(p)
         /\ \A j : ~ FailTranslation(j)
BY DEF LeaseAssumption, TamedFaults, AppearsByOtherMeans, ForeignRequest, FailTranslation,
       FailureKind

\* Every step keeps the invariant.
LEMMA OwnTrafficInvStep ==
  ASSUME LeaseAssumption PROVE StepInv /\ [Next]_vars => OwnTrafficInv'
<1> SUFFICES ASSUME StepInv, [Next]_vars PROVE OwnTrafficInv'
    OBVIOUS
<1>1. CASE QuietSteps
    BY <1>1, QuietStepsAreQuiet, QuietOwn DEF StepInv
<1>2. CASE CommitBatch
    BY <1>2, CommitBatchOwn
<1>3. ASSUME NEW i \in Intents,
             Withdraw(i) \/ Reconcile(i) \/ GuardSupersedes(i) \/ Promote(i)
      PROVE  OwnTrafficInv'
    BY <1>3, BacklogMoveOwn
<1>4. ASSUME NEW i \in Intents, RecordDispatched(i) PROVE OwnTrafficInv'
    BY <1>4, RecordDispatchedOwn
<1>5. CASE PatchAccepted
    BY <1>5, PatchAcceptedOwn
<1>6. CASE PatchFails
    BY <1>6, PatchFailsOwn
<1>7. ASSUME NEW i \in Intents, Observe(i) PROVE OwnTrafficInv'
    BY <1>7, ObserveOwn
<1>8. CASE Settle \/ Reroute
    BY <1>8, VerdictOwn
<1>9. ASSUME NEW h \in Operators, OperatorCommits(h) PROVE OwnTrafficInv'
    BY <1>9, OperatorCommitsOwn
<1>10. ASSUME NEW j \in queue \cup working,
              StartJob(j) \/ SaveTranslation(j) \/ LoseJob(j)
       PROVE  OwnTrafficInv'
    <2>1. CASE StartJob(j)
        BY <2>1, StartJobOwn DEF StartJob
    <2>2. CASE SaveTranslation(j)
        BY <2>2, SaveTranslationOwn DEF SaveTranslation
    <2>3. CASE LoseJob(j)
        BY <2>3, LoseJobOwn DEF Live
    <2>4. QED
        BY <1>10, <2>1, <2>2, <2>3
<1>11. ASSUME NEW i \in Intents, TimerRuns(i) PROVE OwnTrafficInv'
    BY <1>11, TimerRunsOwn
<1>12. QED
    BY <1>1, <1>2, <1>3, <1>4, <1>5, <1>6, <1>7, <1>8, <1>9, <1>10, <1>11, NoStrangers
    DEF QuietSteps, Next, Discovery, Reconciliation, Dispatch, Verification,
        OperatorSteps, Upstream, Environment

-----------------------------------------------------------------------------
(* What follows.                                                           *)

\* Every reachable state is typed, exclusive in its pairs, current in what the
\* pass has read, and within its leases.
LEMMA OwnTraffic == ASSUME LeaseAssumption PROVE Spec => []StepInv
<1>1. Init => StepInv
    BY TypeInvInit, PairInvInit, RowsInvInit, OwnTrafficInvInit DEF StepInv
<1>2. StepInv /\ [Next]_vars => StepInv'
    <2>1. StepInv /\ [Next]_vars => TypeInv'
        BY TypeInvStep DEF StepInv
    <2>2. StepInv /\ [Next]_vars => PairInv'
        BY PairInvStep DEF StepInv, LeaseAssumption
    <2>3. StepInv /\ [Next]_vars => RowsInv'
        BY RowsInvStep DEF StepInv, LeaseAssumption
    <2>4. QED
        BY <2>1, <2>2, <2>3, OwnTrafficInvStep DEF StepInv
<1>3. QED
    BY <1>1, <1>2, PTL DEF Spec

\* Section 6.4, the corruption trap: while jobs end within their lease and nobody
\* else asks Lingarr, no request of ours is answered with the empty array that
\* Bazarr would save as a translation, however passes, restarts, lost jobs and
\* operators interleave.
THEOREM NeverCorrupted == ASSUME LeaseAssumption PROVE Spec => []NeverCorrupts
<1>1. StepInv => NeverCorrupts
    BY DEF StepInv, OwnTrafficInv, SavedByUs, NeverCorrupts
<1>2. QED
    BY <1>1, OwnTraffic, PTL

\* A want is translated at most once, whatever was retried, and a row converges
\* only on what a job of its newest attempt has saved.
THEOREM WorkDoneOnce == ASSUME LeaseAssumption PROVE Spec => []OurWorkIsDoneOnce
<1>1. StepInv => NoRepeatedWork
    BY DEF StepInv, OwnTrafficInv, SavedByUs, NoRepeatedWork
<1>2. StepInv => ConvergedIsOurs
    BY DEF StepInv, OwnTrafficInv, SavedByUs, VerdictsAreFinal, ConvergedIsOurs, Rows
<1>3. QED
    BY <1>1, <1>2, OwnTraffic, PTL DEF OurWorkIsDoneOnce

\* While no row in flight is rewritten, no step supersedes a row that is in flight.
LEMMA NoneSupersededInFlight ==
  ASSUME LeaseAssumption, "rescore" \notin Faults, StepInv, [Next]_vars,
         NEW i \in Intents, state[i] = "dispatched", state'[i] = "superseded"
  PROVE  FALSE
<1> USE DEF StepInv, TypeInv, TypeOK
<1>2. RowWriters
    BY OnlyRowWriters
<1>3. CASE CommitBatch
    BY <1>3 DEF CommitBatch, Absent
<1>4. ASSUME NEW k \in Intents, Withdraw(k) \/ Reconcile(k) \/ GuardSupersedes(k)
      PROVE  FALSE
    BY <1>4 DEF Withdraw, Reconcile, GuardSupersedes, Moves, RowsInv,
       ListIsCurrent, Rows, Withdrawable, BacklogStates
<1>5. ASSUME NEW k \in Intents, RecordDispatched(k) \/ Promote(k) PROVE FALSE
    BY <1>5 DEF RecordDispatched, Promote, Moves
<1>6. CASE PatchFails
    BY <1>6 DEF PatchFails
<1>7. CASE Settle
    BY <1>7 DEF Settle, Moves, OwnTrafficInv, ArrivalsAreNew
<1>8. CASE Reroute
    BY <1>8 DEF Reroute, Moves
<1>9. ASSUME NEW h \in Operators, OperatorCommits(h) PROVE FALSE
    <2>1. request[h] \in Request /\ request[h] # Idle
        BY <1>9 DEF OperatorCommits
    <2>2. request[h].legal => state[request[h].intent] # "dispatched"
        BY <2>1 DEF RowsInv, RequestIsCurrent, Rows, Closed
    <2>3. QED
        BY <1>9, <2>1, <2>2 DEF OperatorCommits, Moves, Request
<1>10. QED
    BY <1>2, <1>3, <1>4, <1>5, <1>6, <1>7, <1>8, <1>9 DEF RowWriters

\* Verification never books our own translation as somebody else's: unless the row
\* is rewritten in flight, the entry in Bazarr's history is newer than the row.
THEOREM OwnWorkIsCounted ==
  ASSUME LeaseAssumption, "rescore" \notin Faults PROVE Spec => OwnWorkCounts
<1>1. StepInv /\ [Next]_vars =>
        [\A i \in Intents :
           state[i] = "dispatched" /\ state'[i] = "superseded" =>
             ~ \E f \in finished :
                 f.job.intent = i /\ f.job.attempt = attempts[i] /\ f.result = "saved"]_vars
    BY NoneSupersededInFlight
<1>2. QED
    BY <1>1, OwnTraffic, PTL DEF OwnWorkCounts, Spec
=============================================================================
