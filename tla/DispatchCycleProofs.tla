------------------------- MODULE DispatchCycleProofs -------------------------
(***************************************************************************)
(* Proofs about DispatchCycle for every set of intents and sources, every  *)
(* window, ceiling, set of operators and choice of faults.                 *)
(***************************************************************************)
EXTENDS DispatchCycle, FiniteSetTheorems, TLAPS

-----------------------------------------------------------------------------
(* Type correctness.                                                       *)

\* The rows in flight can be counted, and the window has at least one slot.
LEMMA InFlightCount ==
  /\ IsFiniteSet(InFlight) /\ Cardinality(InFlight) \in Nat
  /\ Window \in Nat \ {0}
<1>1. InFlight \in SUBSET Intents
    BY DEF InFlight
<1>2. IsFiniteSet(InFlight)
    BY <1>1, FS_Subset, DispatchCycleAssumption
<1>3. Window \in Nat \ {0}
    BY DispatchCycleAssumption DEF Window
<1>4. QED
    BY <1>2, <1>3, FS_CardinalityType

\* A move of a row keeps the types of what it writes.
LEMMA MovesType ==
  ASSUME TypeOK, NEW i \in Intents, NEW to \in RowStates,
         NEW class \in FailureClasses, Moves(i, to, class)
  PROVE  /\ state' \in [Intents -> RowStates]
         /\ failure' \in [Intents -> FailureClasses]
         /\ elapsed' \in [Intents -> BOOLEAN]
         /\ translated' \in [Intents -> BOOLEAN]
         /\ moment' \subseteq Intents
BY DEF TypeOK, Moves

\* The pair of a row is a pair: its title and a source the policy may elect.
LEMMA PairType == ASSUME TypeOK, NEW i \in Intents PROVE Pair(i) \in Pairs
BY DispatchCycleAssumption DEF TypeOK, Pair, Pairs

\* What a PATCH asks of Bazarr is a job of the row being dispatched.
LEMMA CurrentJobType ==
  ASSUME TypeOK, cur \in Intents PROVE CurrentJob \in Job
BY DEF TypeOK, CurrentJob, Job

\* What a read of Lingarr's running requests returns is a set of records.
LEMMA ActiveRecordsType == ASSUME TypeOK PROVE ActiveRecords \subseteq Record
<1>1. \A j \in working : JobPair(j) \in Pairs
    BY DispatchCycleAssumption DEF TypeOK, Job, JobPair, Pairs
<1>2. {JobPair(j) : j \in working} \cup foreign \subseteq Pairs
    BY <1>1 DEF TypeOK
<1>3. QED
    BY <1>2 DEF ActiveRecords, Record

\* While a PATCH is being sent, the window had room for it.
RoomAtPatch == pc = "patch" => room > 0

TypeInv == TypeOK /\ RoomAtPatch

\* The empty ledger and the idle pass are of their types.
LEMMA TypeInvInit == Init => TypeInv
BY DispatchCycleAssumption
   DEF Init, TypeInv, TypeOK, RoomAtPatch, RowStates, FailureClasses,
       PassPoints, Outcomes, Pairs, Absent

\* Every step of every pass, operator, upstream service, timer and restart keeps
\* the types and the room a PATCH was admitted on.
LEMMA TypeInvStep == TypeInv /\ [Next]_vars => TypeInv'
<1> SUFFICES ASSUME TypeInv, [Next]_vars PROVE TypeInv'
    OBVIOUS
<1> USE DispatchCycleAssumption
        DEF TypeInv, TypeOK, RoomAtPatch, PassPoints, NoRowChanges, ledger,
            policy, upstream, pass, outside, Ends, Outcomes
<1>1. CASE BeginDiscovery
    BY <1>1 DEF BeginDiscovery
<1>2. CASE CommitBatch
    BY <1>2 DEF CommitBatch, RowStates, IntentState, Absent
<1>3. CASE LoadWithdrawable
    BY <1>3 DEF LoadWithdrawable, Rows
<1>4. ASSUME NEW i \in Intents, Withdraw(i) PROVE TypeInv'
    BY <1>4, MovesType DEF Withdraw, RowStates, IntentState, FailureClasses
<1>5. CASE BeginReconcile
    BY <1>5 DEF BeginReconcile, Rows
<1>6. CASE ReadMetadata
    BY <1>6 DEF ReadMetadata
<1>7. ASSUME NEW i \in Intents, Reconcile(i) PROVE TypeInv'
    BY <1>7, MovesType DEF Reconcile, RowStates, IntentState, FailureClasses
<1>8. CASE BeginDispatch
    BY <1>8, InFlightCount DEF BeginDispatch, Available
<1>9. CASE ReadLingarr
    BY <1>9, ActiveRecordsType DEF ReadLingarr
<1>10. CASE LoadCandidates
    BY <1>10 DEF LoadCandidates, Rows, PairKeys, Pair, Pairs, InFlight
<1>11. ASSUME NEW i \in Intents, SkipCandidate(i) PROVE TypeInv'
    BY <1>11 DEF SkipCandidate
<1>12. ASSUME NEW i \in Intents, GuardSupersedes(i) PROVE TypeInv'
    BY <1>12, MovesType DEF GuardSupersedes, RowStates, IntentState,
       FailureClasses
<1>13. ASSUME NEW i \in Intents, RecordDispatched(i) PROVE TypeInv'
    BY <1>13, MovesType, PairType DEF RecordDispatched, RowStates,
       IntentState, FailureClasses
<1>14. CASE PatchAccepted
    BY <1>14, CurrentJobType DEF PatchAccepted
<1>15. CASE PatchFails
    BY <1>15, CurrentJobType DEF PatchFails, RowStates, IntentState,
       FailureClasses
<1>16. CASE BeginVerify
    BY <1>16 DEF BeginVerify
<1>17. CASE LoadInFlight
    BY <1>17 DEF LoadInFlight, InFlight
<1>18. ASSUME NEW i \in Intents, Observe(i) PROVE TypeInv'
    BY <1>18 DEF Observe, Classify
<1>19. CASE Settle
    BY <1>19, MovesType DEF Settle, RowStates, IntentState, FailureClasses,
       FailureClass
<1>20. CASE Reroute
    BY <1>20, MovesType DEF Reroute, RowStates, IntentState, FailureClasses
<1>21. CASE LoadRetries
    BY <1>21 DEF LoadRetries, RetriesDue, Rows
<1>22. ASSUME NEW i \in Intents, Promote(i) PROVE TypeInv'
    BY <1>22, MovesType DEF Promote, RowStates, IntentState, FailureClasses
<1>23. CASE EndPass
    BY <1>23 DEF EndPass
<1>24. ASSUME NEW h \in Operators, NEW i \in Intents, NEW a \in Actions,
              OperatorReads(h, i, a)
       PROVE TypeInv'
    <2>1. [action |-> a, intent |-> i,
           legal |-> CanManualTransition(state[i], ManualTarget(a)),
           excludes |-> a = "exclude"] \in Request
        BY DEF CanManualTransition, Request
    <2>2. request' \in [Operators -> Request \cup {Idle}]
        BY <1>24, <2>1 DEF OperatorReads
    <2>3. QED
        BY <1>24, <2>2 DEF OperatorReads
<1>25. ASSUME NEW h \in Operators, OperatorExcludes(h) PROVE TypeInv'
    <2>1. request[h] \in Request
        BY <1>25 DEF OperatorExcludes
    <2>2. [request[h] EXCEPT !.excludes = FALSE] \in Request
        BY <2>1, Zenon DEF Request
    <2>3. request' \in [Operators -> Request \cup {Idle}]
        BY <1>25, <2>2, Zenon DEF OperatorExcludes
    <2>4. excluded' \subseteq Groups
        BY <1>25, <2>1 DEF OperatorExcludes, Request
    <2>5. QED
        BY <1>25, <2>3, <2>4 DEF OperatorExcludes
<1>26. ASSUME NEW h \in Operators, OperatorCommits(h) PROVE TypeInv'
    BY <1>26, MovesType DEF OperatorCommits, Request, ManualTarget, RowStates,
       IntentState, FailureClasses
<1>27. ASSUME NEW j \in queue \cup working, StartJob(j) PROVE TypeInv'
    <2>1. finished' \subseteq [job : Job, result : {"saved", "empty"} \cup FailureKind]
        BY <1>27 DEF StartJob
    <2>2. target' \in [Intents -> BOOLEAN] /\ translated' \in [Intents -> BOOLEAN]
        BY <1>27 DEF StartJob
    <2>3. queue' \subseteq Job /\ working' \subseteq Job
        BY <1>27 DEF StartJob
    <2>4. QED
        BY <1>27, <2>1, <2>2, <2>3 DEF StartJob
<1>28. ASSUME NEW j \in queue \cup working, SaveTranslation(j) PROVE TypeInv'
    BY <1>28 DEF SaveTranslation, Job, FailureKind
<1>29. ASSUME NEW j \in queue \cup working, FailTranslation(j) PROVE TypeInv'
    BY <1>29 DEF FailTranslation, Job, JobPair, Pairs, FailureKind, Record
<1>30. ASSUME NEW j \in queue \cup working, LoseJob(j) PROVE TypeInv'
    BY <1>30 DEF LoseJob, Job, FailureKind
<1>31. ASSUME NEW i \in Intents, AppearsByOtherMeans(i) PROVE TypeInv'
    BY <1>31 DEF AppearsByOtherMeans
<1>32. ASSUME NEW p \in Pairs, ForeignRequest(p) PROVE TypeInv'
    BY <1>32 DEF ForeignRequest
<1>33. ASSUME NEW i \in Intents, TimerRuns(i) PROVE TypeInv'
    BY <1>33 DEF TimerRuns
<1>34. ASSUME NEW i \in Intents, WantDisappears(i) PROVE TypeInv'
    BY <1>34 DEF WantDisappears
<1>35. CASE Restart
    BY <1>35 DEF Restart
<1>36. CASE UNCHANGED vars
    BY <1>36 DEF vars
<1>37. QED
    BY <1>1, <1>2, <1>3, <1>4, <1>5, <1>6, <1>7, <1>8, <1>9, <1>10, <1>11,
       <1>12, <1>13, <1>14, <1>15, <1>16, <1>17, <1>18, <1>19, <1>20, <1>21,
       <1>22, <1>23, <1>24, <1>25, <1>26, <1>27, <1>28, <1>29, <1>30, <1>31,
       <1>32, <1>33, <1>34, <1>35, <1>36
    DEF Next, Discovery, Reconciliation, Dispatch, Verification, OperatorSteps,
        Upstream, Environment

\* The ledger, the pass and the upstream queues keep their types for ever, and a
\* row is at hand exactly at the points of a pass that write one (cur in
\* _dispatch and _verify_one).
THEOREM TypeCorrect == Spec => []TypeOK
<1>1. TypeInv => TypeOK
    BY DEF TypeInv
<1>2. QED
    BY <1>1, TypeInvInit, TypeInvStep, PTL DEF Spec

-----------------------------------------------------------------------------
(* The steps that put rows in flight, and all the others.                  *)

DispatchPoints == {"lingarr", "load", "dispatch", "patch"}

\* A step that adds no row to those in flight and leaves a dispatch pass, if
\* one is under way, where it is.
Bystander ==
  /\ InFlight' \subseteq InFlight
  /\ attempts' = attempts
  /\ pc' \in DispatchPoints => UNCHANGED <<pc, room, held>>

DispatchStep ==
  \/ BeginDispatch \/ ReadLingarr \/ LoadCandidates
  \/ \E i \in Intents : RecordDispatched(i)
  \/ PatchAccepted \/ PatchFails

\* Every step is one of the dispatch pass's own or a bystander's: operators,
\* discovery and verification may take rows out of flight at any moment but
\* never put one in.
LEMMA BystanderStep == TypeInv /\ [Next]_vars => DispatchStep \/ Bystander
<1> SUFFICES ASSUME TypeInv, [Next]_vars, ~ DispatchStep PROVE Bystander
    OBVIOUS
<1> USE DEF TypeInv, TypeOK, Bystander, DispatchPoints, InFlight,
            InFlightStates, NoRowChanges, Moves, ledger, upstream, pass,
            outside, Ends
<1>1. CASE BeginDiscovery
    BY <1>1 DEF BeginDiscovery
<1>2. CASE CommitBatch
    BY <1>2 DEF CommitBatch, Absent
<1>3. CASE LoadWithdrawable
    BY <1>3 DEF LoadWithdrawable
<1>4. ASSUME NEW i \in Intents, Withdraw(i) PROVE Bystander
    BY <1>4 DEF Withdraw
<1>5. CASE BeginReconcile
    BY <1>5 DEF BeginReconcile
<1>6. CASE ReadMetadata
    BY <1>6 DEF ReadMetadata
<1>7. ASSUME NEW i \in Intents, Reconcile(i) PROVE Bystander
    BY <1>7 DEF Reconcile
<1>8. ASSUME NEW i \in Intents, SkipCandidate(i) PROVE Bystander
    BY <1>8 DEF SkipCandidate
<1>9. ASSUME NEW i \in Intents, GuardSupersedes(i) PROVE Bystander
    BY <1>9 DEF GuardSupersedes
<1>10. CASE BeginVerify
    BY <1>10 DEF BeginVerify
<1>11. CASE LoadInFlight
    BY <1>11 DEF LoadInFlight
<1>12. ASSUME NEW i \in Intents, Observe(i) PROVE Bystander
    BY <1>12 DEF Observe
<1>13. CASE Settle
    BY <1>13 DEF Settle
<1>14. CASE Reroute
    BY <1>14 DEF Reroute
<1>15. CASE LoadRetries
    BY <1>15 DEF LoadRetries
<1>16. ASSUME NEW i \in Intents, Promote(i) PROVE Bystander
    BY <1>16 DEF Promote
<1>17. CASE EndPass
    BY <1>17 DEF EndPass
<1>18. ASSUME NEW h \in Operators, NEW i \in Intents, NEW a \in Actions,
              OperatorReads(h, i, a)
       PROVE Bystander
    BY <1>18 DEF OperatorReads
<1>19. ASSUME NEW h \in Operators, OperatorExcludes(h) PROVE Bystander
    BY <1>19 DEF OperatorExcludes
<1>20. ASSUME NEW h \in Operators, OperatorCommits(h) PROVE Bystander
    BY <1>20 DEF OperatorCommits, Request, ManualTarget
<1>21. ASSUME NEW j \in queue \cup working, StartJob(j) PROVE Bystander
    BY <1>21 DEF StartJob
<1>22. ASSUME NEW j \in queue \cup working, SaveTranslation(j) PROVE Bystander
    BY <1>22 DEF SaveTranslation
<1>23. ASSUME NEW j \in queue \cup working, FailTranslation(j) PROVE Bystander
    BY <1>23 DEF FailTranslation
<1>24. ASSUME NEW j \in queue \cup working, LoseJob(j) PROVE Bystander
    BY <1>24 DEF LoseJob
<1>25. ASSUME NEW i \in Intents, AppearsByOtherMeans(i) PROVE Bystander
    BY <1>25 DEF AppearsByOtherMeans
<1>26. ASSUME NEW p \in Pairs, ForeignRequest(p) PROVE Bystander
    BY <1>26 DEF ForeignRequest
<1>27. ASSUME NEW i \in Intents, TimerRuns(i) PROVE Bystander
    BY <1>27 DEF TimerRuns
<1>28. ASSUME NEW i \in Intents, WantDisappears(i) PROVE Bystander
    BY <1>28 DEF WantDisappears
<1>29. CASE Restart
    BY <1>29 DEF Restart
<1>30. CASE UNCHANGED vars
    BY <1>30 DEF vars
<1>31. QED
    BY <1>1, <1>2, <1>3, <1>4, <1>5, <1>6, <1>7, <1>8, <1>9, <1>10, <1>11,
       <1>12, <1>13, <1>14, <1>15, <1>16, <1>17, <1>18, <1>19, <1>20, <1>21,
       <1>22, <1>23, <1>24, <1>25, <1>26, <1>27, <1>28, <1>29, <1>30
    DEF Next, Discovery, Reconciliation, Dispatch, Verification, OperatorSteps,
        Upstream, Environment, DispatchStep

-----------------------------------------------------------------------------
(* The window.                                                             *)

\* The window that a dispatch pass computed, less what it has dispatched since,
\* is an upper bound of what may still be put in flight; operators who take
\* rows out of flight meanwhile only widen it.
RoomInv ==
  /\ Cardinality(InFlight) <= Window
  /\ pc \in {"lingarr", "load", "dispatch"} => Cardinality(InFlight) + room <= Window
  /\ pc = "patch" => Cardinality(InFlight) + room <= Window + 1

\* Nothing is in flight in an empty ledger.
LEMMA RoomInvInit == Init => RoomInv
<1>1. Init => InFlight = {}
    BY DEF Init, InFlight, InFlightStates, Absent
<1>2. QED
    BY <1>1, FS_EmptySet, InFlightCount DEF Init, RoomInv

\* A pass spends its room one row at a time and the steps of others never add to
\* the rows in flight, so the bound survives every step.
LEMMA RoomInvStep == TypeInv /\ RoomInv /\ [Next]_vars => RoomInv'
<1> SUFFICES ASSUME TypeInv, TypeInv', RoomInv, [Next]_vars PROVE RoomInv'
    BY TypeInvStep
<1> USE DEF TypeInv, TypeOK, RoomInv
<1>1. IsFiniteSet(InFlight) /\ Cardinality(InFlight) \in Nat /\ Window \in Nat
    BY InFlightCount
<1>2. Window' = Window
    BY DEF Window
<1>3. ASSUME InFlight' \subseteq InFlight
      PROVE  Cardinality(InFlight') \in Nat /\ Cardinality(InFlight') <= Cardinality(InFlight)
    BY <1>1, <1>3, FS_Subset, FS_CardinalityType
<1>4. CASE Bystander
    BY <1>1, <1>2, <1>3, <1>4 DEF Bystander, DispatchPoints
<1>5. CASE BeginDispatch
    <2>1. InFlight' = InFlight
        BY <1>5 DEF BeginDispatch, NoRowChanges, ledger, InFlight
    <2>2. QED
        BY <1>1, <1>2, <1>5, <2>1 DEF BeginDispatch, Available
<1>6. CASE ReadLingarr \/ LoadCandidates
    <2>1. InFlight' = InFlight
        BY <1>6 DEF ReadLingarr, LoadCandidates, NoRowChanges, ledger, InFlight
    <2>2. QED
        BY <1>1, <1>2, <1>6, <2>1 DEF ReadLingarr, LoadCandidates
<1>7. ASSUME NEW i \in Intents, RecordDispatched(i) PROVE RoomInv'
    <2>1. InFlight' \subseteq InFlight \cup {i}
        BY <1>7 DEF RecordDispatched, Moves, InFlight
    <2>2. /\ IsFiniteSet(InFlight \cup {i})
          /\ \/ Cardinality(InFlight \cup {i}) = Cardinality(InFlight)
             \/ Cardinality(InFlight \cup {i}) = Cardinality(InFlight) + 1
        BY <1>1, FS_AddElement, Zenon
    <2>3. /\ Cardinality(InFlight') \in Nat
          /\ Cardinality(InFlight') <= Cardinality(InFlight \cup {i})
        BY <2>1, <2>2, FS_Subset, FS_CardinalityType
    <2>4. QED
        BY <1>1, <1>2, <1>7, <2>2, <2>3 DEF RecordDispatched
<1>8. CASE PatchAccepted
    <2>1. InFlight' = InFlight
        BY <1>8 DEF PatchAccepted, NoRowChanges, ledger, InFlight
    <2>2. QED
        BY <1>1, <1>2, <1>8, <2>1 DEF PatchAccepted, RoomAtPatch
<1>9. CASE PatchFails
    <2>1. InFlight' \subseteq InFlight
        BY <1>9 DEF PatchFails, InFlight, InFlightStates
    <2>2. QED
        BY <1>1, <1>2, <1>3, <1>9, <2>1 DEF PatchFails, Ends
<1>10. QED
    BY <1>4, <1>5, <1>6, <1>7, <1>8, <1>9, BystanderStep DEF DispatchStep

\* At most Window rows are in flight, for every window, every set of intents
\* and every interleaving of the passes with operators, failures and restarts.
THEOREM WindowHolds == Spec => []WindowRespected
<1>1. RoomInv => WindowRespected
    BY DEF RoomInv, WindowRespected
<1>2. QED
    BY <1>1, RoomInvInit, RoomInvStep, TypeInvInit, TypeInvStep, PTL DEF Spec

-----------------------------------------------------------------------------
(* One row in flight per pair, where the policy elects a single source.    *)

OneSource == \A s, t \in Sources : s = t

\* A dispatch pass that has read the pairs in flight holds them all, and those
\* of its own dispatches: what others do meanwhile can only leave it holding
\* too many.
PairInv ==
  /\ PairExclusive
  /\ pc \in {"dispatch", "patch"} => \A i \in InFlight : Pair(i) \in held

\* No pair is held twice in an empty ledger.
LEMMA PairInvInit == Init => PairInv
BY DEF Init, PairInv, PairExclusive, InFlight, InFlightStates, Absent

\* Where a row keeps its source, a dispatch pass that skips the pairs it holds
\* puts no second row of a pair in flight.
LEMMA PairInvStep ==
  ASSUME OneSource PROVE TypeInv /\ PairInv /\ [Next]_vars => PairInv'
<1> SUFFICES ASSUME TypeInv, TypeInv', PairInv, [Next]_vars PROVE PairInv'
    BY TypeInvStep
<1> USE DEF PairInv, PairExclusive
<1>1. \A i \in Intents : source'[i] = source[i]
    BY OneSource DEF TypeInv, TypeOK, OneSource
<1>2. \A i \in Intents : Pair(i)' = Pair(i)
    BY <1>1 DEF Pair
<1>3. InFlight \subseteq Intents /\ InFlight' \subseteq Intents
    BY DEF InFlight
<1>4. CASE Bystander
    BY <1>2, <1>3, <1>4 DEF Bystander, DispatchPoints
<1>5. CASE BeginDispatch \/ ReadLingarr
    BY <1>2, <1>3, <1>5
    DEF BeginDispatch, ReadLingarr, NoRowChanges, ledger, InFlight
<1>6. CASE LoadCandidates
    <2>1. InFlight' = InFlight
        BY <1>6 DEF LoadCandidates, NoRowChanges, ledger, InFlight
    <2>2. QED
        BY <1>2, <1>3, <1>6, <2>1 DEF LoadCandidates, PairKeys
<1>7. ASSUME NEW i \in Intents, RecordDispatched(i) PROVE PairInv'
    <2>1. InFlight' \subseteq InFlight \cup {i}
        BY <1>7 DEF RecordDispatched, Moves, InFlight, TypeInv, TypeOK
    <2>2. /\ pc = "dispatch" /\ pc' = "patch"
          /\ Pair(i) \notin held /\ held' = held \cup {Pair(i)}
        BY <1>7 DEF RecordDispatched
    <2>3. QED
        BY <1>2, <1>3, <2>1, <2>2
<1>8. CASE PatchAccepted
    BY <1>2, <1>3, <1>8 DEF PatchAccepted, NoRowChanges, ledger, pass, InFlight
<1>9. CASE PatchFails
    <2>1. InFlight' \subseteq InFlight
        BY <1>9 DEF PatchFails, InFlight, InFlightStates, TypeInv, TypeOK
    <2>2. QED
        BY <1>2, <1>3, <1>9, <2>1 DEF PatchFails, Ends
<1>10. QED
    BY <1>4, <1>5, <1>6, <1>7, <1>8, <1>9, BystanderStep DEF DispatchStep

\* Where discovery cannot elect another source, no two rows in flight ever
\* share a pair, whatever operators, Bazarr, Lingarr, timers and restarts do.
THEOREM PairHolds == ASSUME OneSource PROVE Spec => []PairExclusive
<1>1. PairInv => PairExclusive
    BY DEF PairInv
<1>2. TypeInv /\ PairInv /\ [Next]_vars => PairInv'
    BY OneSource, PairInvStep
<1>3. QED
    BY <1>1, <1>2, PairInvInit, TypeInvInit, TypeInvStep, PTL DEF Spec

-----------------------------------------------------------------------------
(* The ceiling of attempts.                                                *)

HasAttemptLeft(i) == attempts[i] < MaxAttempts + granted[i]

\* A key without a row was never dispatched.
FreshKeys == \A i \in Intents : state[i] = Absent => attempts[i] = 0

\* The candidates of a dispatch pass and the retries of a verification pass
\* have a dispatch left, even if their rows have moved since they were read.
CandidatesMayGo ==
  pc \in {"dispatch", "patch", "promote"} => \A i \in todo : HasAttemptLeft(i)

\* A retry that verification has decided on is below the ceiling until it
\* commits.
RetriesMayGo ==
  pc \in {"settle", "reroute"} /\ verdict \in {"retry_provider", "retry_transient"}
    => attempts[cur] < MaxAttempts

CeilingInv == AttemptCeiling /\ FreshKeys /\ CandidatesMayGo /\ RetriesMayGo

\* Every key starts with no attempt and at least one to go.
LEMMA CeilingInvInit == Init => CeilingInv
BY DispatchCycleAssumption
   DEF Init, CeilingInv, AttemptCeiling, FreshKeys, CandidatesMayGo,
       RetriesMayGo, BacklogStates, Absent

\* Dispatching spends an attempt only where one is left, verification schedules a
\* retry only below the ceiling, and an operator who puts a row back into the
\* backlog grants the attempt it will take.
LEMMA CeilingInvStep == TypeInv /\ CeilingInv /\ [Next]_vars => CeilingInv'
<1> SUFFICES ASSUME TypeInv, CeilingInv, [Next]_vars PROVE CeilingInv'
    OBVIOUS
<1> USE DispatchCycleAssumption
        DEF TypeInv, TypeOK, CeilingInv, AttemptCeiling, FreshKeys,
            CandidatesMayGo, RetriesMayGo, HasAttemptLeft, BacklogStates,
            NoRowChanges, ledger, upstream, pass, outside, Ends
<1>1. CASE BeginDiscovery
    BY <1>1 DEF BeginDiscovery
<1>2. CASE CommitBatch
    BY <1>2 DEF CommitBatch, Absent
<1>3. CASE LoadWithdrawable
    BY <1>3 DEF LoadWithdrawable
<1>4. ASSUME NEW i \in Intents, Withdraw(i) PROVE CeilingInv'
    BY <1>4 DEF Withdraw, Moves, Absent
<1>5. CASE BeginReconcile
    BY <1>5 DEF BeginReconcile
<1>6. CASE ReadMetadata
    BY <1>6 DEF ReadMetadata
<1>7. ASSUME NEW i \in Intents, Reconcile(i) PROVE CeilingInv'
    BY <1>7 DEF Reconcile, Moves, Absent
<1>8. CASE BeginDispatch
    BY <1>8 DEF BeginDispatch
<1>9. CASE ReadLingarr
    BY <1>9 DEF ReadLingarr
<1>10. CASE LoadCandidates
    BY <1>10 DEF LoadCandidates, Rows
<1>11. ASSUME NEW i \in Intents, SkipCandidate(i) PROVE CeilingInv'
    BY <1>11 DEF SkipCandidate
<1>12. ASSUME NEW i \in Intents, GuardSupersedes(i) PROVE CeilingInv'
    BY <1>12 DEF GuardSupersedes, Moves, Absent
<1>13. ASSUME NEW i \in Intents, RecordDispatched(i) PROVE CeilingInv'
    BY <1>13 DEF RecordDispatched, Moves, Absent
<1>14. CASE PatchAccepted
    BY <1>14 DEF PatchAccepted
<1>15. CASE PatchFails
    BY <1>15 DEF PatchFails, Absent
<1>16. CASE BeginVerify
    BY <1>16 DEF BeginVerify
<1>17. CASE LoadInFlight
    BY <1>17 DEF LoadInFlight
<1>18. ASSUME NEW i \in Intents, Observe(i) PROVE CeilingInv'
    BY <1>18 DEF Observe, Classify
<1>19. CASE Settle
    BY <1>19 DEF Settle, Moves, Absent
<1>20. CASE Reroute
    BY <1>20 DEF Reroute, Moves, Absent
<1>21. CASE LoadRetries
    BY <1>21 DEF LoadRetries, RetriesDue, Rows
<1>22. ASSUME NEW i \in Intents, Promote(i) PROVE CeilingInv'
    BY <1>22 DEF Promote, Moves, Absent
<1>23. CASE EndPass
    BY <1>23 DEF EndPass
<1>24. ASSUME NEW h \in Operators, NEW i \in Intents, NEW a \in Actions,
              OperatorReads(h, i, a)
       PROVE CeilingInv'
    BY <1>24 DEF OperatorReads
<1>25. ASSUME NEW h \in Operators, OperatorExcludes(h) PROVE CeilingInv'
    BY <1>25 DEF OperatorExcludes
<1>26. ASSUME NEW h \in Operators, OperatorCommits(h) PROVE CeilingInv'
    BY <1>26 DEF OperatorCommits, Moves, Request, ManualTarget, Absent
<1>27. ASSUME NEW j \in queue \cup working, StartJob(j) PROVE CeilingInv'
    BY <1>27 DEF StartJob
<1>28. ASSUME NEW j \in queue \cup working, SaveTranslation(j)
       PROVE CeilingInv'
    BY <1>28 DEF SaveTranslation
<1>29. ASSUME NEW j \in queue \cup working, FailTranslation(j)
       PROVE CeilingInv'
    BY <1>29 DEF FailTranslation
<1>30. ASSUME NEW j \in queue \cup working, LoseJob(j) PROVE CeilingInv'
    BY <1>30 DEF LoseJob
<1>31. ASSUME NEW i \in Intents, AppearsByOtherMeans(i) PROVE CeilingInv'
    BY <1>31 DEF AppearsByOtherMeans
<1>32. ASSUME NEW p \in Pairs, ForeignRequest(p) PROVE CeilingInv'
    BY <1>32 DEF ForeignRequest
<1>33. ASSUME NEW i \in Intents, TimerRuns(i) PROVE CeilingInv'
    BY <1>33 DEF TimerRuns
<1>34. ASSUME NEW i \in Intents, WantDisappears(i) PROVE CeilingInv'
    BY <1>34 DEF WantDisappears
<1>35. CASE Restart
    BY <1>35 DEF Restart
<1>36. CASE UNCHANGED vars
    BY <1>36 DEF vars
<1>37. QED
    BY <1>1, <1>2, <1>3, <1>4, <1>5, <1>6, <1>7, <1>8, <1>9, <1>10, <1>11,
       <1>12, <1>13, <1>14, <1>15, <1>16, <1>17, <1>18, <1>19, <1>20, <1>21,
       <1>22, <1>23, <1>24, <1>25, <1>26, <1>27, <1>28, <1>29, <1>30, <1>31,
       <1>32, <1>33, <1>34, <1>35, <1>36
    DEF Next, Discovery, Reconciliation, Dispatch, Verification, OperatorSteps,
        Upstream, Environment

\* Automation never dispatches an intent more than MaxAttempts times plus the
\* retries granted to it, for every ceiling and whatever operators, acting on
\* rows they read long ago, write over the passes.
THEOREM CeilingHolds == Spec => []AttemptCeiling
<1>1. CeilingInv => AttemptCeiling
    BY DEF CeilingInv
<1>2. QED
    BY <1>1, CeilingInvInit, CeilingInvStep, TypeInvInit, TypeInvStep, PTL DEF
       Spec

-----------------------------------------------------------------------------
(* What a pass read of its rows still holds when it writes them, because   *)
(* the instance lock keeps the other passes away.                          *)

Writing == {"patch", "settle", "reroute"}

\* The rows on a pass's list are in the states it selected them by, and the
\* row it is writing is not on the list any more.
ListIsCurrent ==
  /\ pc = "withdraw" => todo \subseteq Rows(Withdrawable)
  /\ pc \in {"metadata", "reconcile"} => todo \subseteq Rows(BacklogStates)
  /\ pc \in {"dispatch", "patch"} => todo \subseteq Rows({"eligible"})
  /\ pc \in {"verify", "settle", "reroute"} => todo \subseteq Rows({"dispatched"})
  /\ pc = "promote" => todo \subseteq Rows({"retry_eligible"})
  /\ pc \in Writing => cur \notin todo

\* The row being written is in the state its next commit starts from.
RowIsCurrent ==
  /\ pc \in {"patch", "settle"} => state[cur] = "dispatched"
  /\ pc = "reroute" => state[cur] = "failed"

\* A verdict that quarantines was reached at the ceiling.
VerdictIsCurrent ==
  /\ pc \in {"settle", "reroute"} => verdict # "none"
  /\ pc = "reroute" => verdict \notin {"converged", "superseded", "environmental"}
  /\ pc \in {"settle", "reroute"}
       /\ verdict \in {"quarantine_provider", "quarantine_poison"} =>
         attempts[cur] >= MaxAttempts

Closed == {"quarantined", "superseded"}

\* An operator's request that found its row movable will find it so: a row that
\* may be released is left alone by the passes.
RequestIsCurrent ==
  \A h \in Operators :
    request[h] # Idle /\ request[h].legal => request[h].intent \in Rows(Closed)

RowsInv == ListIsCurrent /\ RowIsCurrent /\ VerdictIsCurrent /\ RequestIsCurrent

\* Operators may release and exclude, but none retries.
NoRetries == Operators = {} \/ "retry" \notin Actions

\* Nothing is selected in an empty ledger.
LEMMA RowsInvInit == Init => RowsInv
BY DEF Init, RowsInv, ListIsCurrent, RowIsCurrent, VerdictIsCurrent, RequestIsCurrent,
       Writing

\* Where no operator retries, what a pass has read of its rows stays true until it
\* writes them: the other passes wait for the lock, operators write rows that no
\* pass selects, and upstream services and restarts do not write the ledger.
LEMMA RowsInvStep ==
  ASSUME NoRetries PROVE TypeInv /\ RowsInv /\ [Next]_vars => RowsInv'
<1> SUFFICES ASSUME TypeInv, RowsInv, [Next]_vars PROVE RowsInv'
    OBVIOUS
<1> USE DispatchCycleAssumption
        DEF TypeInv, TypeOK, RowsInv, ListIsCurrent, RowIsCurrent,
            VerdictIsCurrent, RequestIsCurrent, Closed, Writing, Rows, NoRowChanges, ledger, upstream,
            pass, outside, Ends
<1>1. CASE BeginDiscovery
    BY <1>1 DEF BeginDiscovery
<1>2. CASE CommitBatch
    BY <1>2 DEF CommitBatch, Absent
<1>3. CASE LoadWithdrawable
    BY <1>3 DEF LoadWithdrawable, Rows
<1>4. ASSUME NEW i \in Intents, Withdraw(i) PROVE RowsInv'
    BY <1>4 DEF Withdraw, Moves
<1>5. CASE BeginReconcile
    BY <1>5 DEF BeginReconcile, Rows
<1>6. CASE ReadMetadata
    BY <1>6 DEF ReadMetadata
<1>7. ASSUME NEW i \in Intents, Reconcile(i) PROVE RowsInv'
    BY <1>7 DEF Reconcile, Moves
<1>8. CASE BeginDispatch
    BY <1>8 DEF BeginDispatch
<1>9. CASE ReadLingarr
    BY <1>9 DEF ReadLingarr
<1>10. CASE LoadCandidates
    BY <1>10 DEF LoadCandidates, Rows
<1>11. ASSUME NEW i \in Intents, SkipCandidate(i) PROVE RowsInv'
    BY <1>11 DEF SkipCandidate
<1>12. ASSUME NEW i \in Intents, GuardSupersedes(i) PROVE RowsInv'
    BY <1>12 DEF GuardSupersedes, Moves
<1>13. ASSUME NEW i \in Intents, RecordDispatched(i) PROVE RowsInv'
    BY <1>13 DEF RecordDispatched, Moves
<1>14. CASE PatchAccepted
    BY <1>14 DEF PatchAccepted
<1>15. CASE PatchFails
    BY <1>15 DEF PatchFails
<1>16. CASE BeginVerify
    BY <1>16 DEF BeginVerify
<1>17. CASE LoadInFlight
    BY <1>17 DEF LoadInFlight, InFlight, InFlightStates
<1>18. ASSUME NEW i \in Intents, Observe(i) PROVE RowsInv'
    BY <1>18 DEF Observe, Classify, InFlight
<1>19. CASE Settle
    BY <1>19 DEF Settle, Moves
<1>20. CASE Reroute
    BY <1>20 DEF Reroute, Moves
<1>21. CASE LoadRetries
    BY <1>21 DEF LoadRetries, Rows, RetriesDue
<1>22. ASSUME NEW i \in Intents, Promote(i) PROVE RowsInv'
    BY <1>22 DEF Promote, Moves
<1>23. CASE EndPass
    BY <1>23 DEF EndPass
<1>24. ASSUME NEW j \in queue \cup working, StartJob(j) PROVE RowsInv'
    BY <1>24 DEF StartJob
<1>25. ASSUME NEW j \in queue \cup working, SaveTranslation(j) PROVE RowsInv'
    BY <1>25 DEF SaveTranslation
<1>26. ASSUME NEW j \in queue \cup working, FailTranslation(j) PROVE RowsInv'
    BY <1>26 DEF FailTranslation
<1>27. ASSUME NEW j \in queue \cup working, LoseJob(j) PROVE RowsInv'
    BY <1>27 DEF LoseJob
<1>28. ASSUME NEW i \in Intents, AppearsByOtherMeans(i) PROVE RowsInv'
    BY <1>28 DEF AppearsByOtherMeans
<1>29. ASSUME NEW p \in Pairs, ForeignRequest(p) PROVE RowsInv'
    BY <1>29 DEF ForeignRequest
<1>30. ASSUME NEW i \in Intents, TimerRuns(i) PROVE RowsInv'
    BY <1>30 DEF TimerRuns
<1>31. ASSUME NEW i \in Intents, WantDisappears(i) PROVE RowsInv'
    BY <1>31 DEF WantDisappears
<1>32. CASE Restart
    BY <1>32 DEF Restart
<1>33. CASE UNCHANGED vars
    BY <1>33 DEF vars
<1>34. ASSUME NEW h \in Operators, NEW i \in Intents, NEW a \in Actions,
              OperatorReads(h, i, a)
       PROVE RowsInv'
    <2>1. a # "retry" /\ ManualTarget(a) = "superseded"
        BY DEF NoRetries, ManualTarget
    <2>2. CanManualTransition(state[i], "superseded") => state[i] = "quarantined"
        BY DEF CanManualTransition, ManualTransitions
    <2>3. QED
        BY <1>34, <2>1, <2>2 DEF OperatorReads
<1>35. ASSUME NEW h \in Operators, OperatorExcludes(h) PROVE RowsInv'
    BY <1>35 DEF OperatorExcludes
<1>36. ASSUME NEW h \in Operators, OperatorCommits(h) PROVE RowsInv'
    <2>1. request[h] \in Request /\ request[h] # Idle
        BY <1>36 DEF OperatorCommits
    <2>2. ManualTarget(request[h].action) = "superseded"
        BY <2>1 DEF Request, NoRetries, ManualTarget
    <2>3. \/ UNCHANGED state
          \/ /\ request[h].intent \in Rows(Closed)
             /\ state' = [state EXCEPT ![request[h].intent] = "superseded"]
        BY <1>36, <2>1, <2>2 DEF OperatorCommits, Moves
    <2>4. \A j \in Intents : \/ state'[j] = state[j]
                             \/ state[j] \in Closed /\ state'[j] \in Closed
        <3>1. state \in [Intents -> RowStates]
            OBVIOUS
        <3>2. QED
            BY ONLY <2>3, <3>1 DEF Rows, Closed
    <2>5. UNCHANGED <<attempts, pc, todo, cur, verdict>>
        BY <1>36 DEF OperatorCommits
    <2>6. \A g \in Operators : request'[g] = request[g] \/ request'[g] = Idle
        BY <1>36 DEF OperatorCommits
    <2>7. RequestIsCurrent'
        BY <2>4, <2>6
    <2>8. ListIsCurrent'
        BY <2>4, <2>5 DEF Withdrawable, BacklogStates
    <2>9. RowIsCurrent' /\ VerdictIsCurrent'
        BY <2>4, <2>5
    <2>10. QED
        BY <2>7, <2>8, <2>9
<1>37. QED
    BY <1>1, <1>2, <1>3, <1>4, <1>5, <1>6, <1>7, <1>8, <1>9, <1>10, <1>11,
       <1>12, <1>13, <1>14, <1>15, <1>16, <1>17, <1>18, <1>19, <1>20, <1>21,
       <1>22, <1>23, <1>24, <1>25, <1>26, <1>27, <1>28, <1>29, <1>30, <1>31,
       <1>32, <1>33, <1>34, <1>35, <1>36
    DEF Next, Discovery, Reconciliation, Dispatch, Verification, OperatorSteps,
        Upstream, Environment

-----------------------------------------------------------------------------
(* Every move is an edge.                                                  *)

\* The edges of the table that the passes take.
LEMMA Edges ==
  /\ \A from \in Withdrawable \cup BacklogStates : "superseded" \in Transitions[from]
  /\ Transitions["eligible"] = {"discovered", "dispatched", "superseded"}
  /\ Transitions["dispatched"] = {"converged", "superseded", "failed"}
  /\ Transitions["failed"] = {"retry_eligible", "quarantined", "superseded"}
  /\ Transitions["retry_eligible"] = {"eligible", "superseded"}
BY DEF Transitions, Withdrawable, BacklogStates

\* The steps that write the state of a row.
RowWriters ==
  \/ CommitBatch \/ PatchFails \/ Settle \/ Reroute
  \/ \E i \in Intents : \/ Withdraw(i) \/ Reconcile(i) \/ GuardSupersedes(i)
                        \/ RecordDispatched(i) \/ Promote(i)
  \/ \E h \in Operators : OperatorCommits(h)

\* No other step does.
LEMMA OnlyRowWriters == [Next]_vars => RowWriters \/ UNCHANGED state
BY DEF RowWriters, vars, ledger, NoRowChanges, Next, Discovery, Reconciliation, Dispatch,
       Verification, OperatorSteps, Upstream, Environment, BeginDiscovery,
       LoadWithdrawable, BeginReconcile, ReadMetadata, BeginDispatch, ReadLingarr,
       LoadCandidates, SkipCandidate, PatchAccepted, BeginVerify, LoadInFlight, Observe,
       LoadRetries, EndPass, OperatorReads, OperatorExcludes, StartJob,
       SaveTranslation, FailTranslation, LoseJob, AppearsByOtherMeans,
       ForeignRequest, TimerRuns, WantDisappears, Restart

OnEdges(i) ==
  state[i] \in IntentState /\ state'[i] # state[i] =>
    \/ CanTransition(state[i], state'[i])
    \/ request' # request /\ CanManualTransition(state[i], state'[i])

\* What a pass writes, it writes to a row in a state with an edge to the new one; an
\* operator's release finds the row quarantined, or superseded already.
LEMMA EdgesStep ==
  ASSUME NoRetries
  PROVE  TypeInv /\ RowsInv /\ [Next]_vars => \A i \in Intents : OnEdges(i)
<1> SUFFICES ASSUME TypeInv, RowsInv, [Next]_vars, NEW i \in Intents,
                    state'[i] # state[i]
             PROVE  OnEdges(i)
    BY DEF OnEdges
<1> USE DEF OnEdges, CanTransition
<1>0. state \in [Intents -> RowStates]
    BY DEF TypeInv, TypeOK
<1>1. CASE CommitBatch
    BY <1>0, <1>1 DEF CommitBatch, IntentState, Absent
<1>2. ASSUME NEW k \in Intents, Withdraw(k) PROVE OnEdges(i)
    BY <1>0, <1>2, Edges DEF Withdraw, Moves, RowsInv, ListIsCurrent, Rows
<1>3. ASSUME NEW k \in Intents, Reconcile(k) PROVE OnEdges(i)
    BY <1>0, <1>3, Edges DEF Reconcile, Moves, RowsInv, ListIsCurrent, Rows
<1>4. ASSUME NEW k \in Intents, GuardSupersedes(k) \/ RecordDispatched(k)
      PROVE  OnEdges(i)
    BY <1>0, <1>4, Edges
    DEF GuardSupersedes, RecordDispatched, Moves, RowsInv, ListIsCurrent, Rows
<1>5. CASE PatchFails
    BY <1>0, <1>5, Edges DEF PatchFails, RowsInv, RowIsCurrent
<1>6. CASE Settle
    BY <1>0, <1>6, Edges DEF Settle, Moves, RowsInv, RowIsCurrent
<1>7. CASE Reroute
    BY <1>0, <1>7, Edges DEF Reroute, Moves, RowsInv, RowIsCurrent
<1>8. ASSUME NEW k \in Intents, Promote(k) PROVE OnEdges(i)
    BY <1>0, <1>8, Edges DEF Promote, Moves, RowsInv, ListIsCurrent, Rows
<1>9. ASSUME NEW h \in Operators, OperatorCommits(h) PROVE OnEdges(i)
    <2>1. request[h] \in Request /\ request[h] # Idle
        BY <1>9 DEF OperatorCommits, TypeInv, TypeOK
    <2>2. ManualTarget(request[h].action) = "superseded"
        BY <2>1 DEF Request, NoRetries, ManualTarget
    <2>3. /\ request[h].intent \in Rows(Closed)
          /\ state' = [state EXCEPT ![request[h].intent] = "superseded"]
        BY <1>9, <2>1, <2>2 DEF OperatorCommits, Moves, RowsInv, RequestIsCurrent
    <2>4. state[i] = "quarantined" /\ state'[i] = "superseded"
        BY <1>0, <2>3 DEF Rows, Closed
    <2>5. request'[h] = Idle
        BY <1>9 DEF OperatorCommits, TypeInv, TypeOK
    <2>6. CanManualTransition(state[i], state'[i])
        BY <2>4 DEF CanManualTransition, ManualTransitions
    <2>7. QED
        BY <2>1, <2>5, <2>6
<1>10. QED
    BY <1>1, <1>2, <1>3, <1>4, <1>5, <1>6, <1>7, <1>8, <1>9, OnlyRowWriters
    DEF RowWriters

\* As long as no operator retries, every move of every row is an edge of the table,
\* or an operator's move along an edge of the operators' table: no pass ever
\* writes over what another, or an operator, has made of a row meanwhile.
THEOREM NormativeHolds == ASSUME NoRetries PROVE Spec => NormativeTransitions
<1>1. TypeInv /\ RowsInv /\ [Next]_vars => RowsInv'
    BY RowsInvStep, NoRetries
<1>2. TypeInv /\ RowsInv /\ [Next]_vars =>
        [\A i \in Intents :
           state[i] \in IntentState /\ state'[i] # state[i] =>
             \/ CanTransition(state[i], state'[i])
             \/ request' # request /\ CanManualTransition(state[i], state'[i])]_vars
    BY EdgesStep, NoRetries DEF OnEdges
<1>3. QED
    BY <1>1, <1>2, RowsInvInit, TypeInvInit, TypeInvStep, PTL
    DEF Spec, NormativeTransitions

-----------------------------------------------------------------------------
(* One job per recorded attempt.                                           *)

Jobs == queue \cup working \cup {f.job : f \in finished}

\* No job is ahead of the record of attempts, and while a PATCH is being sent
\* no job stems from the attempt it is sent for.
JobInv ==
  /\ \A k \in Jobs : k.attempt <= attempts[k.intent]
  /\ pc = "patch" => \A k \in Jobs : k.intent = cur => k.attempt < attempts[cur]

\* Jobs come from PATCHes only; attempts are counted by RecordDispatched only.
JobsMove ==
  /\ Jobs' \subseteq Jobs /\ queue' \subseteq queue
  /\ attempts' = attempts
  /\ pc' = "patch" => pc = "patch" /\ cur' = cur

JobSources == \/ \E i \in Intents : RecordDispatched(i)
              \/ PatchAccepted \/ PatchFails

\* Every other step leaves the record of attempts alone and only moves jobs from
\* queue to worker to history, or loses them.
LEMMA JobsStep == TypeInv /\ [Next]_vars => JobSources \/ JobsMove
<1> SUFFICES ASSUME TypeInv, [Next]_vars, ~ JobSources PROVE JobsMove
    OBVIOUS
<1> USE DEF JobsMove, Jobs, NoRowChanges, ledger, upstream, pass, outside, Ends
<1>1. CASE BeginDiscovery
    BY <1>1 DEF BeginDiscovery
<1>2. CASE CommitBatch
    BY <1>2 DEF CommitBatch
<1>3. CASE LoadWithdrawable
    BY <1>3 DEF LoadWithdrawable
<1>4. ASSUME NEW i \in Intents, Withdraw(i) PROVE JobsMove
    BY <1>4 DEF Withdraw
<1>5. CASE BeginReconcile
    BY <1>5 DEF BeginReconcile
<1>6. CASE ReadMetadata
    BY <1>6 DEF ReadMetadata
<1>7. ASSUME NEW i \in Intents, Reconcile(i) PROVE JobsMove
    BY <1>7 DEF Reconcile
<1>8. CASE BeginDispatch
    BY <1>8 DEF BeginDispatch
<1>9. CASE ReadLingarr
    BY <1>9 DEF ReadLingarr
<1>10. CASE LoadCandidates
    BY <1>10 DEF LoadCandidates
<1>11. ASSUME NEW i \in Intents, SkipCandidate(i) PROVE JobsMove
    BY <1>11 DEF SkipCandidate
<1>12. ASSUME NEW i \in Intents, GuardSupersedes(i) PROVE JobsMove
    BY <1>12 DEF GuardSupersedes
<1>13. CASE BeginVerify
    BY <1>13 DEF BeginVerify
<1>14. CASE LoadInFlight
    BY <1>14 DEF LoadInFlight
<1>15. ASSUME NEW i \in Intents, Observe(i) PROVE JobsMove
    BY <1>15 DEF Observe
<1>16. CASE Settle
    BY <1>16 DEF Settle
<1>17. CASE Reroute
    BY <1>17 DEF Reroute
<1>18. CASE LoadRetries
    BY <1>18 DEF LoadRetries
<1>19. ASSUME NEW i \in Intents, Promote(i) PROVE JobsMove
    BY <1>19 DEF Promote
<1>20. CASE EndPass
    BY <1>20 DEF EndPass
<1>21. ASSUME NEW h \in Operators, NEW i \in Intents, NEW a \in Actions,
              OperatorReads(h, i, a)
       PROVE JobsMove
    BY <1>21 DEF OperatorReads
<1>22. ASSUME NEW h \in Operators, OperatorExcludes(h) PROVE JobsMove
    BY <1>22 DEF OperatorExcludes
<1>23. ASSUME NEW h \in Operators, OperatorCommits(h) PROVE JobsMove
    BY <1>23 DEF OperatorCommits
<1>24. ASSUME NEW j \in queue \cup working, StartJob(j) PROVE JobsMove
    BY <1>24 DEF StartJob
<1>25. ASSUME NEW j \in queue \cup working, SaveTranslation(j) PROVE JobsMove
    BY <1>25 DEF SaveTranslation
<1>26. ASSUME NEW j \in queue \cup working, FailTranslation(j) PROVE JobsMove
    BY <1>26 DEF FailTranslation
<1>27. ASSUME NEW j \in queue \cup working, LoseJob(j) PROVE JobsMove
    BY <1>27 DEF LoseJob
<1>28. ASSUME NEW i \in Intents, AppearsByOtherMeans(i) PROVE JobsMove
    BY <1>28 DEF AppearsByOtherMeans
<1>29. ASSUME NEW p \in Pairs, ForeignRequest(p) PROVE JobsMove
    BY <1>29 DEF ForeignRequest
<1>30. ASSUME NEW i \in Intents, TimerRuns(i) PROVE JobsMove
    BY <1>30 DEF TimerRuns
<1>31. ASSUME NEW i \in Intents, WantDisappears(i) PROVE JobsMove
    BY <1>31 DEF WantDisappears
<1>32. CASE Restart
    BY <1>32 DEF Restart
<1>33. CASE UNCHANGED vars
    BY <1>33 DEF vars
<1>34. QED
    BY <1>1, <1>2, <1>3, <1>4, <1>5, <1>6, <1>7, <1>8, <1>9, <1>10, <1>11,
       <1>12, <1>13, <1>14, <1>15, <1>16, <1>17, <1>18, <1>19, <1>20, <1>21,
       <1>22, <1>23, <1>24, <1>25, <1>26, <1>27, <1>28, <1>29, <1>30, <1>31,
       <1>32, <1>33
    DEF Next, Discovery, Reconciliation, Dispatch, Verification, OperatorSteps,
        Upstream, Environment, JobSources

\* A step keeps JobInv, and a job it adds to the queue is the first and only one
\* of the newest attempt.
LEMMA JobInvStep ==
  TypeInv /\ JobInv /\ [Next]_vars =>
    /\ JobInv'
    /\ \A j \in queue' \ queue :
         /\ j.attempt = attempts[j.intent]
         /\ \A k \in Jobs : k.intent = j.intent => k.attempt < j.attempt
<1> DEFINE Newest ==
      \A j \in queue' \ queue :
        /\ j.attempt = attempts[j.intent]
        /\ \A k \in Jobs : k.intent = j.intent => k.attempt < j.attempt
<1> SUFFICES ASSUME TypeInv, JobInv, [Next]_vars PROVE JobInv' /\ Newest
    OBVIOUS
<1> USE DEF TypeInv, TypeOK, JobInv
<1>1. \A k \in Jobs : k.attempt \in Nat /\ k.intent \in Intents
    BY DEF Jobs, Job
<1>2. CASE JobsMove
    BY <1>1, <1>2 DEF JobsMove
<1>3. ASSUME NEW i \in Intents, RecordDispatched(i) PROVE JobInv' /\ Newest
    <2>1. Jobs' = Jobs /\ queue' = queue
        BY <1>3 DEF RecordDispatched, upstream, Jobs
    <2>2. \A k \in Jobs : /\ k.attempt <= attempts'[k.intent]
                          /\ k.intent = i => k.attempt < attempts'[i]
        BY <1>1, <1>3 DEF RecordDispatched
    <2>3. QED
        BY <1>3, <2>1, <2>2 DEF RecordDispatched
<1>4. ASSUME PatchAccepted \/ PatchFails PROVE JobInv' /\ Newest
    <2>1. /\ queue' \subseteq queue \cup {CurrentJob}
          /\ Jobs' \subseteq Jobs \cup {CurrentJob}
        BY <1>4 DEF PatchAccepted, PatchFails, Jobs
    <2>2. /\ pc = "patch" /\ cur \in Intents
          /\ pc' # "patch" /\ attempts' = attempts
        BY <1>4 DEF PatchAccepted, PatchFails, Ends, NoRowChanges, ledger
    <2>3. CurrentJob.intent = cur /\ CurrentJob.attempt = attempts[cur]
        BY DEF CurrentJob
    <2>4. JobInv'
        BY <1>1, <2>1, <2>2, <2>3
    <2>5. Newest
        BY <1>1, <2>1, <2>2, <2>3
    <2>6. QED
        BY <2>4, <2>5
<1>5. QED
    BY <1>2, <1>3, <1>4, JobsStep DEF JobSources

\* No two jobs ever stem from one dispatched event, and a job enters the queue
\* only for the newest event: lost replies, restarts and late jobs included.
THEOREM OneJobHolds == Spec => OneJobPerAttempt
<1>1. Init => JobInv
    BY DEF Init, JobInv, Jobs
<1>2. TypeInv /\ JobInv /\ [Next]_vars =>
        [\A j \in queue' \ queue :
           /\ j.attempt = attempts[j.intent]
           /\ \A k \in queue \cup working \cup {f.job : f \in finished} :
                k.intent = j.intent => k.attempt < j.attempt]_vars
    BY JobInvStep DEF Jobs
<1>3. TypeInv /\ JobInv /\ [Next]_vars => JobInv'
    BY JobInvStep
<1>4. QED
    BY <1>1, <1>2, <1>3, TypeInvInit, TypeInvStep, PTL
    DEF Spec, OneJobPerAttempt

=============================================================================
