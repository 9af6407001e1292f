----------------------- MODULE DispatchRefinementProofs -----------------------
(***************************************************************************)
(* While no operator interferes and the policy elects one source, the      *)
(* passes of DispatchCycle implement IntentLifecycle: every step is a step *)
(* of the abstract ledger or leaves it as it is.                           *)
(***************************************************************************)
EXTENDS DispatchCycleProofs

Unattended == Operators = {}

-----------------------------------------------------------------------------
(* The step simulation.                                                    *)

\* The abstract ledger's table, rows and pairs are those of DispatchCycle.
LEMMA SameLedger ==
  /\ Lifecycle!Transitions = Transitions /\ Lifecycle!Absent = Absent
  /\ Lifecycle!InFlight = InFlight
  /\ \A i : Lifecycle!Pair(i) = Pair(i)
BY DEF Lifecycle!Transitions, Transitions, Lifecycle!Absent, Absent,
       Lifecycle!InFlight, InFlight, Lifecycle!InFlightStates, InFlightStates,
       Lifecycle!Pair, Pair

\* Counting is counting, in either module.
LEMMA SameCardinality == \A S : Lifecycle!Cardinality(S) = Cardinality(S)
BY Zenon DEF Lifecycle!Cardinality, Cardinality

\* A move along an edge that is not a dispatch is a step of the ledger.
LEMMA AdvanceStep ==
  ASSUME NEW i \in Intents, state[i] # Absent,
         NEW to \in Transitions[state[i]] \ {"dispatched"},
         to = "retry_eligible" => attempts[i] < MaxAttempts,
         to = "quarantined" => attempts[i] >= MaxAttempts,
         state' = [state EXCEPT ![i] = to],
         UNCHANGED <<source, attempts, granted>>
  PROVE  Lifecycle!Next
<1>1. Lifecycle!Advance(i)
    BY SameLedger DEF Lifecycle!Advance
<1>2. QED
    BY <1>1, SameLedger DEF Lifecycle!Next

StepInv == TypeInv /\ RoomInv /\ PairInv /\ CeilingInv /\ RowsInv

LedgerStep == [Lifecycle!Next]_(Lifecycle!vars)

\* Every step of the passes is a step of the abstract ledger or a stutter.
LEMMA SimulationStep ==
  ASSUME OneSource, Unattended PROVE StepInv /\ [Next]_vars => LedgerStep
<1> SUFFICES ASSUME StepInv, TypeInv', [Next]_vars PROVE LedgerStep
    BY TypeInvStep DEF StepInv
<1> USE DEF StepInv, TypeInv, TypeOK, LedgerStep, Lifecycle!vars, NoRowChanges, ledger
<1>1. CASE BeginDiscovery
    BY <1>1 DEF BeginDiscovery
<1>2. CASE CommitBatch
    <2>1. \A i \in Intents : source'[i] = source[i]
        BY DEF OneSource, TypeInv, TypeOK
    <2>2. /\ \E new \in SUBSET {i \in Intents : state[i] = Absent} :
               state' = [i \in Intents |-> IF i \in new THEN "eligible" ELSE state[i]]
          /\ UNCHANGED <<attempts, granted>>
        BY <1>2 DEF CommitBatch
    <2>3. Lifecycle!Discover
        BY <2>1, <2>2, SameLedger DEF Lifecycle!Discover
    <2>4. QED
        BY <2>3 DEF Lifecycle!Next
<1>3. CASE LoadWithdrawable
    BY <1>3 DEF LoadWithdrawable
<1>4. ASSUME NEW i \in Intents, Withdraw(i) PROVE LedgerStep
    <2>1. i \in Intents /\ state[i] \in Withdrawable /\ state' = [state EXCEPT ![i] = "superseded"]
        BY <1>4 DEF Withdraw, Moves, RowsInv, ListIsCurrent, Rows
    <2>2. state[i] # Absent /\ "superseded" \in Transitions[state[i]]
        BY <2>1, Edges DEF Withdrawable, BacklogStates, Absent
    <2>3. UNCHANGED <<source, attempts, granted>>
        BY <1>4 DEF Withdraw
    <2>4. QED
        BY <2>1, <2>2, <2>3, AdvanceStep
<1>5. CASE BeginReconcile
    BY <1>5 DEF BeginReconcile
<1>6. CASE ReadMetadata
    BY <1>6 DEF ReadMetadata
<1>7. ASSUME NEW i \in Intents, Reconcile(i) PROVE LedgerStep
    <2>1. i \in Intents /\ state[i] \in BacklogStates /\ state' = [state EXCEPT ![i] = "superseded"]
        BY <1>7 DEF Reconcile, Moves, RowsInv, ListIsCurrent, Rows
    <2>2. state[i] # Absent /\ "superseded" \in Transitions[state[i]]
        BY <2>1, Edges DEF Withdrawable, BacklogStates, Absent
    <2>3. UNCHANGED <<source, attempts, granted>>
        BY <1>7 DEF Reconcile
    <2>4. QED
        BY <2>1, <2>2, <2>3, AdvanceStep
<1>8. CASE BeginDispatch
    BY <1>8 DEF BeginDispatch
<1>9. CASE ReadLingarr
    BY <1>9 DEF ReadLingarr
<1>10. CASE LoadCandidates
    BY <1>10 DEF LoadCandidates
<1>11. ASSUME NEW i \in Intents, SkipCandidate(i) PROVE LedgerStep
    BY <1>11 DEF SkipCandidate
<1>12. ASSUME NEW i \in Intents, GuardSupersedes(i) PROVE LedgerStep
    <2>1. i \in Intents /\ state[i] \in BacklogStates /\ state' = [state EXCEPT ![i] = "superseded"]
        BY <1>12 DEF GuardSupersedes, Moves, RowsInv, ListIsCurrent, Rows,
           BacklogStates
    <2>2. state[i] # Absent /\ "superseded" \in Transitions[state[i]]
        BY <2>1, Edges DEF Withdrawable, BacklogStates, Absent
    <2>3. UNCHANGED <<source, attempts, granted>>
        BY <1>12 DEF GuardSupersedes
    <2>4. QED
        BY <2>1, <2>2, <2>3, AdvanceStep
<1>13. ASSUME NEW i \in Intents, RecordDispatched(i) PROVE LedgerStep
    <2>1. /\ pc = "dispatch" /\ i \in todo /\ room > 0 /\ Pair(i) \notin held
          /\ state' = [state EXCEPT ![i] = "dispatched"]
          /\ attempts' = [attempts EXCEPT ![i] = @ + 1]
          /\ UNCHANGED <<source, granted>>
        BY <1>13 DEF RecordDispatched, Moves
    <2>2. state[i] = "eligible" /\ HasAttemptLeft(i)
        BY <2>1 DEF RowsInv, ListIsCurrent, Rows, CeilingInv, CandidatesMayGo
    <2>3. \A j \in InFlight : Pair(j) # Pair(i)
        BY <2>1 DEF PairInv
    <2>4. Cardinality(InFlight) < Window
        BY <2>1, InFlightCount DEF RoomInv
    <2>5. Lifecycle!CanTransition(state[i], "dispatched")
        BY <2>2, Edges, SameLedger DEF Lifecycle!CanTransition
    <2>6. Lifecycle!Dispatch(i)
        BY <2>1, <2>2, <2>3, <2>4, <2>5, SameLedger, SameCardinality
        DEF Lifecycle!Dispatch, HasAttemptLeft
    <2>7. QED
        BY <2>2, <2>6, SameLedger DEF Lifecycle!Next, Absent
<1>14. CASE PatchAccepted
    BY <1>14 DEF PatchAccepted
<1>15. CASE PatchFails
    <2>1. /\ cur \in Intents /\ state[cur] = "dispatched"
          /\ state' = [state EXCEPT ![cur] = "failed"]
          /\ UNCHANGED <<source, attempts, granted>>
        BY <1>15 DEF PatchFails, RowsInv, RowIsCurrent
    <2>2. QED
        BY <2>1, Edges, AdvanceStep DEF Absent
<1>16. CASE BeginVerify
    BY <1>16 DEF BeginVerify
<1>17. CASE LoadInFlight
    BY <1>17 DEF LoadInFlight
<1>18. ASSUME NEW i \in Intents, Observe(i) PROVE LedgerStep
    BY <1>18 DEF Observe
<1>19. CASE Settle
    <2>1. /\ cur \in Intents /\ state[cur] = "dispatched"
          /\ UNCHANGED <<source, attempts, granted>>
        BY <1>19 DEF Settle, RowsInv, RowIsCurrent
    <2>2. PICK to \in {"converged", "superseded", "failed"} :
            state' = [state EXCEPT ![cur] = to]
        BY <1>19 DEF Settle, Moves
    <2>3. QED
        BY <2>1, <2>2, Edges, AdvanceStep DEF Absent
<1>20. CASE Reroute
    <2>1. /\ cur \in Intents /\ state[cur] = "failed"
          /\ UNCHANGED <<source, attempts, granted>>
        BY <1>20 DEF Reroute, RowsInv, RowIsCurrent
    <2>2. CASE verdict \in {"retry_provider", "retry_transient"}
        <3>1. state' = [state EXCEPT ![cur] = "retry_eligible"]
            BY <1>20, <2>2 DEF Reroute, Moves
        <3>2. attempts[cur] < MaxAttempts
            BY <1>20, <2>2 DEF Reroute, CeilingInv, RetriesMayGo
        <3>3. QED
            BY <2>1, <3>1, <3>2, Edges, AdvanceStep DEF Absent
    <2>3. CASE verdict \in {"quarantine_provider", "quarantine_poison"}
        <3>1. state' = [state EXCEPT ![cur] = "quarantined"]
            BY <1>20, <2>3 DEF Reroute, Moves
        <3>2. attempts[cur] >= MaxAttempts
            BY <1>20, <2>3 DEF Reroute, RowsInv, VerdictIsCurrent
        <3>3. QED
            BY <2>1, <3>1, <3>2, Edges, AdvanceStep DEF Absent
    <2>4. QED
        BY <1>20, <2>2, <2>3 DEF Reroute, RowsInv, VerdictIsCurrent, Outcomes
<1>21. CASE LoadRetries
    BY <1>21 DEF LoadRetries
<1>22. ASSUME NEW i \in Intents, Promote(i) PROVE LedgerStep
    <2>1. /\ state[i] = "retry_eligible"
          /\ state' = [state EXCEPT ![i] = "eligible"]
          /\ UNCHANGED <<source, attempts, granted>>
        BY <1>22 DEF Promote, Moves, RowsInv, ListIsCurrent, Rows
    <2>2. QED
        BY <2>1, Edges, AdvanceStep DEF Absent
<1>23. CASE EndPass
    BY <1>23 DEF EndPass
<1>24. ASSUME NEW j \in queue \cup working, StartJob(j) PROVE LedgerStep
    BY <1>24 DEF StartJob
<1>25. ASSUME NEW j \in queue \cup working, SaveTranslation(j) PROVE LedgerStep
    BY <1>25 DEF SaveTranslation
<1>26. ASSUME NEW j \in queue \cup working, FailTranslation(j) PROVE LedgerStep
    BY <1>26 DEF FailTranslation
<1>27. ASSUME NEW j \in queue \cup working, LoseJob(j) PROVE LedgerStep
    BY <1>27 DEF LoseJob
<1>28. ASSUME NEW i \in Intents, AppearsByOtherMeans(i) PROVE LedgerStep
    BY <1>28 DEF AppearsByOtherMeans
<1>29. ASSUME NEW p \in Pairs, ForeignRequest(p) PROVE LedgerStep
    BY <1>29 DEF ForeignRequest
<1>30. ASSUME NEW i \in Intents, TimerRuns(i) PROVE LedgerStep
    BY <1>30 DEF TimerRuns
<1>31. ASSUME NEW i \in Intents, WantDisappears(i) PROVE LedgerStep
    BY <1>31 DEF WantDisappears
<1>32. CASE Restart
    BY <1>32 DEF Restart
<1>33. CASE UNCHANGED vars
    BY <1>33 DEF vars
<1>34. QED
    BY <1>1, <1>2, <1>3, <1>4, <1>5, <1>6, <1>7, <1>8, <1>9, <1>10, <1>11,
       <1>12, <1>13, <1>14, <1>15, <1>16, <1>17, <1>18, <1>19, <1>20, <1>21,
       <1>22, <1>23, <1>24, <1>25, <1>26, <1>27, <1>28, <1>29, <1>30, <1>31,
       <1>32, <1>33
    DEF Next, Discovery, Reconciliation, Dispatch, Verification, OperatorSteps,
        Upstream, Environment, Unattended

\* Unattended, the passes implement the lifecycle for every number of intents,
\* every window, ceiling and choice of faults.
THEOREM Implements ==
  ASSUME OneSource, Unattended PROVE Spec => LifecycleSpec
<1>1. Init => StepInv /\ Lifecycle!Init
    <2>1. Init => TypeInv /\ RoomInv /\ PairInv /\ CeilingInv
        BY TypeInvInit, RoomInvInit, PairInvInit, CeilingInvInit
    <2>2. Init => RowsInv
        BY RowsInvInit
    <2>3. Init => Lifecycle!Init
        BY SameLedger DEF Init, Lifecycle!Init
    <2>4. QED
        BY <2>1, <2>2, <2>3 DEF StepInv
<1>2. StepInv /\ [Next]_vars => StepInv'
    BY TypeInvStep, RoomInvStep, PairInvStep, CeilingInvStep, RowsInvStep,
       OneSource, Unattended DEF StepInv, Unattended, NoRetries
<1>3. StepInv /\ [Next]_vars => [Lifecycle!Next]_(Lifecycle!vars)
    BY SimulationStep, OneSource, Unattended DEF LedgerStep
<1>4. QED
    BY <1>1, <1>2, <1>3, PTL DEF Spec, LifecycleSpec, Lifecycle!Spec
=============================================================================
