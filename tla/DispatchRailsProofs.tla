-------------------------- MODULE DispatchRailsProofs --------------------------
(***************************************************************************)
(* Proofs about DispatchRails for every set of attempts, every caps,       *)
(* budget and threshold, and any number of restarts.                       *)
(***************************************************************************)
EXTENDS DispatchRails, SumsProofs

-----------------------------------------------------------------------------
(* Counting, and the two halves of the types.                              *)

\* One element more or less counts for no more than one.
LEMMA CountOneMore ==
  ASSUME NEW S, IsFiniteSet(S), NEW a
  PROVE  /\ Cardinality(S) \in Nat
         /\ Cardinality(S \cup {a}) \in Nat
         /\ Cardinality(S \cup {a}) <= Cardinality(S) + 1
         /\ Cardinality(S \ {a}) \in Nat
         /\ Cardinality(S \ {a}) <= Cardinality(S)
<1>1. Cardinality(S) \in Nat
    BY FS_CardinalityType
<1>2. /\ IsFiniteSet(S \cup {a}) /\ IsFiniteSet(S \ {a})
      /\ Cardinality(S \cup {a}) =
           IF a \in S THEN Cardinality(S) ELSE Cardinality(S) + 1
      /\ Cardinality(S \ {a}) =
           IF a \in S THEN Cardinality(S) - 1 ELSE Cardinality(S)
    BY FS_AddElement, FS_RemoveElement, Zenon
<1>3. Cardinality(S \cup {a}) \in Nat /\ Cardinality(S \ {a}) \in Nat
    BY <1>2, FS_CardinalityType, Zenon
<1>4. QED
    BY <1>1, <1>2, <1>3

\* What the steps need to know of the constants.
LEMMA Parameters ==
  /\ Threshold \in Nat /\ Threshold > 0
  /\ MaxFailures \in Nat /\ MaxRestarts \in Nat
  /\ \A h \in Horizons : Cap[h] \in Nat
  /\ None \notin Attempts
BY DispatchRailsAssumption

\* The flags, and the moment a pass goes by.
FlagsOK ==
  /\ probeDue \in BOOLEAN /\ paused \in BOOLEAN /\ windowOpen \in BOOLEAN
  /\ probing \in BOOLEAN
  /\ moment \in [probeDue : BOOLEAN, windowOpen : BOOLEAN]

\* The other variables.
RowsOK ==
  /\ row \in [Attempts -> {"eligible", "in_flight", "closed"}]
  /\ recent \in [Horizons -> SUBSET Attempts]
  /\ breaker \in {"closed", "open", "half_open"}
  /\ failures \in 0..MaxFailures
  /\ pc \in {"idle", "dispatch", "guard", "patch", "mark", "verify", "feed"}
  /\ todo \subseteq Attempts
  /\ IF pc \in {"guard", "patch", "mark"} THEN cur \in Attempts ELSE cur = None
  /\ outcome \in {"none", "converged", "provider"}
  /\ leaked \subseteq Attempts
  /\ restarts \in 0..MaxRestarts

\* The type invariant, in the two parts the proofs use.
LEMMA TypeHalves == TypeOK <=> FlagsOK /\ RowsOK
BY Zenon DEF TypeOK, FlagsOK, RowsOK

\* What a horizon holds can be counted, and ages or grows by one event.
LEMMA RecentCount ==
  ASSUME RowsOK, NEW h \in Horizons
  PROVE  /\ Cardinality(recent[h]) \in Nat
         /\ \A a \in Attempts :
              /\ Cardinality(recent[h] \cup {a}) \in Nat
              /\ Cardinality(recent[h] \cup {a}) <= Cardinality(recent[h]) + 1
              /\ Cardinality(recent[h] \ {a}) \in Nat
              /\ Cardinality(recent[h] \ {a}) <= Cardinality(recent[h])
<1>1. recent[h] \in SUBSET Attempts
    BY DEF RowsOK
<1>2. IsFiniteSet(recent[h])
    BY <1>1, FS_Subset, DispatchRailsAssumption, Zenon
<1>3. QED
    BY <1>2, CountOneMore, Zenon

\* What stands for no pass has the type of one.
LEMMA NoPassType == NoPass \in [probeDue : BOOLEAN, windowOpen : BOOLEAN]
BY Zenon DEF NoPass

\* The flags are typed at the start.
LEMMA FlagsInit == Init => FlagsOK
BY NoPassType DEF Init, FlagsOK

\* The flags stay flags.
LEMMA FlagsStep == FlagsOK /\ [Next]_vars => FlagsOK'
<1> SUFFICES ASSUME FlagsOK, [Next]_vars PROVE FlagsOK'
    OBVIOUS
<1>1. ASSUME Ends, UNCHANGED <<circuit, control>> PROVE FlagsOK'
    BY <1>1, NoPassType DEF FlagsOK, Ends, circuit, control
<1>2. CASE BeginDispatch
    <2>1. moment' \in [probeDue : BOOLEAN, windowOpen : BOOLEAN]
        BY <1>2, Zenon DEF BeginDispatch, FlagsOK
    <2>2. QED
        BY <1>2, <2>1 DEF BeginDispatch, FlagsOK, circuit, control
<1>3. CASE PatchFails \/ EndPass \/ Restart
    BY <1>1, <1>3 DEF PatchFails, EndPass, Restart
<1>4. ASSUME NEW a \in Attempts, Admit(a) \/ StillWaiting(a) \/ Settle(a)
      PROVE FlagsOK'
    BY <1>4 DEF Admit, StillWaiting, Settle, FlagsOK, circuit, control
<1>5. CASE GuardStops \/ RecordDispatched \/ PatchAccepted \/ MarkProbe \/ Feed
    BY <1>5 DEF GuardStops, RecordDispatched, PatchAccepted, MarkProbe, Feed,
       FlagsOK, circuit, control
<1>6. CASE BeginVerify \/ SetPaused \/ WindowFlips \/ ProbeIntervalElapses
    BY <1>6 DEF BeginVerify, SetPaused, WindowFlips, ProbeIntervalElapses,
       FlagsOK, circuit, control, pass
<1>7. ASSUME NEW h \in Horizons, NEW a \in Attempts, EventAges(h, a)
      PROVE FlagsOK'
    BY <1>7 DEF EventAges, FlagsOK, circuit, control, pass
<1>8. CASE UNCHANGED vars
    BY <1>8 DEF vars, FlagsOK, circuit, control, pass
<1>9. QED
    BY <1>2, <1>3, <1>4, <1>5, <1>6, <1>7, <1>8 DEF Next, PassStep

-----------------------------------------------------------------------------
(* The inductive invariant.                                                *)

\* A candidate between its admission and its record was admitted with room in
\* every horizon, and not since a pause.
AdmittedInside ==
  pc = "guard" => /\ \A h \in Horizons : Cardinality(recent[h]) < Cap[h]
                  /\ leaked = {}

\* The breaker is closed exactly while the streak is below its threshold.
ClosedBelowThreshold == breaker = "closed" <=> failures < Threshold

\* A probe is on its way only from an open breaker, and what is no probe only
\* from a closed one; after the PATCH only a probe is left to be marked.
ProbesFromOpen ==
  /\ pc = "mark" => probing
  /\ pc \in {"guard", "patch", "mark"} =>
       IF probing THEN breaker = "open" ELSE breaker = "closed"

\* Nothing leaks while dispatch is not paused, and no more than one row does.
LeakIsBounded ==
  /\ ~ paused => leaked = {}
  /\ leaked = {} \/ \E a \in Attempts : leaked = {a}

RailsInv ==
  /\ RowsOK /\ VolumeCapsHold
  /\ AdmittedInside /\ ClosedBelowThreshold /\ ProbesFromOpen /\ LeakIsBounded

\* The untouched rails satisfy the invariant.
LEMMA RailsInvInit == Init => RailsInv
<1> SUFFICES ASSUME Init PROVE RailsInv
    OBVIOUS
<1>1. RowsOK
    BY Parameters DEF Init, RowsOK
<1>2. VolumeCapsHold
    BY Parameters, FS_EmptySet DEF Init, VolumeCapsHold
<1>3. QED
    BY <1>1, <1>2, Parameters
       DEF Init, RailsInv, AdmittedInside, ClosedBelowThreshold, ProbesFromOpen,
           LeakIsBounded

\* No step of a pass, an operator, the clock or a restart breaks it.
LEMMA RailsInvStep == RailsInv /\ FlagsOK /\ [Next]_vars => RailsInv'
<1> SUFFICES ASSUME RailsInv, FlagsOK, [Next]_vars PROVE RailsInv'
    OBVIOUS
<1> USE Parameters
        DEF RailsInv, RowsOK, VolumeCapsHold, AdmittedInside,
            ClosedBelowThreshold, ProbesFromOpen, LeakIsBounded,
            control, circuit, pass
<1>1. CASE BeginDispatch
    BY <1>1 DEF BeginDispatch
<1>2. ASSUME NEW a \in Attempts, Admit(a) PROVE RailsInv'
    BY <1>2 DEF Admit, Allowed, BreakerAdmits, WithinCaps
<1>3. CASE GuardStops
    BY <1>3 DEF GuardStops
<1>4. CASE RecordDispatched
    <2>1. cur \in Attempts
        BY <1>4 DEF RecordDispatched
    <2>2. \A h \in Horizons : /\ recent'[h] = recent[h] \cup {cur}
                              /\ recent'[h] \in SUBSET Attempts
        BY <1>4, <2>1 DEF RecordDispatched
    <2>3. VolumeCapsHold'
        <3>1. SUFFICES ASSUME NEW h \in Horizons
                       PROVE Cardinality(recent'[h]) <= Cap[h]
            OBVIOUS
        <3>2. Cardinality(recent[h]) < Cap[h]
            BY <1>4 DEF RecordDispatched
        <3>3. Cardinality(recent[h]) \in Nat
            BY RecentCount
        <3>4. Cardinality(recent[h] \cup {cur}) \in Nat
              /\ Cardinality(recent[h] \cup {cur}) <= Cardinality(recent[h]) + 1
            BY <2>1, RecentCount
        <3>5. Cardinality(recent'[h]) = Cardinality(recent[h] \cup {cur})
            BY <2>2, Zenon
        <3>6. Cap[h] \in Nat
            OBVIOUS
        <3>7. QED
            BY ONLY <3>2, <3>3, <3>4, <3>5, <3>6
    <2>4. LeakIsBounded'
        BY <1>4, <2>1 DEF RecordDispatched
    <2>5. RowsOK'
        BY <1>4, <2>1 DEF RecordDispatched
    <2>6. QED
        BY <1>4, <2>3, <2>4, <2>5 DEF RecordDispatched
<1>5. CASE PatchAccepted
    BY <1>5 DEF PatchAccepted
<1>6. CASE PatchFails
    BY <1>6 DEF PatchFails, Ends
<1>7. CASE MarkProbe
    BY <1>7 DEF MarkProbe
<1>8. CASE BeginVerify
    BY <1>8 DEF BeginVerify, InFlight
<1>9. ASSUME NEW a \in Attempts, StillWaiting(a) PROVE RailsInv'
    BY <1>9 DEF StillWaiting
<1>10. ASSUME NEW a \in Attempts, Settle(a) PROVE RailsInv'
    BY <1>10 DEF Settle
<1>11. CASE Feed
    <2>1. CASE outcome = "converged"
        BY <1>11, <2>1 DEF Feed
    <2>2. CASE outcome # "converged"
        BY <1>11, <2>2 DEF Feed
    <2>3. QED
        BY <2>1, <2>2
<1>12. CASE EndPass
    BY <1>12 DEF EndPass, Ends
<1>13. CASE SetPaused
    BY <1>13 DEF SetPaused
<1>14. CASE WindowFlips
    BY <1>14 DEF WindowFlips
<1>15. ASSUME NEW h \in Horizons, NEW a \in Attempts, EventAges(h, a)
       PROVE RailsInv'
    <2>1. recent' \in [Horizons -> SUBSET Attempts]
        BY <1>15 DEF EventAges
    <2>2. \A k \in Horizons : recent'[k] = recent[k] \/ recent'[k] = recent[k] \ {a}
        BY <1>15 DEF EventAges
    <2>3. \A k \in Horizons : /\ Cardinality(recent[k]) \in Nat
                              /\ Cardinality(recent'[k]) \in Nat
                              /\ Cardinality(recent'[k]) <= Cardinality(recent[k])
        <3>1. SUFFICES ASSUME NEW k \in Horizons
                       PROVE  /\ Cardinality(recent[k]) \in Nat
                              /\ Cardinality(recent'[k]) \in Nat
                              /\ Cardinality(recent'[k]) <= Cardinality(recent[k])
            OBVIOUS
        <3>2. /\ Cardinality(recent[k]) \in Nat
              /\ Cardinality(recent[k] \ {a}) \in Nat
              /\ Cardinality(recent[k] \ {a}) <= Cardinality(recent[k])
            BY RecentCount
        <3>3. Cardinality(recent'[k]) \in
                {Cardinality(recent[k]), Cardinality(recent[k] \ {a})}
            BY <2>2, Zenon
        <3>4. QED
            BY <3>2, <3>3
    <2>4. VolumeCapsHold' /\ AdmittedInside'
        BY <1>15, <2>3 DEF EventAges
    <2>5. QED
        BY <1>15, <2>1, <2>4 DEF EventAges
<1>16. CASE ProbeIntervalElapses
    BY <1>16 DEF ProbeIntervalElapses
<1>17. CASE Restart
    BY <1>17 DEF Restart, Ends
<1>18. CASE UNCHANGED vars
    BY <1>18 DEF vars
<1>19. QED
    BY <1>1, <1>2, <1>3, <1>4, <1>5, <1>6, <1>7, <1>8, <1>9, <1>10, <1>11,
       <1>12, <1>13, <1>14, <1>15, <1>16, <1>17, <1>18 DEF Next, PassStep

\* The invariant holds throughout.
LEMMA RailsInvHolds == Spec => [](RailsInv /\ FlagsOK)
BY RailsInvInit, RailsInvStep, FlagsInit, FlagsStep, PTL DEF Spec

-----------------------------------------------------------------------------
(* What follows from it.                                                   *)

\* The rails keep their types (evaluation.py, dispatcher.py, verification.py).
THEOREM RailsTypeCorrect == Spec => []TypeOK
<1>1. RailsInv /\ FlagsOK => TypeOK
    BY TypeHalves DEF RailsInv
<1>2. QED
    BY <1>1, RailsInvHolds, PTL

-----------------------------------------------------------------------------
(* The character budget.                                                   *)

\* What the last day's dispatches cost stays within the budget, and so it will
\* with the candidate that is between its admission and its record.
BudgetInv ==
  /\ Spent(recent["day"]) <= Budget
  /\ pc = "guard" => Spent(recent["day"]) + Cost[cur] <= Budget

\* What a set of attempts costs is a number; an attempt adds its own cost, once,
\* and none is cheaper than nothing.
LEMMA SpentFacts ==
  ASSUME NEW S \in SUBSET Attempts, NEW a \in Attempts
  PROVE  /\ Spent(S) \in Nat
         /\ Spent(S \cup {a}) <= Spent(S) + Cost[a]
         /\ Spent(S \ {a}) <= Spent(S)
<1>1. \A T \in SUBSET Attempts : IsFiniteSet(T) /\ \A x \in T : Cost[x] \in Nat
    BY FS_Subset, DispatchRailsAssumption
<1>2. \A T \in SUBSET Attempts : Spent(T) \in Nat
    BY <1>1, SumType DEF Spent
<1>3. ASSUME NEW T \in SUBSET Attempts, a \in T PROVE Spent(T) = Cost[a] + Spent(T \ {a})
    <2>1. IsFiniteSet(T) /\ \A x \in T : Cost[x] \in Nat
        BY <1>1
    <2>2. QED
        BY <1>3, <2>1, SumSplit DEF Spent
<1>4. S \cup {a} \in SUBSET Attempts /\ (S \cup {a}) \ {a} = S \ {a}
    OBVIOUS
<1>5. Spent(S \cup {a}) = Cost[a] + Spent(S \ {a})
    BY <1>3, <1>4, Zenon
<1>6. Spent(S \ {a}) \in Nat /\ Spent(S) \in Nat /\ Cost[a] \in Nat
    BY <1>2, DispatchRailsAssumption
<1>7. CASE a \in S
    <2>1. Spent(S) = Cost[a] + Spent(S \ {a})
        BY <1>3, <1>7
    <2>2. QED
        BY <1>5, <1>6, <2>1
<1>8. CASE a \notin S
    <2>1. S \ {a} = S
        BY <1>8
    <2>2. QED
        BY <1>5, <1>6, <2>1
<1>9. QED
    BY <1>7, <1>8

\* The day's dispatches grow by a record and shrink as they age, and a candidate
\* comes to its record by an admission only.
DayMoves ==
  \/ /\ UNCHANGED <<recent["day"]>>
     /\ pc' = "guard" => UNCHANGED <<pc, cur>>
  \/ \E a \in Attempts : Admit(a)
  \/ RecordDispatched
  \/ \E a \in Attempts : /\ recent'["day"] = recent["day"] \ {a}
                         /\ UNCHANGED <<pc, cur>>

\* Every step moves the day's dispatches in one of these ways, or not at all.
LEMMA DayStep == RowsOK /\ [Next]_vars => DayMoves
<1> SUFFICES ASSUME RowsOK, [Next]_vars PROVE DayMoves
    OBVIOUS
<1>1. ASSUME NEW h \in Horizons, NEW a \in Attempts, EventAges(h, a) PROVE DayMoves
    <2>1. recent'["day"] = recent["day"] \/ recent'["day"] = recent["day"] \ {a}
        BY <1>1 DEF EventAges, RowsOK, Horizons
    <2>2. QED
        BY <1>1, <2>1 DEF EventAges, DayMoves, pass
<1>2. QED
    BY <1>1
    DEF DayMoves, Next, PassStep, vars, circuit, control, pass, Ends, BeginDispatch,
        GuardStops, PatchAccepted, PatchFails, MarkProbe, BeginVerify, StillWaiting,
        Settle, Feed, EndPass, SetPaused, WindowFlips, ProbeIntervalElapses, Restart

\* At the start nothing is spent.
LEMMA BudgetInvInit == Init => BudgetInv
<1>1. Spent({}) = 0
    BY SumEmpty DEF Spent
<1>2. QED
    BY <1>1, DispatchRailsAssumption DEF Init, BudgetInv, Horizons

\* An admission asks the budget, and a record uses what was asked for.
LEMMA BudgetInvStep == RowsOK /\ BudgetInv /\ [Next]_vars => BudgetInv'
<1> SUFFICES ASSUME RowsOK, BudgetInv, [Next]_vars PROVE BudgetInv'
    OBVIOUS
<1>1. recent["day"] \in SUBSET Attempts
    BY DEF RowsOK, Horizons
<1>2. CASE UNCHANGED <<recent["day"]>> /\ (pc' = "guard" => UNCHANGED <<pc, cur>>)
    BY <1>2 DEF BudgetInv
<1>3. ASSUME NEW a \in Attempts, Admit(a) PROVE BudgetInv'
    BY <1>3 DEF Admit, Allowed, WithinCaps, BudgetInv
<1>4. CASE RecordDispatched
    <2>1. /\ pc = "guard" /\ pc' = "patch" /\ cur \in Attempts
          /\ recent'["day"] = recent["day"] \cup {cur}
        BY <1>4 DEF RecordDispatched, RowsOK, Horizons
    <2>2. Spent(recent["day"] \cup {cur}) <= Spent(recent["day"]) + Cost[cur]
          /\ Spent(recent["day"] \cup {cur}) \in Nat /\ Spent(recent["day"]) \in Nat
        BY <1>1, <2>1, SpentFacts
    <2>3. QED
        BY <2>1, <2>2, DispatchRailsAssumption DEF BudgetInv
<1>5. ASSUME NEW a \in Attempts, recent'["day"] = recent["day"] \ {a},
             UNCHANGED <<pc, cur>>
      PROVE  BudgetInv'
    <2>1. /\ Spent(recent["day"] \ {a}) <= Spent(recent["day"])
          /\ Spent(recent["day"] \ {a}) \in Nat /\ Spent(recent["day"]) \in Nat
        BY <1>1, SpentFacts
    <2>2. pc = "guard" => Cost[cur] \in Nat
        BY DispatchRailsAssumption DEF RowsOK
    <2>3. QED
        BY <1>5, <2>1, <2>2, DispatchRailsAssumption DEF BudgetInv
<1>6. QED
    BY <1>2, <1>3, <1>4, <1>5, DayStep DEF DayMoves

\* The hourly, daily and weekly caps and the daily budget hold over each rolling
\* horizon, across restarts and interrupted passes (evaluate_admission,
\* _count_since, dispatch_characters_since).
THEOREM CapsAndBudgetHold == Spec => []CapsRespected
<1>1. RailsInv /\ FlagsOK => RowsOK
    BY DEF RailsInv
<1>2. RailsInv /\ BudgetInv => CapsRespected
    BY DEF RailsInv, BudgetInv, CapsRespected
<1>3. QED
    BY <1>1, <1>2, RailsInvHolds, BudgetInvInit, BudgetInvStep, PTL DEF Spec

\* A pause stops the running pass after at most one more record
\* (effective_pause is read for every candidate).
THEOREM PausePrompt == Spec => []PauseIsPrompt
<1>1. RailsInv => PauseIsPrompt
    <2>1. CASE leaked = {}
        BY <2>1, FS_EmptySet DEF PauseIsPrompt
    <2>2. ASSUME NEW a \in Attempts, leaked = {a} PROVE PauseIsPrompt
        BY <2>2, FS_Singleton DEF PauseIsPrompt
    <2>3. QED
        BY <2>1, <2>2 DEF RailsInv, LeakIsBounded
<1>2. QED
    BY <1>1, RailsInvHolds, PTL

\* Only probes leave an open breaker, and nothing a half-open one
\* (breaker_admits, record_dispatched).
THEOREM OnlyProbes == Spec => OnlyProbesWhileTripped
<1>1. ASSUME RailsInv, [Next]_vars
      PROVE [\A a \in Attempts :
               row[a] = "eligible" /\ row'[a] = "in_flight" =>
                 breaker = "closed" \/ (breaker = "open" /\ probing)]_vars
    <2>1. CASE RecordDispatched
        <3>1. pc = "guard"
            BY <2>1 DEF RecordDispatched
        <3>2. IF probing THEN breaker = "open" ELSE breaker = "closed"
            BY <1>1, <3>1 DEF RailsInv, ProbesFromOpen
        <3>3. QED
            BY <3>2, Zenon
    <2>2. ASSUME ~ RecordDispatched, NEW a \in Attempts, row[a] = "eligible"
          PROVE row'[a] # "in_flight"
        BY <1>1, <2>2
           DEF Next, PassStep, vars, control, circuit, pass, RailsInv, RowsOK,
               BeginDispatch, Admit, GuardStops, PatchAccepted, PatchFails,
               MarkProbe, BeginVerify, StillWaiting, Settle, Feed, EndPass,
               SetPaused, WindowFlips, EventAges, ProbeIntervalElapses, Restart
    <2>3. QED
        BY <2>1, <2>2
<1>2. QED
    BY <1>1, RailsInvHolds, PTL DEF Spec, OnlyProbesWhileTripped

\* A streak of Threshold failures never leaves the breaker closed, and only a
\* converged translation closes a tripped one (record_dispatch_result).
THEOREM BreakerTripsAndCloses == Spec => TripsAndCloses
<1>1. ASSUME RailsInv, RailsInv', [Next]_vars
      PROVE [/\ breaker' = "closed" => failures' < Threshold
             /\ breaker # "closed" /\ breaker' = "closed" =>
                  outcome = "converged" /\ failures' = 0]_vars
    <2>1. breaker' = "closed" => failures' < Threshold
        BY <1>1 DEF RailsInv, ClosedBelowThreshold
    <2>2. CASE Feed
        BY <1>1, <2>1, <2>2, DispatchRailsAssumption
           DEF Feed, RailsInv, ClosedBelowThreshold, RowsOK
    <2>3. ASSUME ~ Feed PROVE breaker' # "closed" \/ breaker' = breaker
        BY <1>1, <2>3
           DEF Next, PassStep, vars, control, circuit, pass,
               BeginDispatch, Admit, GuardStops, RecordDispatched, PatchAccepted,
               PatchFails, MarkProbe, BeginVerify, StillWaiting, Settle, EndPass,
               SetPaused, WindowFlips, EventAges, ProbeIntervalElapses, Restart
    <2>4. QED
        BY <2>1, <2>2, <2>3
<1>2. QED
    BY <1>1, RailsInvHolds, PTL DEF Spec, TripsAndCloses
=============================================================================
