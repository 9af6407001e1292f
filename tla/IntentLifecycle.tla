--------------------------- MODULE IntentLifecycle ---------------------------
(***************************************************************************)
(* What the intent ledger promises, with no passes, locks, crashes or      *)
(* upstream services: rows move only along the lifecycle table, one row    *)
(* per pair and at most Window rows per instance are in flight, and        *)
(* automation stops after MaxAttempts dispatches until an operator grants  *)
(* another.  Sources: state_machine.py (the table), dispatcher.py step 3   *)
(* (the pair), dispatcher.py step 1 (the window), failure.py (the ceiling).*)
(***************************************************************************)
EXTENDS IntentStates, FiniteSets

CONSTANTS Intents,     \* natural keys of one Bazarr instance's ledger
          Sources,     \* source languages discovery may elect
          GroupOf,     \* the title and target language of each intent
          Window,      \* rows that may be in flight at once
          MaxAttempts  \* dispatches before an intent is quarantined

VARIABLES state,     \* the row's lifecycle state, or Absent
          source,    \* the elected source language
          attempts,  \* dispatched events recorded for the row
          granted    \* manual retries recorded for the row

vars == <<state, source, attempts, granted>>

InFlight == {i \in Intents : state[i] \in InFlightStates}

Pair(i) == <<GroupOf[i], source[i]>>

Init ==
  /\ state = [i \in Intents |-> Absent]
  /\ source \in [Intents -> Sources]
  /\ attempts = [i \in Intents |-> 0]
  /\ granted = [i \in Intents |-> 0]

(* Wants become rows, and rows that are not in flight may get a new source. *)
Discover ==
  /\ \E new \in SUBSET {i \in Intents : state[i] = Absent} :
       state' = [i \in Intents |-> IF i \in new THEN "eligible" ELSE state[i]]
  /\ source' \in [Intents -> Sources]
  /\ \A i \in Intents :
       state[i] \in InFlightStates \cup TerminalStates => source'[i] = source[i]
  /\ UNCHANGED <<attempts, granted>>

Dispatch(i) ==
  /\ CanTransition(state[i], "dispatched")
  /\ \A j \in InFlight : Pair(j) # Pair(i)
  /\ Cardinality(InFlight) < Window
  /\ attempts[i] < MaxAttempts + granted[i]
  /\ state' = [state EXCEPT ![i] = "dispatched"]
  /\ attempts' = [attempts EXCEPT ![i] = @ + 1]
  /\ UNCHANGED <<source, granted>>

(* Any other automated edge; a failure is retried below the ceiling only.   *)
Advance(i) ==
  /\ \E to \in Transitions[state[i]] \ {"dispatched"} :
       /\ to = "retry_eligible" => attempts[i] < MaxAttempts
       /\ to = "quarantined" => attempts[i] >= MaxAttempts
       /\ state' = [state EXCEPT ![i] = to]
  /\ UNCHANGED <<source, attempts, granted>>

Manual(i) ==
  /\ \E to \in IntentState :
       /\ CanManualTransition(state[i], to)
       /\ state' = [state EXCEPT ![i] = to]
       /\ granted' = IF to = "eligible" THEN [granted EXCEPT ![i] = @ + 1]
                                        ELSE granted
  /\ UNCHANGED <<source, attempts>>

Next ==
  \/ Discover
  \/ \E i \in Intents :
       state[i] # Absent /\ (Dispatch(i) \/ Advance(i) \/ Manual(i))

Spec == Init /\ [][Next]_vars
=============================================================================
