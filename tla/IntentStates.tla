---------------------------- MODULE IntentStates ----------------------------
(***************************************************************************)
(* The lifecycle table of a translation intent: the states of a ledger row *)
(* and the edges that automation (Transitions) and operators               *)
(* (ManualTransitions) may take.  Source: modules/intents/state_machine.py *)
(***************************************************************************)
EXTENDS Naturals

IntentState == {"discovered", "eligible", "dispatched", "converged",
                "superseded", "failed", "retry_eligible", "quarantined"}

\* What a natural key has before discovery inserts its ledger row.
Absent == "absent"

Transitions ==
  [ discovered     |-> {"eligible", "superseded"},
    eligible       |-> {"discovered", "dispatched", "superseded"},
    dispatched     |-> {"converged", "superseded", "failed"},
    failed         |-> {"retry_eligible", "quarantined", "superseded"},
    retry_eligible |-> {"eligible", "superseded"},
    converged      |-> {},
    superseded     |-> {},
    quarantined    |-> {} ]

ManualTransitions ==
  [ quarantined |-> {"eligible", "superseded"},
    failed      |-> {"eligible"} ]

BacklogStates  == {"discovered", "eligible", "retry_eligible"}
InFlightStates == {"dispatched"}
TerminalStates == {s \in IntentState : Transitions[s] = {}}

CanTransition(from, to) == to \in Transitions[from]

CanManualTransition(from, to) ==
  /\ from \in DOMAIN ManualTransitions
  /\ to \in ManualTransitions[from]
=============================================================================
