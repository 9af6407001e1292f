------------------------------ MODULE LossyFeed ------------------------------
(***************************************************************************)
(* What a subscriber of the event bus may rely on: events come in the      *)
(* order of publication, none twice, and only those are lost that lie more *)
(* than QueueLimit behind.  There is no queue here, only a log and the     *)
(* place each subscriber has reached in it.                                *)
(***************************************************************************)
EXTENDS Naturals, Sequences

CONSTANTS Subscribers, QueueLimit

VARIABLES
  log,    \* log[s]: the events for s since it subscribed, oldest first
  at,     \* at[s]: how far s has read
  given   \* given[s]: the event s was given last, 0 before the first

feedVars == <<log, at, given>>

\* The place of the next event a subscriber gets.
NextPlace(s) == IF Len(log[s]) > at[s] + QueueLimit THEN Len(log[s]) - QueueLimit + 1
                                                    ELSE at[s] + 1

Init == /\ log = [s \in Subscribers |-> << >>]
        /\ at = [s \in Subscribers |-> 0]
        /\ given = [s \in Subscribers |-> 0]

\* One event is appended to some of the logs.
Publish == /\ \A s \in Subscribers :
                \/ log'[s] = log[s]
                \/ /\ Len(log'[s]) = Len(log[s]) + 1
                   /\ log'[s] = Append(log[s], log'[s][Len(log[s]) + 1])
           /\ UNCHANGED <<at, given>>

Deliver(s) == /\ NextPlace(s) <= Len(log[s])
              /\ at' = [at EXCEPT ![s] = NextPlace(s)]
              /\ given' = [given EXCEPT ![s] = log[s][NextPlace(s)]]
              /\ UNCHANGED log

\* A connection that ends takes its place in the log with it.
Leave(s) == /\ log' = [log EXCEPT ![s] = << >>]
            /\ at' = [at EXCEPT ![s] = 0]
            /\ given' = [given EXCEPT ![s] = 0]

Next == Publish \/ \E s \in Subscribers : Deliver(s) \/ Leave(s)

Spec == Init /\ [][Next]_feedVars
=============================================================================
