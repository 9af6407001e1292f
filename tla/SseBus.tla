------------------------------- MODULE SseBus -------------------------------
(***************************************************************************)
(* The in-process event bus of the UI: publish puts an event into the      *)
(* bounded queue of every subscriber whose topics match, and drops the     *)
(* oldest event of a full queue.  publish has no await, so that it is one  *)
(* step.                                                                   *)
(***************************************************************************)
EXTENDS Naturals, Sequences

CONSTANTS
  Subscribers,  \* open /api/v1/events connections
  Topics,       \* what is published
  PrefixesOf,   \* PrefixesOf[t]: t and its dotted prefixes
  Filters,      \* the subscriptions made: sets of prefixes, or AllTopics
  AllTopics, Closed,
  QueueLimit,   \* _QUEUE_LIMIT
  MaxEvents     \* bound on published events

ASSUME SseBusAssumption ==
  /\ QueueLimit \in Nat \ {0} /\ MaxEvents \in Nat
  /\ Closed \notin Filters

VARIABLES
  filter,       \* filter[s]: the topics of s, or Closed
  queue,        \* queue[s]: the ids of the events that wait for s
  nextEventId,  \* _next_event_id
  published,    \* history: the events for s since it subscribed
  received      \* history: the last event s was given, 0 before the first

busVars == <<filter, queue, nextEventId, published, received>>

\* _matches, and the subscription without topics
Matches(t, f) == f = AllTopics \/ PrefixesOf[t] \cap f # {}

Listening(t) == {s \in Subscribers : filter[s] # Closed /\ Matches(t, filter[s])}

\* Mutant of Enqueue: a full queue drops the newest event.
EnqueueDroppingNewest(q, e) == IF Len(q) < QueueLimit THEN Append(q, e) ELSE q

\* queue.full(), get_nowait(), put_nowait()
Enqueue(q, e) == Append(IF Len(q) < QueueLimit THEN q ELSE Tail(q), e)

Publish(t) ==
  /\ nextEventId < MaxEvents
  /\ nextEventId' = nextEventId + 1
  /\ queue' = [s \in Subscribers |-> IF s \in Listening(t)
                                     THEN Enqueue(queue[s], nextEventId')
                                     ELSE queue[s]]
  /\ published' = [s \in Subscribers |-> IF s \in Listening(t)
                                         THEN Append(published[s], nextEventId')
                                         ELSE published[s]]
  /\ UNCHANGED <<filter, received>>

\* stream: a queue of its own from the first request on, gone with it.
Subscribe(s, f) ==
  /\ filter[s] = Closed
  /\ filter' = [filter EXCEPT ![s] = f]
  /\ UNCHANGED <<queue, nextEventId, published, received>>

Deliver(s) ==
  /\ queue[s] # << >>
  /\ queue' = [queue EXCEPT ![s] = Tail(@)]
  /\ received' = [received EXCEPT ![s] = Head(queue[s])]
  /\ UNCHANGED <<filter, nextEventId, published>>

Unsubscribe(s) ==
  /\ filter[s] # Closed
  /\ filter' = [filter EXCEPT ![s] = Closed]
  /\ queue' = [queue EXCEPT ![s] = << >>]
  /\ published' = [published EXCEPT ![s] = << >>]
  /\ received' = [received EXCEPT ![s] = 0]
  /\ UNCHANGED nextEventId

BusInit ==
  /\ filter = [s \in Subscribers |-> Closed]
  /\ queue = [s \in Subscribers |-> << >>]
  /\ nextEventId = 0
  /\ published = [s \in Subscribers |-> << >>]
  /\ received = [s \in Subscribers |-> 0]

BusNext == \/ \E t \in Topics : Publish(t)
           \/ \E s \in Subscribers : \/ \E f \in Filters : Subscribe(s, f)
                                     \/ Deliver(s) \/ Unsubscribe(s)

BusSpec == BusInit /\ [][BusNext]_busVars

-----------------------------------------------------------------------------
\* "Bounded fan-out": no queue outgrows its limit, and events keep their order
\* of publication.
BusTypeOK ==
  /\ filter \in [Subscribers -> Filters \cup {Closed}]
  /\ nextEventId \in 0..MaxEvents
  /\ \A s \in Subscribers :
       /\ Len(queue[s]) <= QueueLimit
       /\ published[s] \in Seq(1..MaxEvents)
       /\ queue[s] \in Seq(1..MaxEvents)
       /\ received[s] \in 0..nextEventId

\* The place in its log of the event a subscriber was given last.
Place(s) == IF received[s] = 0 THEN 0
            ELSE CHOOSE k \in 1..Len(published[s]) : published[s][k] = received[s]

\* "Slow consumer: drop the oldest event": the queue and its overflow are the
\* abstract feed, in which what is lost is what lies too far behind.
Feed == INSTANCE LossyFeed WITH log <- published,
                                at <- [s \in Subscribers |-> Place(s)],
                                given <- received
FeedSpec == Feed!Spec
=============================================================================
