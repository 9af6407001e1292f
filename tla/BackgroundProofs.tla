-------------------------- MODULE BackgroundProofs --------------------------
(***************************************************************************)
(* Proofs about what runs beside the passes, for every value of the        *)
(* constants: event streams, notifications, statistics, watch signals,     *)
(* doctor runs, the rows of the tables.                                    *)
(***************************************************************************)
EXTENDS SseBus, Notifications, StatsRollup, WatchSignals, Doctor,
        DatabaseSchema, SumsProofs

-----------------------------------------------------------------------------
(* SseBus, for every set of subscribers, topics and filters and every      *)
(* limit of a queue: the bounded queues implement LossyFeed.               *)

\* Ids are given in ascending order.
Ascending(log, last) ==
  /\ \A k \in 1..Len(log) : 0 < log[k] /\ log[k] <= last
  /\ \A j, k \in 1..Len(log) : j < k => log[j] < log[k]

\* A queue holds the end of the log, from where its reader is on, up to the limit.
Tracks(log, q, place) ==
  /\ place \in 0..Len(log)
  /\ Len(q) = IF Len(log) - place > QueueLimit THEN QueueLimit ELSE Len(log) - place
  /\ \A k \in 1..Len(q) : q[k] = log[Len(log) - Len(q) + k]

\* The place of the next event: the oldest one within the limit.
After(log, place) == IF Len(log) > place + QueueLimit THEN Len(log) - QueueLimit + 1
                                                      ELSE place + 1

\* The place is that of the event given last.
IsPlace(s, k) ==
  IF received[s] = 0 THEN k = 0
  ELSE k \in 1..Len(published[s]) /\ published[s][k] = received[s]

Typed ==
  /\ filter \in [Subscribers -> Filters \cup {Closed}]
  /\ nextEventId \in Nat
  /\ queue \in [Subscribers -> Seq(Nat)]
  /\ published \in [Subscribers -> Seq(Nat)]
  /\ received \in [Subscribers -> Nat]

\* What each subscriber can rely on.
Follows(s) ==
  /\ Ascending(published[s], nextEventId)
  /\ \E k \in 0..Len(published[s]) :
       IsPlace(s, k) /\ Tracks(published[s], queue[s], k)

BusInv == Typed /\ \A s \in Subscribers : Follows(s)

-----------------------------------------------------------------------------
(* Facts about sequences.                                                  *)

LEMMA LimitType == QueueLimit \in Nat /\ QueueLimit > 0
BY SseBusAssumption

LEMMA AppendFacts ==
  ASSUME NEW q \in Seq(Nat), NEW e \in Nat
  PROVE  /\ Append(q, e) \in Seq(Nat) /\ Len(q) \in Nat
         /\ Len(Append(q, e)) = Len(q) + 1
         /\ \A k \in 1..Len(q) : Append(q, e)[k] = q[k]
         /\ Append(q, e)[Len(q) + 1] = e
OBVIOUS

LEMMA TailFacts ==
  ASSUME NEW q \in Seq(Nat), q # << >>
  PROVE  /\ Tail(q) \in Seq(Nat) /\ Len(q) \in Nat /\ Len(q) > 0
         /\ Len(Tail(q)) = Len(q) - 1
         /\ \A k \in 1..Len(q) - 1 : Tail(q)[k] = q[k + 1]
         /\ Head(q) = q[1]
OBVIOUS

\* An event more in the log and in the queue, or in place of its oldest.
LEMMA EnqueueTracks ==
  ASSUME NEW log \in Seq(Nat), NEW q \in Seq(Nat), NEW place \in Nat, NEW e \in Nat,
         Tracks(log, q, place)
  PROVE  /\ Enqueue(q, e) \in Seq(Nat)
         /\ Tracks(Append(log, e), Enqueue(q, e), place)
<1> DEFINE n == Len(log)
           kept == IF Len(q) < QueueLimit THEN q ELSE Tail(q)
           m == Len(kept)
<1>1. /\ n \in Nat /\ Len(q) \in Nat /\ Len(q) <= n /\ Len(q) <= QueueLimit
      /\ place \in 0..n
      /\ Len(q) = IF n - place > QueueLimit THEN QueueLimit ELSE n - place
      /\ \A k \in 1..Len(q) : q[k] = log[n - Len(q) + k]
    <2>1. n \in Nat /\ Len(q) \in Nat
        OBVIOUS
    <2>2. /\ place \in 0..n
          /\ Len(q) = IF n - place > QueueLimit THEN QueueLimit ELSE n - place
          /\ \A k \in 1..Len(q) : q[k] = log[n - Len(q) + k]
        BY DEF Tracks
    <2> HIDE DEF n
    <2>3. Len(q) <= n /\ Len(q) <= QueueLimit
        BY ONLY <2>1, <2>2, LimitType
    <2>4. QED
        BY <2>1, <2>2, <2>3
<1>2. /\ kept \in Seq(Nat) /\ m \in Nat /\ m <= Len(q)
      /\ m + 1 = IF n + 1 - place > QueueLimit THEN QueueLimit ELSE n + 1 - place
      /\ \A k \in 1..m : kept[k] = log[n - m + k]
    <2>1. CASE Len(q) < QueueLimit
        <3>1. kept = q
            BY <2>1
        <3> HIDE DEF kept, n
        <3>2. m = Len(q)
            BY <3>1
        <3> HIDE DEF m
        <3>3. m + 1 = IF n + 1 - place > QueueLimit THEN QueueLimit ELSE n + 1 - place
            BY ONLY <1>1, <2>1, <3>2, LimitType
        <3>4. \A k \in 1..m : kept[k] = log[n - m + k]
            BY <1>1, <3>1, <3>2
        <3>5. QED
            BY <1>1, <3>1, <3>2, <3>3, <3>4, SMTT(30)
    <2>2. CASE ~ Len(q) < QueueLimit
        <3>1. kept = Tail(q) /\ Len(q) = QueueLimit
            BY <1>1, <2>2, LimitType
        <3>2. q # << >>
            BY <3>1, LimitType
        <3>3. /\ kept \in Seq(Nat) /\ m = Len(q) - 1
              /\ \A k \in 1..Len(q) - 1 : kept[k] = q[k + 1]
            BY <3>1, <3>2, TailFacts
        <3> HIDE DEF kept, n, m
        <3>4. m \in Nat /\ m + 1 = Len(q)
            BY <1>1, <3>1, <3>3, LimitType
        <3>5. \A k \in 1..m + 1 : q[k] = log[n - (m + 1) + k]
            BY <1>1, <3>4
        <3>6. \A k \in 1..m : kept[k] = q[k + 1]
            BY <3>3, <3>4
        <3>7. \A k \in 1..m : kept[k] = log[n - m + k]
            <4>1. SUFFICES ASSUME NEW k \in 1..m PROVE kept[k] = log[n - m + k]
                OBVIOUS
            <4>2. k + 1 \in 1..m + 1 /\ n - (m + 1) + (k + 1) = n - m + k
                BY ONLY <1>1, <3>4, <4>1
            <4>3. kept[k] = q[k + 1]
                BY ONLY <3>6, <4>1
            <4>4. q[k + 1] = log[n - (m + 1) + (k + 1)]
                BY ONLY <3>5, <4>2
            <4>5. QED
                BY ONLY <4>2, <4>3, <4>4
        <3>8. QED
            BY <1>1, <3>1, <3>3, <3>4, <3>7, LimitType
    <2>3. QED
        BY <2>1, <2>2
<1>3. /\ Enqueue(q, e) = Append(kept, e) /\ Append(kept, e) \in Seq(Nat)
      /\ Len(Append(kept, e)) = m + 1
      /\ \A k \in 1..m : Append(kept, e)[k] = kept[k]
      /\ Append(kept, e)[m + 1] = e
    BY <1>2, AppendFacts DEF Enqueue
<1>4. /\ Len(Append(log, e)) = n + 1
      /\ \A k \in 1..n : Append(log, e)[k] = log[k]
      /\ Append(log, e)[n + 1] = e
    BY AppendFacts
<1>5. m <= n
    <2> HIDE DEF m, n
    <2>1. QED
        BY <1>1, <1>2
<1>6. \A k \in 1..m + 1 : Append(kept, e)[k] = Append(log, e)[(n + 1) - (m + 1) + k]
    <2> DEFINE log2 == Append(log, e)
               q2 == Append(kept, e)
    <2>1. /\ q2[m + 1] = e /\ \A k \in 1..m : q2[k] = kept[k]
          /\ log2[n + 1] = e /\ \A k \in 1..n : log2[k] = log[k]
        BY <1>3, <1>4
    <2> HIDE DEF m, n, kept, log2, q2
    <2>2. SUFFICES ASSUME NEW k \in 1..m + 1
                   PROVE q2[k] = log2[(n + 1) - (m + 1) + k]
        BY DEF log2, q2
    <2>3. CASE k = m + 1
        <3>1. (n + 1) - (m + 1) + k = n + 1
            BY ONLY <1>1, <1>2, <2>3
        <3>2. QED
            BY <2>1, <2>3, <3>1
    <2>4. CASE k # m + 1
        <3>1. /\ k \in 1..m /\ n - m + k \in 1..n
              /\ (n + 1) - (m + 1) + k = n - m + k
            BY ONLY <1>1, <1>2, <1>5, <2>2, <2>4
        <3>2. QED
            BY <1>2, <2>1, <3>1
    <2>5. QED
        BY <2>3, <2>4
<1>7. QED
    <2> DEFINE log2 == Append(log, e)
               q2 == Append(kept, e)
    <2>1. Tracks(log2, q2, place)
        <3>1. /\ Len(log2) = n + 1 /\ Len(q2) = m + 1
              /\ \A k \in 1..m + 1 : q2[k] = log2[(n + 1) - (m + 1) + k]
            BY <1>3, <1>4, <1>6
        <3> HIDE DEF log2, q2, m, n, kept
        <3>2. QED
            BY <1>1, <1>2, <3>1 DEF Tracks
    <2>2. QED
        BY <1>3, <2>1

\* What is taken from the queue is the event after the last place, or the oldest
\* one within the limit.
LEMMA DeliverTracks ==
  ASSUME NEW log \in Seq(Nat), NEW q \in Seq(Nat), NEW place \in Nat,
         Tracks(log, q, place), q # << >>
  PROVE  /\ After(log, place) \in 1..Len(log)
         /\ Head(q) = log[After(log, place)]
         /\ Tail(q) \in Seq(Nat)
         /\ Tracks(log, Tail(q), After(log, place))
<1> DEFINE next == After(log, place)
           n == Len(log)
           rest == Tail(q)
           m == Len(rest)
<1>1. /\ rest \in Seq(Nat) /\ m \in Nat /\ Len(q) = m + 1
      /\ \A k \in 1..m : rest[k] = q[k + 1]
      /\ Head(q) = q[1]
    BY TailFacts
<1>2. /\ n \in Nat /\ place \in 0..n
      /\ Len(q) = IF n - place > QueueLimit THEN QueueLimit ELSE n - place
      /\ \A k \in 1..Len(q) : q[k] = log[n - Len(q) + k]
    BY DEF Tracks
<1>3. next = IF n > place + QueueLimit THEN n - QueueLimit + 1 ELSE place + 1
    BY DEF After
<1> HIDE DEF next, n, rest, m
<1>4. \A k \in 1..m : rest[k] = log[n - m + k]
    <2>1. \A k \in 1..m + 1 : q[k] = log[n - (m + 1) + k]
        BY <1>1, <1>2, Zenon
    <2>2. SUFFICES ASSUME NEW k \in 1..m PROVE rest[k] = log[n - m + k]
        OBVIOUS
    <2>3. k + 1 \in 1..m + 1 /\ n - (m + 1) + (k + 1) = n - m + k
        BY ONLY <1>1, <1>2, <2>2
    <2>4. rest[k] = q[k + 1]
        BY ONLY <1>1, <2>2
    <2>5. q[k + 1] = log[n - (m + 1) + (k + 1)]
        BY ONLY <2>1, <2>3
    <2>6. QED
        BY ONLY <2>3, <2>4, <2>5
<1>5. /\ next = n - (m + 1) + 1 /\ next \in 1..n
      /\ m = IF n - next > QueueLimit THEN QueueLimit ELSE n - next
    BY ONLY <1>1, <1>2, <1>3, LimitType
<1>6. q[1] = log[n - (m + 1) + 1]
    <2>1. \A k \in 1..m + 1 : q[k] = log[n - (m + 1) + k]
        BY <1>1, <1>2, Zenon
    <2>2. 1 \in 1..m + 1
        BY <1>1
    <2>3. QED
        BY <2>1, <2>2, Zenon
<1>7. Tracks(log, rest, next)
    <2>1. next \in 0..n
        BY <1>2, <1>5
    <2>2. QED
        BY <1>4, <1>5, <2>1, Zenon DEF Tracks, n, m
<1>8. QED
    BY <1>1, <1>5, <1>6, <1>7 DEF next, n, rest

\* A reader's place is where its last event is: ids do not repeat.
LEMMA PlaceIsPlace ==
  BusInv => \A s \in Subscribers, k \in Nat : IsPlace(s, k) => Place(s) = k
<1>1. SUFFICES ASSUME BusInv, NEW s \in Subscribers, NEW k \in Nat, IsPlace(s, k)
               PROVE Place(s) = k
    OBVIOUS
<1>2. CASE received[s] = 0
    BY <1>1, <1>2 DEF IsPlace, Place
<1>3. CASE received[s] # 0
    <2>1. k \in 1..Len(published[s]) /\ published[s][k] = received[s]
        BY <1>1, <1>3 DEF IsPlace
    <2>2. \A j \in 1..Len(published[s]) : published[s][j] = received[s] => j = k
        <3>1. \A i, j \in 1..Len(published[s]) : i < j => published[s][i] < published[s][j]
            BY <1>1, Zenon DEF BusInv, Follows, Ascending
        <3>2. published[s] \in Seq(Nat)
            BY <1>1 DEF BusInv, Typed
        <3>3. Len(published[s]) \in Nat /\ \A j \in 1..Len(published[s]) : published[s][j] \in Nat
            BY <3>2
        <3>4. QED
            BY ONLY <2>1, <3>1, <3>3
    <2>3. QED
        BY <1>3, <2>1, <2>2 DEF Place
<1>4. QED
    BY <1>2, <1>3

LEMMA PlaceIsPlaceNext ==
  BusInv' => \A s \in Subscribers, k \in Nat : IsPlace(s, k)' => Place(s)' = k
<1>1. (BusInv => \A s \in Subscribers, k \in Nat : IsPlace(s, k) => Place(s) = k)'
    BY PlaceIsPlace, PTL
<1>2. QED
    BY <1>1

-----------------------------------------------------------------------------
(* The invariant.                                                          *)

LEMMA BusInvInit == BusInit => BusInv
BY LimitType DEF BusInit, BusInv, Typed, Follows, Ascending, IsPlace, Tracks

\* Publishing leaves a subscriber alone, or appends to its log and its queue.
LEMMA PublishFollows ==
  ASSUME BusInv, NEW t \in Topics, Publish(t), NEW s \in Subscribers
  PROVE  /\ Follows(s)' /\ queue'[s] \in Seq(Nat) /\ published'[s] \in Seq(Nat)
         /\ \A k \in 0..Len(published[s]) : IsPlace(s, k) => IsPlace(s, k)'
<1> DEFINE e == nextEventId'
<1>1. e = nextEventId + 1 /\ nextEventId \in Nat /\ received' = received
    BY DEF Publish, BusInv, Typed
<1>2. CASE s \notin Listening(t)
    <2>1. queue'[s] = queue[s] /\ published'[s] = published[s]
        BY <1>2 DEF Publish
    <2>2. QED
        <3>1. Ascending(published[s], nextEventId)'
            BY <1>1, <2>1, SMTT(30) DEF BusInv, Typed, Follows, Ascending
        <3>2. \A k : IsPlace(s, k)' <=> IsPlace(s, k)
            BY <1>1, <2>1 DEF IsPlace
        <3>3. PICK k \in 0..Len(published[s]) :
                IsPlace(s, k) /\ Tracks(published[s], queue[s], k)
            BY DEF BusInv, Follows
        <3>4. Tracks(published'[s], queue'[s], k)
            BY <2>1, <3>3, Zenon
        <3>5. Follows(s)'
            BY <2>1, <3>1, <3>2, <3>3, <3>4 DEF Follows
        <3>6. QED
            BY <2>1, <3>2, <3>5 DEF BusInv, Typed
<1>3. CASE s \in Listening(t)
    <2>1. queue'[s] = Enqueue(queue[s], e) /\ published'[s] = Append(published[s], e)
        BY <1>3 DEF Publish
    <2>2. Ascending(published[s], nextEventId)'
        <3> DEFINE n == Len(published[s])
                   log2 == Append(published[s], e)
        <3>1. /\ n \in Nat /\ Len(log2) = n + 1 /\ log2[n + 1] = e
              /\ \A k \in 1..n : log2[k] = published[s][k]
            BY <1>1, AppendFacts DEF BusInv, Typed
        <3>2. /\ \A k \in 1..n : 0 < published[s][k] /\ published[s][k] <= nextEventId
              /\ \A j, k \in 1..n : j < k => published[s][j] < published[s][k]
              /\ \A k \in 1..n : published[s][k] \in Nat
            BY DEF BusInv, Typed, Follows, Ascending
        <3> HIDE DEF n, log2
        <3>3. \A k \in 1..n + 1 : 0 < log2[k] /\ log2[k] <= e
            BY <1>1, <3>1, <3>2
        <3>4. \A j, k \in 1..n + 1 : j < k => log2[j] < log2[k]
            BY <1>1, <3>1, <3>2, SMTT(30)
        <3>5. Ascending(log2, e)
            BY <3>1, <3>3, <3>4 DEF Ascending
        <3>6. QED
            BY <2>1, <3>5 DEF log2
    <2>3. \A k \in 0..Len(published[s]) : IsPlace(s, k) => IsPlace(s, k)'
        BY <1>1, <2>1 DEF BusInv, Typed, IsPlace
    <2>4. PICK k \in 0..Len(published[s]) :
            IsPlace(s, k) /\ Tracks(published[s], queue[s], k)
        BY DEF BusInv, Follows
    <2>5. /\ Enqueue(queue[s], e) \in Seq(Nat)
          /\ Tracks(Append(published[s], e), Enqueue(queue[s], e), k)
        <3>1. published[s] \in Seq(Nat) /\ queue[s] \in Seq(Nat) /\ e \in Nat
            BY <1>1 DEF BusInv, Typed
        <3>2. Len(published[s]) \in Nat
            BY <3>1
        <3>3. k \in Nat
            BY <3>2
        <3>4. QED
            BY ONLY <2>4, <3>1, <3>3, EnqueueTracks
    <2>6. Tracks(published[s], queue[s], k)' /\ k \in 0..Len(published'[s])
        <3>1. Tracks(published'[s], queue'[s], k)
            BY <2>1, <2>5, Zenon
        <3>2. QED
            BY <3>1, Zenon DEF Tracks
    <2>7. published'[s] \in Seq(Nat)
        BY <1>1, <2>1 DEF BusInv, Typed
    <2>8. QED
        BY <2>1, <2>2, <2>3, <2>4, <2>5, <2>6, <2>7 DEF Follows
<1>4. QED
    BY <1>2, <1>3

LEMMA BusInvStep == BusInv /\ [BusNext]_busVars => BusInv'
<1> SUFFICES ASSUME BusInv, [BusNext]_busVars PROVE BusInv'
    OBVIOUS
<1>1. ASSUME NEW t \in Topics, Publish(t) PROVE BusInv'
    <2>1. /\ DOMAIN queue' = Subscribers /\ DOMAIN published' = Subscribers
          /\ queue' = [s \in Subscribers |-> queue'[s]]
          /\ published' = [s \in Subscribers |-> published'[s]]
        BY <1>1 DEF Publish
    <2>2. Typed'
        BY <1>1, <2>1, PublishFollows DEF Publish, BusInv, Typed
    <2>3. QED
        BY <1>1, <2>2, PublishFollows DEF BusInv
<1>2. ASSUME NEW s \in Subscribers, NEW f \in Filters, Subscribe(s, f) PROVE BusInv'
    BY <1>2 DEF Subscribe, BusInv, Typed, Follows, IsPlace
<1>3. ASSUME NEW s \in Subscribers, Deliver(s) PROVE BusInv'
    <2>1. PICK k \in 0..Len(published[s]) :
            IsPlace(s, k) /\ Tracks(published[s], queue[s], k)
        BY DEF BusInv, Follows
    <2>2. /\ published[s] \in Seq(Nat) /\ queue[s] \in Seq(Nat) /\ queue[s] # << >>
        BY <1>3 DEF Deliver, BusInv, Typed
    <2>3. PICK next \in 1..Len(published[s]) :
            /\ Head(queue[s]) = published[s][next]
            /\ Tail(queue[s]) \in Seq(Nat)
            /\ Tracks(published[s], Tail(queue[s]), next)
        <3>1. k \in Nat
            BY <2>1, <2>2
        <3>2. QED
            BY <2>1, <2>2, <3>1, DeliverTracks
    <2>4. /\ queue' = [queue EXCEPT ![s] = Tail(queue[s])]
          /\ received' = [received EXCEPT ![s] = Head(queue[s])]
          /\ UNCHANGED <<filter, nextEventId, published>>
        BY <1>3 DEF Deliver
    <2>5. /\ Head(queue[s]) \in Nat /\ Head(queue[s]) > 0
        <3>1. published[s][next] \in Nat
            BY <2>2, <2>3
        <3>2. 0 < published[s][next]
            BY <2>3 DEF BusInv, Follows, Ascending
        <3>3. QED
            BY <2>3, <3>1, <3>2
    <2>6. Typed'
        BY <2>3, <2>4, <2>5 DEF BusInv, Typed
    <2>7. Follows(s)'
        <3>1. /\ queue'[s] = Tail(queue[s]) /\ received'[s] = published[s][next]
              /\ received'[s] # 0 /\ published' = published
            BY <2>3, <2>4, <2>5 DEF BusInv, Typed
        <3>2. Tracks(published[s], queue[s], next)'
            BY <2>3, <3>1, Zenon
        <3>3. IsPlace(s, next)' /\ next \in 0..Len(published'[s])
            BY <2>3, <3>1 DEF IsPlace
        <3>4. Ascending(published[s], nextEventId)'
            BY <2>4 DEF BusInv, Follows
        <3>5. QED
            BY <3>2, <3>3, <3>4 DEF Follows
    <2>8. ASSUME NEW r \in Subscribers \ {s} PROVE Follows(r)'
        <3>1. /\ queue'[r] = queue[r] /\ received'[r] = received[r]
              /\ published' = published /\ nextEventId' = nextEventId
            BY <2>4 DEF BusInv, Typed
        <3>2. Follows(r)
            BY DEF BusInv
        <3>3. QED
            BY <3>1, <3>2 DEF Follows, IsPlace
    <2>9. QED
        BY <2>6, <2>7, <2>8 DEF BusInv
<1>4. ASSUME NEW s \in Subscribers, Unsubscribe(s) PROVE BusInv'
    <2>1. Typed'
        BY <1>4 DEF Unsubscribe, BusInv, Typed
    <2>2. Follows(s)'
        BY <1>4, LimitType
           DEF Unsubscribe, BusInv, Typed, Follows, Ascending, IsPlace, Tracks
    <2>3. ASSUME NEW r \in Subscribers \ {s} PROVE Follows(r)'
        BY <1>4, SMTT(30) DEF Unsubscribe, BusInv, Typed, Follows, Ascending, IsPlace, Tracks
    <2>4. QED
        BY <2>1, <2>2, <2>3 DEF BusInv
<1>5. CASE UNCHANGED busVars
    BY <1>5 DEF busVars, BusInv, Typed, Follows, Ascending, IsPlace, Tracks
<1>6. QED
    BY <1>1, <1>2, <1>3, <1>4, <1>5 DEF BusNext

LEMMA BusInvHolds == BusSpec => []BusInv
BY BusInvInit, BusInvStep, PTL DEF BusSpec

-----------------------------------------------------------------------------
(* The refinement.                                                         *)

LEMMA FeedInit == BusInit => Feed!Init
BY DEF BusInit, Feed!Init, Place

\* Every step of the bus is a step of the feed or leaves it as it is.
LEMMA FeedStep ==
  BusInv /\ BusInv' /\ [BusNext]_busVars => [Feed!Next]_(Feed!feedVars)
<1> SUFFICES ASSUME BusInv, BusInv', [BusNext]_busVars
             PROVE Feed!Next \/ UNCHANGED Feed!feedVars
    BY DEF Feed!feedVars
<1>1. ASSUME NEW t \in Topics, Publish(t) PROVE Feed!Next
    <2>1. ASSUME NEW s \in Subscribers PROVE Place(s)' = Place(s)
        <3>1. PICK k \in 0..Len(published[s]) : IsPlace(s, k)
            BY DEF BusInv, Follows
        <3>2. k \in Nat
            BY DEF BusInv, Typed
        <3>3. IsPlace(s, k)'
            BY <1>1, <3>1, PublishFollows
        <3>4. QED
            BY <3>1, <3>2, <3>3, PlaceIsPlace, PlaceIsPlaceNext
    <2>2. ASSUME NEW s \in Subscribers
          PROVE \/ published'[s] = published[s]
                \/ /\ Len(published'[s]) = Len(published[s]) + 1
                   /\ published'[s] =
                        Append(published[s], published'[s][Len(published[s]) + 1])
        BY <1>1 DEF Publish, BusInv, Typed
    <2>3. Feed!Publish
        BY <1>1, <2>1, <2>2 DEF Feed!Publish, Publish
    <2>4. QED
        BY <2>3 DEF Feed!Next
<1>2. ASSUME NEW s \in Subscribers, NEW f \in Filters, Subscribe(s, f)
      PROVE UNCHANGED Feed!feedVars
    BY <1>2 DEF Subscribe, Feed!feedVars, Place
<1>3. ASSUME NEW s \in Subscribers, Deliver(s) PROVE Feed!Next
    <2>1. PICK k \in 0..Len(published[s]) :
            IsPlace(s, k) /\ Tracks(published[s], queue[s], k)
        BY DEF BusInv, Follows
    <2>2. /\ published[s] \in Seq(Nat) /\ queue[s] \in Seq(Nat) /\ queue[s] # << >>
          /\ k \in Nat /\ received \in [Subscribers -> Nat]
        BY <1>3 DEF Deliver, BusInv, Typed
    <2>3. PICK next \in 1..Len(published[s]) :
            next = After(published[s], k) /\ Head(queue[s]) = published[s][next]
        BY <2>1, <2>2, DeliverTracks
    <2>4. /\ received' = [received EXCEPT ![s] = published[s][next]]
          /\ published' = published
        BY <1>3, <2>3 DEF Deliver
    <2>5. published[s][next] > 0 /\ next \in Nat
        BY <2>2, <2>3 DEF BusInv, Follows, Ascending
    <2>6. Place(s) = k
        BY <2>1, <2>2, PlaceIsPlace
    <2>7. Place(s)' = next
        <3>1. IsPlace(s, next)'
            BY <2>2, <2>4, <2>5 DEF IsPlace
        <3>2. QED
            BY <2>5, <3>1, PlaceIsPlaceNext
    <2>8. \A r \in Subscribers \ {s} : Place(r)' = Place(r)
        BY <2>2, <2>4 DEF Place
    <2>9. Feed!NextPlace(s) = next
        BY <2>3, <2>6 DEF Feed!NextPlace, After
    <2>10. Feed!Deliver(s)
        <3>1. [r \in Subscribers |-> Place(r)'] =
                [[r \in Subscribers |-> Place(r)] EXCEPT ![s] = next]
            BY <2>7, <2>8
        <3>2. next <= Len(published[s])
            BY <2>2, <2>3
        <3>3. QED
            BY <2>4, <2>9, <3>1, <3>2 DEF Feed!Deliver
    <2>11. QED
        BY <2>10 DEF Feed!Next
<1>4. ASSUME NEW s \in Subscribers, Unsubscribe(s) PROVE Feed!Next
    <2>1. /\ received' = [received EXCEPT ![s] = 0]
          /\ published' = [published EXCEPT ![s] = << >>]
        BY <1>4 DEF Unsubscribe
    <2>2. Place(s)' = 0 /\ \A r \in Subscribers \ {s} : Place(r)' = Place(r)
        BY <2>1 DEF Place, BusInv, Typed
    <2>3. Feed!Leave(s)
        BY <2>1, <2>2 DEF Feed!Leave
    <2>4. QED
        BY <2>3 DEF Feed!Next
<1>5. CASE UNCHANGED busVars
    BY <1>5 DEF busVars, Feed!feedVars, Place
<1>6. QED
    BY <1>1, <1>2, <1>3, <1>4, <1>5 DEF BusNext

\* The bounded queues with their overflow give every subscriber the events in
\* order, none twice, and lose only those too far behind (SseBus.publish, stream).
THEOREM BusImplementsFeed == BusSpec => FeedSpec
BY BusInvHolds, FeedInit, FeedStep, PTL DEF BusSpec, FeedSpec, Feed!Spec

-----------------------------------------------------------------------------
(* Notifications, for every set of routes, events and notifying tasks.     *)

\* The call of a task that notifies.
Call == [event : Events \cup {Digest}, left : SUBSET Routes, to : Routes \cup {NoRoute}]

\* The mark of a route and event is set exactly while the one send of its
\* window has been begun.
MarksAreSends ==
  /\ hot \subseteq Keys
  /\ sends \in [Keys -> {0, 1}]
  /\ \A k \in Keys : sends[k] = 1 <=> k \in hot
  /\ job \in [Notifiers -> Call \cup {Idle}]

\* No mark is set at first.
LEMMA MarksInit == NotifyInit => MarksAreSends
BY DEF NotifyInit, MarksAreSends

\* The mark is set in the step that asks for it, and every other step leaves
\* marks and sends alone or takes both back.
LEMMA MarksStep == MarksAreSends /\ [NotifyNext]_notifyVars => MarksAreSends'
<1> SUFFICES ASSUME MarksAreSends, [NotifyNext]_notifyVars PROVE MarksAreSends'
    OBVIOUS
<1> USE DEF MarksAreSends
<1>1. CASE NotifyRestart
    BY <1>1 DEF NotifyRestart
<1>2. ASSUME NEW r \in Routes, EditRoute(r) PROVE MarksAreSends'
    BY <1>2 DEF EditRoute
<1>3. ASSUME NEW k \in Keys, WindowElapses(k) PROVE MarksAreSends'
    BY <1>3 DEF WindowElapses
<1>4. ASSUME NEW n \in Notifiers, SendEnds(n) \/ SendRaises(n) \/ EndNotify(n)
      PROVE MarksAreSends'
    <2>1. job' \in [Notifiers -> Call \cup {Idle}]
        BY <1>4 DEF SendEnds, SendRaises, EndNotify, Call
    <2>2. QED
        BY <1>4, <2>1 DEF SendEnds, SendRaises, EndNotify
<1>5. ASSUME NEW n \in Notifiers, NEW e \in Events \cup {Digest}, BeginNotify(n, e)
      PROVE MarksAreSends'
    <2>1. [event |-> e, left |-> {r \in Routes : e \in wanted[r]}, to |-> NoRoute] \in Call
        BY DEF Call
    <2>2. QED
        BY <1>5, <2>1 DEF BeginNotify
<1>6. ASSUME NEW n \in Notifiers, NEW r \in Routes, NextRoute(n, r)
      PROVE MarksAreSends'
    <2>1. job[n] \in Call
        BY <1>6 DEF NextRoute
    <2>2. /\ [job[n] EXCEPT !.left = @ \ {r}] \in Call
          /\ [job[n] EXCEPT !.left = @ \ {r}, !.to = r] \in Call
        BY <2>1 DEF Call
    <2>3. job' \in [Notifiers -> Call \cup {Idle}]
        BY <1>6, <2>2 DEF NextRoute
    <2>4. CASE UNCHANGED <<hot, sends>>
        BY <2>3, <2>4
    <2>5. CASE ~ UNCHANGED <<hot, sends>>
        <3> DEFINE k == <<r, job[n].event>>
        <3>1. /\ job[n].event # Digest /\ k \notin hot /\ hot' = hot \cup {k}
              /\ sends' = [sends EXCEPT ![k] = @ + 1]
            BY <1>6, <2>5 DEF NextRoute, ShouldSend
        <3>2. k \in Keys
            BY <2>1, <3>1 DEF Keys, Call
        <3>3. sends[k] = 0
            BY <3>1, <3>2
        <3> HIDE DEF k
        <3>4. QED
            BY <2>3, <3>1, <3>2, <3>3
    <2>6. QED
        BY <2>4, <2>5
<1>7. CASE UNCHANGED notifyVars
    BY <1>7 DEF notifyVars
<1>8. QED
    BY <1>1, <1>2, <1>3, <1>4, <1>5, <1>6, <1>7 DEF NotifyNext

\* However the passes and loops interleave, one send of an event is begun to a
\* route in a window (NotificationCoalescer.should_send).
THEOREM OneNotification == NotifySpec => []NoStorm
<1>1. MarksAreSends => NoStorm
    BY DEF MarksAreSends, NoStorm
<1>2. QED
    BY <1>1, MarksInit, MarksStep, PTL DEF NotifySpec

-----------------------------------------------------------------------------
(* StatsRollup, for any number of days and outcomes, any window of more    *)
(* than one day, and any history before the first start.                   *)

StatsTyped ==
  /\ today \in Days
  /\ events \in [Days -> Nat] /\ rows \in [Days -> Nat]
  /\ phase \in {"down", "backfill", "rollup", "serving"}
  /\ rolledToday \in BOOLEAN /\ missed \in BOOLEAN /\ unfilled \in BOOLEAN
  /\ rollup # NoRollup =>
       /\ rollup.first \in Nat /\ rollup.on \in Days /\ rollup.counts \in [Days -> Nat]

\* What a rollup has read of a day is what the day had then, and all it will
\* have of a day that was over.
ReadIsTrue ==
  rollup # NoRollup =>
    /\ rollup.on <= today
    /\ \A d \in Days :
         /\ rollup.counts[d] <= events[d]
         /\ rollup.first <= d /\ d < rollup.on => rollup.counts[d] = events[d]

\* The rollup under way began today, or else yesterday and none has since.
RollupIsRecent ==
  rollup # NoRollup /\ ~ missed =>
    rollup.on = today \/ (rollup.on + 1 = today /\ ~ rolledToday)

\* It leaves out no day that has outcomes, or none that could still change.
WindowReachesBack ==
  rollup # NoRollup =>
    IF phase = "backfill" THEN \A d \in Days : d < rollup.first => events[d] = 0
                          ELSE \A d \in Days : d < rollup.first => d + 1 < rollup.on

\* A day before yesterday is exact, and yesterday too once today had its rollup.
PastIsExact ==
  /\ ~ missed /\ ~ unfilled
  /\ phase \in {"rollup", "serving"} \/ \E d \in Days : rows[d] > 0
  => \A d \in Days : d + 1 < today \/ (d < today /\ rolledToday) => rows[d] = events[d]

StatsInv ==
  /\ StatsTyped /\ ReadIsTrue /\ RollupIsRecent /\ WindowReachesBack /\ PastIsExact
  /\ NeverOverstates
  /\ phase = "down" => rollup = NoRollup
  /\ \A d \in Days : d > today => events[d] = 0
\* At the start nothing has been read or written.
LEMMA StatsInvInit == ASSUME StatsInit PROVE StatsInv
<1>1. events \in [Days -> Nat] /\ \A d \in Days : rows[d] = 0 /\ events[d] \in Nat
    BY StatsAssumption DEF StatsInit
<1>2. StatsTyped
    BY <1>1 DEF StatsInit, StatsTyped
<1>3. QED
    BY <1>1, <1>2
   DEF StatsInit, StatsInv, StatsTyped, ReadIsTrue, RollupIsRecent, WindowReachesBack,
       PastIsExact, NeverOverstates, Days

\* The first day of a backfill: there is no outcome before it.
LEMMA EarliestDay ==
  ASSUME StatsTyped, \E d \in Days : events[d] > 0
  PROVE  LET first == Min({d \in Days : events[d] > 0})
         IN first \in Days /\ \A d \in Days : d < first => events[d] = 0
<1> DEFINE N == {d \in Days : events[d] > 0}
<1>1. N \in SUBSET Nat /\ N # {}
    BY DEF Days
<1>2. Min(N) \in N /\ \A n \in N : Min(N) <= n
    <2> HIDE DEF N
    <2>1. QED
        BY <1>1, MinIsLeast
<1>3. \A d \in Days : events[d] \in Nat /\ d \in Nat
    BY DEF StatsTyped, Days
<1>4. QED
    BY <1>2, <1>3

\* Reading what there is of today and the days before.
LEMMA ReadHolds ==
  ASSUME StatsInv, NEW first \in Nat, rollup' = Read(first), today' = today, events' = events,
         rows' = rows, phase' = phase, UNCHANGED <<rolledToday, missed, unfilled>>,
         phase # "down",
         IF phase = "backfill" THEN \A d \in Days : d < first => events[d] = 0
                               ELSE \A d \in Days : d < first => d + 1 < today
  PROVE  StatsInv'
<1>1. StatsTyped'
    BY StatsAssumption DEF StatsInv, StatsTyped, Read, Days
<1>2. rollup'.on = today /\ rollup'.first = first
      /\ \A d \in Days : rollup'.counts[d] = IF d >= first THEN events[d] ELSE 0
    BY DEF Read
<1>3. ReadIsTrue'
    BY <1>2 DEF StatsInv, StatsTyped, ReadIsTrue, Days
<1>4. RollupIsRecent'
    BY <1>2 DEF RollupIsRecent
<1>5. WindowReachesBack'
    BY <1>2 DEF WindowReachesBack
<1>6. PastIsExact' /\ NeverOverstates'
    BY DEF StatsInv, PastIsExact, NeverOverstates
<1>7. QED
    BY <1>1, <1>3, <1>4, <1>5, <1>6 DEF StatsInv

\* The backfill reads every day from the earliest outcome on.
LEMMA BackfillBegins == ASSUME StatsInv, BeginBackfill PROVE StatsInv'
<1> DEFINE first == Min({d \in Days : events[d] > 0})
<1>1. first \in Days /\ \A d \in Days : d < first => events[d] = 0
    BY EarliestDay DEF StatsInv, BeginBackfill
<1>2. first \in Nat
    BY <1>1 DEF Days
<1>3. rollup' = Read(first)
    BY DEF BeginBackfill
<1> HIDE DEF first
<1>4. QED
    BY <1>1, <1>2, <1>3, ReadHolds DEF BeginBackfill

\* A rollup reads the days of its window as they are.
LEMMA RollupBegins == ASSUME StatsInv, BeginRollup PROVE StatsInv'
<1>1. WindowStart \in Nat /\ \A d \in Days : d < WindowStart => d + 1 < today
    BY StatsAssumption DEF WindowStart, StatsInv, StatsTyped, Days
<1>2. QED
    BY <1>1, ReadHolds DEF BeginRollup

\* The commit replaces the window by what was read, and so overstates no day;
\* it leaves every closed day exact.
LEMMA RollupCommits == ASSUME StatsInv, CommitRollup PROVE StatsInv'
<1>1. /\ \A d \in Days : rows'[d] = IF d >= rollup.first THEN rollup.counts[d] ELSE rows[d]
      /\ rows' \in [Days -> Nat]
    BY DEF StatsInv, StatsTyped, CommitRollup, Replaced
<1>2. NeverOverstates'
    BY <1>1 DEF StatsInv, ReadIsTrue, NeverOverstates, CommitRollup
<1>3. StatsTyped'
    BY <1>1 DEF StatsInv, StatsTyped, CommitRollup, AfterRollup
<1>4. PastIsExact'
    <2>1. SUFFICES ASSUME ~ missed, ~ unfilled, NEW d \in Days,
                          d + 1 < today \/ (d < today /\ rolledToday')
                   PROVE  rows'[d] = events[d]
        BY DEF PastIsExact, CommitRollup
    <2>2. /\ today \in Nat /\ d \in Nat /\ rollup.on \in Nat /\ rollup.first \in Nat
          /\ rolledToday \in BOOLEAN
          /\ events[d] \in Nat /\ rows[d] \in Nat
        BY DEF StatsInv, StatsTyped, CommitRollup, Days
    <2>3. rollup.on = today \/ (rollup.on + 1 = today /\ ~ rolledToday)
        BY <2>1 DEF StatsInv, RollupIsRecent, CommitRollup
    <2>4. d < rollup.on
        BY <2>1, <2>2, <2>3 DEF CommitRollup
    <2>5. CASE rollup.first <= d
        BY <1>1, <2>2, <2>4, <2>5 DEF StatsInv, ReadIsTrue, CommitRollup
    <2>6. CASE d < rollup.first /\ phase = "backfill"
        BY <1>1, <2>2, <2>6 DEF StatsInv, WindowReachesBack, NeverOverstates, CommitRollup
    <2>7. CASE d < rollup.first /\ phase # "backfill"
        <3>1. phase \in {"rollup", "serving"}
            BY <2>7 DEF StatsInv, StatsTyped, CommitRollup
        <3>2. d + 1 < today
            BY <2>2, <2>3, <2>7 DEF StatsInv, WindowReachesBack, CommitRollup
        <3>3. rows[d] = events[d]
            BY <2>1, <3>1, <3>2 DEF StatsInv, PastIsExact
        <3>4. QED
            BY <1>1, <2>2, <2>7, <3>3
    <2>8. QED
        BY <2>2, <2>5, <2>6, <2>7
<1>5. rollup' = NoRollup /\ phase' # "down" /\ today' = today /\ events' = events
    BY DEF CommitRollup, AfterRollup
<1>6. QED
    BY <1>2, <1>3, <1>4, <1>5
       DEF StatsInv, ReadIsTrue, RollupIsRecent, WindowReachesBack

\* A failed rollup leaves the rows as they were.
LEMMA RollupIsLost == ASSUME StatsInv, RollupFails \/ Stop PROVE StatsInv'
<1>1. /\ rollup' = NoRollup
      /\ UNCHANGED <<today, events, rows, rolledToday, missed>>
    BY DEF RollupFails, Stop
<1>2. StatsTyped'
    BY <1>1 DEF StatsInv, StatsTyped, RollupFails, Stop, AfterRollup
<1>3. PastIsExact'
    BY DEF StatsInv, StatsTyped, PastIsExact, RollupFails, Stop, AfterRollup
<1>4. QED
    BY <1>1, <1>2, <1>3
       DEF StatsInv, ReadIsTrue, RollupIsRecent, WindowReachesBack, NeverOverstates

\* The process starts with nothing read, and goes on if there is no backfill to do.
LEMMA ProcessStarts == ASSUME StatsInv, Start \/ NoBackfill PROVE StatsInv'
<1>1. /\ UNCHANGED <<today, events, rows, rollup, rolledToday, missed, unfilled>>
      /\ rollup = NoRollup /\ phase' \in {"backfill", "rollup"}
    BY DEF StatsInv, Start, NoBackfill
<1>2. StatsTyped'
    BY <1>1 DEF StatsInv, StatsTyped
<1>3. PastIsExact'
    <2>1. CASE Start
        BY <2>1 DEF StatsInv, PastIsExact, Start
    <2>2. CASE NoBackfill
        BY <2>2 DEF StatsInv, StatsTyped, PastIsExact, NeverOverstates, NoBackfill
    <2>3. QED
        BY <2>1, <2>2
<1>4. QED
    BY <1>1, <1>2, <1>3
       DEF StatsInv, ReadIsTrue, RollupIsRecent, WindowReachesBack, NeverOverstates

\* An outcome is one of today, whose row is not held to be complete.
LEMMA OutcomeIsRecorded == ASSUME StatsInv, Outcome PROVE StatsInv'
<1>1. /\ UNCHANGED <<today, rows, phase, rollup, rolledToday, missed, unfilled>>
      /\ phase = "serving" /\ today \in Days
    BY DEF Outcome, StatsInv, StatsTyped
<1>2. \A d \in Days : /\ events[d] \in Nat /\ events'[d] \in Nat
                      /\ events[d] <= events'[d]
                      /\ (d # today => events'[d] = events[d])
    BY <1>1 DEF Outcome, StatsInv, StatsTyped
<1>3. StatsTyped'
    BY <1>1, <1>2 DEF StatsInv, StatsTyped, Outcome
<1>4. \A d \in Days : rows[d] \in Nat /\ d \in Nat
    BY DEF StatsInv, StatsTyped, Days
<1>5. ReadIsTrue'
    <2>1. SUFFICES ASSUME rollup # NoRollup, NEW d \in Days
                   PROVE  /\ rollup.on <= today
                          /\ rollup.counts[d] <= events'[d]
                          /\ rollup.first <= d /\ d < rollup.on
                             => rollup.counts[d] = events'[d]
        BY <1>1 DEF ReadIsTrue
    <2>2. rollup.counts[d] \in Nat /\ rollup.on \in Nat /\ today \in Nat
        BY <2>1, StatsAssumption DEF StatsInv, StatsTyped, Days
    <2>3. /\ rollup.on <= today
          /\ rollup.counts[d] <= events[d]
          /\ rollup.first <= d /\ d < rollup.on => rollup.counts[d] = events[d]
        BY <2>1 DEF StatsInv, ReadIsTrue
    <2>4. QED
        BY <1>2, <1>4, <2>1, <2>2, <2>3
<1>6. RollupIsRecent' /\ WindowReachesBack'
    BY <1>1 DEF StatsInv, RollupIsRecent, WindowReachesBack
<1>7. PastIsExact'
    BY <1>1, <1>2, <1>4 DEF StatsInv, PastIsExact, Days
<1>8. NeverOverstates'
    BY <1>1, <1>2, <1>4 DEF StatsInv, NeverOverstates
<1>9. \A d \in Days : d > today' => events'[d] = 0
    BY <1>1, <1>2, <1>4 DEF StatsInv
<1>10. QED
    BY <1>1, <1>3, <1>5, <1>6, <1>7, <1>8, <1>9 DEF StatsInv

\* At midnight today becomes a day of the past.
LEMMA DayEnds == ASSUME StatsInv, Midnight PROVE StatsInv'
<1>1. /\ today \in Nat /\ today' = today + 1 /\ today' \in Days /\ rolledToday' = FALSE
      /\ missed' = (missed \/ ~ rolledToday)
      /\ UNCHANGED <<events, rows, phase, rollup, unfilled>>
    BY StatsAssumption DEF Midnight, StatsInv, StatsTyped, Days
<1>2. StatsTyped'
    BY <1>1, StatsAssumption DEF StatsInv, StatsTyped
<1>3. ReadIsTrue' /\ RollupIsRecent' /\ WindowReachesBack'
    <2>1. rollup # NoRollup => rollup.on \in Nat /\ rollup.on <= today
        BY StatsAssumption DEF StatsInv, StatsTyped, ReadIsTrue, Days
    <2>2. ReadIsTrue'
        <3>1. rollup # NoRollup => rollup.on <= today'
            BY <1>1, <2>1
        <3>2. ReadIsTrue /\ UNCHANGED <<rollup, events>>
            BY <1>1 DEF StatsInv
        <3>3. QED
            BY <3>1, <3>2 DEF ReadIsTrue
    <2>3. RollupIsRecent'
        BY <1>1, <2>1 DEF StatsInv, StatsTyped, RollupIsRecent
    <2>4. WindowReachesBack'
        BY <1>1 DEF StatsInv, WindowReachesBack
    <2>5. QED
        BY <2>2, <2>3, <2>4
<1>4. PastIsExact'
    <2>1. SUFFICES ASSUME ~ missed, rolledToday, ~ unfilled,
                          phase \in {"rollup", "serving"} \/ \E d \in Days : rows[d] > 0,
                          NEW d \in Days, d + 1 < today + 1
                   PROVE  rows[d] = events[d]
        BY <1>1 DEF PastIsExact
    <2>2. d < today
        BY <1>1, <2>1, StatsAssumption DEF Days
    <2>3. QED
        BY <2>1, <2>2 DEF StatsInv, PastIsExact
<1>5. NeverOverstates' /\ \A d \in Days : d > today' => events'[d] = 0
    BY <1>1 DEF StatsInv, NeverOverstates, Days
<1>6. QED
    BY <1>1, <1>2, <1>3, <1>4, <1>5 DEF StatsInv

\* Every step of the service keeps the invariant.
LEMMA StatsInvStep == ASSUME StatsInv, [StatsNext]_statsVars PROVE StatsInv'
<1>1. CASE StatsNext
    BY <1>1, BackfillBegins, RollupBegins, RollupCommits, RollupIsLost, ProcessStarts,
       OutcomeIsRecorded, DayEnds DEF StatsNext
<1>2. CASE UNCHANGED statsVars
    BY <1>2 DEF statsVars, StatsInv, StatsTyped, ReadIsTrue, RollupIsRecent,
                WindowReachesBack, PastIsExact, NeverOverstates
<1>3. QED
    BY <1>1, <1>2

\* What has happened before a day of a range and within it is what happened
\* up to that day, wherever the range begins.
LEMMA TrendIsWhole ==
  ASSUME StatsTyped, NEW s \in 0..today, NEW d \in s..today
  PROVE  Cumulative(s)[d] = SumOver(rows, 0..d)
<1> DEFINE B == {x \in Days : x < s}
           R == s..d
<1>1. today \in Nat /\ today <= LastDay /\ s \in Nat /\ d \in Nat /\ s <= d /\ d <= LastDay
    BY StatsAssumption DEF StatsTyped, Days
<1>2. B \cup R = 0..d /\ B \cap R = {} /\ B \subseteq 0..d /\ R \subseteq 0..d
    BY <1>1, StatsAssumption DEF Days
<1>3. IsFiniteSet(B) /\ IsFiniteSet(R)
    <2>1. IsFiniteSet(0..d)
        BY <1>1, FS_Interval
    <2>2. QED
        BY <1>2, <2>1, FS_Subset
<1>4. \A x \in B \cup R : rows[x] \in Nat
    BY <1>1, <1>2, StatsAssumption DEF StatsTyped, Days
<1>5. Cumulative(s)[d] = SumOver(rows, B) + SumOver(rows, R)
    BY DEF Cumulative, Baseline
<1> HIDE DEF B, R
<1>6. QED
    BY <1>2, <1>3, <1>4, <1>5, SumUnion

\* The dashboard's statistics, for any length of history.
THEOREM StatisticsHold == StatsInit /\ [][StatsNext]_statsVars => []StatisticsAreTrue
<1>1. StatsInv => StatisticsAreTrue
    <2>1. SUFFICES ASSUME StatsInv PROVE StatisticsAreTrue
        OBVIOUS
    <2>2. TrendIsRangeFree
        BY <2>1, TrendIsWhole DEF TrendIsRangeFree, StatsInv
    <2>3. ClosedDaysAreExact
        BY <2>1, StatsAssumption
           DEF ClosedDaysAreExact, ClosedDays, StatsInv, StatsTyped, PastIsExact, Days
    <2>4. QED
        BY <2>1, <2>2, <2>3 DEF StatisticsAreTrue, StatsInv
<1>2. QED
    BY <1>1, StatsInvInit, StatsInvStep, PTL

-----------------------------------------------------------------------------
(* WatchSignals, for every set of sources, titles and reports.             *)

WatchTyped ==
  /\ enabled \subseteq Sources
  /\ activity \in [Sources -> [Titles -> Activities]]
  /\ cache \in [Titles -> Scores \cup {NoRow}]
  /\ heard \in [Sources -> Answers \cup {NoReport}]

\* What s said of t is a signal by itself.
Signals(said) == said # Nothing /\ (said.recent \/ said.listed \/ said.plays >= MinPlays)

\* The row of a title is no older than any last answer that signals it.
RowsAreAsFresh ==
  \A s \in Sources, t \in Titles :
    heard[s] # NoReport /\ Signals(heard[s].report[t])
      => cache[t] # NoRow /\ cache[t].age <= heard[s].age

\* One of the sources it is credited to has answered since it was written.
RowsHaveSources ==
  \A t \in Titles :
    cache[t] # NoRow =>
      \E s \in cache[t].sources : heard[s] # NoReport /\ heard[s].age <= cache[t].age

WatchInv == WatchTyped /\ RowsAreAsFresh /\ RowsHaveSources

\* At the start nothing is known of any title.
LEMMA WatchInvInit == ASSUME WatchInit PROVE WatchInv
<1>1. Nothing \in Activities
    BY DEF Nothing, Activities
<1>2. QED
    BY <1>1 DEF WatchInit, WatchInv, WatchTyped, RowsAreAsFresh, RowsHaveSources

\* The aggregate over the sources that answer is a row; it is a signal if what
\* one of them says is, for no source takes plays away.
LEMMA SignalCovers ==
  ASSUME WatchTyped, NEW t \in Titles, NEW answering \in SUBSET Sources
  PROVE  /\ Signal(t, answering) \in Scores /\ Signal(t, answering).age = 0
         /\ Signal(t, answering).sources \subseteq answering
         /\ \A s \in answering : Signals(activity[s][t]) => HasSignal(Signal(t, answering))
<1> DEFINE reports == {s \in answering : activity[s][t] # Nothing}
           plays == [s \in reports |-> activity[s][t].plays]
<1>1. reports \subseteq Sources /\ IsFiniteSet(reports)
    BY WatchAssumption, FS_Subset
<1>2. \A s \in reports : plays[s] \in Nat
    BY <1>1 DEF WatchTyped, Activities
<1> HIDE DEF plays
<1>3. SumOver(plays, reports) \in Nat /\ \A s \in reports : plays[s] <= SumOver(plays, reports)
    BY <1>1, <1>2, SumType, SumBounds
<1> DEFINE row == Signal(t, answering)
<1>4. /\ row = [frequent |-> SumOver(plays, reports) >= MinPlays,
                recent |-> \E s \in reports : activity[s][t].recent,
                listed |-> \E s \in reports : activity[s][t].listed,
                sources |-> reports, age |-> 0]
    BY DEF Signal, plays
<1>5. row \in Scores /\ row.age = 0 /\ row.sources = reports
    BY <1>1, <1>4, WatchAssumption DEF Scores
<1>6. ASSUME NEW s \in answering, Signals(activity[s][t]) PROVE HasSignal(row)
    <2>1. s \in reports /\ activity[s][t] \in Activities
        BY <1>6 DEF Signals, WatchTyped
    <2>2. plays[s] = activity[s][t].plays
        BY <2>1 DEF plays
    <2>3. CASE activity[s][t].plays >= MinPlays
        <3>1. SumOver(plays, reports) >= MinPlays
            BY <1>2, <1>3, <2>1, <2>2, <2>3, WatchAssumption
        <3>2. row.frequent = (SumOver(plays, reports) >= MinPlays)
            BY DEF Signal, plays
        <3>3. QED
            BY <1>5, <2>1, <3>1, <3>2 DEF HasSignal
    <2>4. CASE activity[s][t].recent \/ activity[s][t].listed
        BY <1>4, <2>1, <2>4 DEF HasSignal
    <2>5. QED
        BY <1>6, <2>3, <2>4 DEF Signals
<1>7. QED
    BY <1>5, <1>6

\* A refresh replaces the rows of the titles that the answering sources signal.
LEMMA RefreshKeeps ==
  ASSUME WatchInv, NEW answering \in SUBSET Sources, Refresh(answering)
  PROVE  WatchInv'
<1> DEFINE row(t) == Signal(t, answering)
<1>1. \A t \in Titles : cache'[t] = IF HasSignal(row(t)) THEN row(t) ELSE cache[t]
    BY DEF Refresh, Merged
<1>2. \A s \in Sources : heard'[s] = IF s \in answering THEN [report |-> activity[s], age |-> 0]
                                                       ELSE heard[s]
    BY DEF Refresh
<1>3. \A t \in Titles : /\ row(t) \in Scores /\ row(t).age = 0 /\ row(t) # NoRow
                        /\ row(t).sources \subseteq answering
                        /\ \A s \in answering : Signals(activity[s][t]) => HasSignal(row(t))
    BY SignalCovers, WatchAssumption DEF WatchInv
<1> HIDE DEF row
<1>4. \A s \in answering : heard'[s] \in Answers /\ heard'[s].age = 0 /\ heard'[s] # NoReport
                           /\ heard'[s].report = activity[s]
    <2>1. SUFFICES ASSUME NEW s \in answering
                   PROVE  /\ heard'[s] \in Answers /\ heard'[s].age = 0
                          /\ heard'[s].report = activity[s]
        BY WatchAssumption
    <2>2. heard'[s] = [report |-> activity[s], age |-> 0]
        BY <1>2
    <2>3. activity[s] \in [Titles -> Activities] /\ 0 \in 0..(TTL + 1)
        BY WatchAssumption DEF WatchInv, WatchTyped
    <2>4. QED
        BY <2>2, <2>3 DEF Answers
<1>5. WatchTyped'
    <2>1. cache' \in [Titles -> Scores \cup {NoRow}]
        <3>1. cache' = [t \in Titles |-> cache'[t]]
            BY DEF Refresh, Merged
        <3>2. \A t \in Titles : cache'[t] \in Scores \cup {NoRow}
            BY <1>1, <1>3 DEF WatchInv, WatchTyped
        <3>3. QED
            BY <3>1, <3>2
    <2>2. heard' \in [Sources -> Answers \cup {NoReport}]
        <3>1. heard' = [s \in Sources |-> heard'[s]]
            BY DEF Refresh
        <3>2. \A s \in Sources : heard'[s] \in Answers \cup {NoReport}
            BY <1>2, <1>4 DEF WatchInv, WatchTyped
        <3>3. QED
            BY <3>1, <3>2
    <2>3. QED
        BY <2>1, <2>2 DEF WatchInv, WatchTyped, Refresh
<1>6. \A x \in Scores : x.age \in Nat
    BY WatchAssumption DEF Scores
<1>7. \A x \in Answers : x.age \in Nat
    BY WatchAssumption DEF Answers
<1>8. RowsAreAsFresh'
    <2>1. SUFFICES ASSUME NEW s \in Sources, NEW t \in Titles,
                          heard'[s] # NoReport, Signals(heard'[s].report[t])
                   PROVE  cache'[t] # NoRow /\ cache'[t].age <= heard'[s].age
        BY DEF RowsAreAsFresh, Signals
    <2>2. heard'[s].age \in Nat
        BY <1>7, <1>5, <2>1 DEF WatchTyped
    <2>3. CASE HasSignal(row(t))
        BY <1>1, <1>3, <2>2, <2>3
    <2>4. CASE ~ HasSignal(row(t))
        <3>1. s \notin answering
            BY <1>3, <1>4, <2>1, <2>4
        <3>2. QED
            BY <1>1, <1>2, <2>1, <2>4, <3>1 DEF WatchInv, RowsAreAsFresh
    <2>5. QED
        BY <2>3, <2>4
<1>9. RowsHaveSources'
    <2>1. SUFFICES ASSUME NEW t \in Titles, cache'[t] # NoRow
                   PROVE  \E s \in cache'[t].sources :
                            heard'[s] # NoReport /\ heard'[s].age <= cache'[t].age
        BY DEF RowsHaveSources
    <2>2. cache'[t].age \in Nat
        BY <1>5, <1>6, <2>1 DEF WatchTyped
    <2>3. CASE HasSignal(row(t))
        <3>1. PICK s \in row(t).sources : TRUE
            BY <2>3 DEF HasSignal
        <3>2. QED
            BY <1>1, <1>3, <1>4, <2>2, <2>3, <3>1
    <2>4. CASE ~ HasSignal(row(t))
        <3>1. PICK s \in cache[t].sources : heard[s] # NoReport /\ heard[s].age <= cache[t].age
            BY <1>1, <2>1, <2>4 DEF WatchInv, RowsHaveSources
        <3>2. s \in Sources /\ cache'[t] = cache[t]
            BY <1>1, <2>1, <2>4, <3>1 DEF WatchInv, WatchTyped, Scores
        <3>3. heard'[s] # NoReport /\ heard'[s].age <= cache'[t].age
            <4>1. CASE s \in answering
                BY <1>4, <2>2, <4>1
            <4>2. CASE s \notin answering
                BY <1>2, <3>1, <3>2, <4>2
            <4>3. QED
                BY <4>1, <4>2
        <3>4. QED
            BY <3>1, <3>2, <3>3
    <2>5. QED
        BY <2>3, <2>4
<1>10. QED
    BY <1>5, <1>8, <1>9 DEF WatchInv

\* Both grow older together, and no further than just beyond the TTL.
LEMMA TickKeeps == ASSUME WatchInv, Tick PROVE WatchInv'
<1>1. \A x \in Scores : /\ Older(x) \in Scores /\ x.age \in 0..(TTL + 1)
                        /\ Older(x).age = IF x.age <= TTL THEN x.age + 1 ELSE x.age
                        /\ Older(x).sources = x.sources /\ Older(x) # NoRow
    BY WatchAssumption DEF Older, Scores
<1>2. \A x \in Answers : /\ Older(x) \in Answers /\ x.age \in 0..(TTL + 1)
                         /\ Older(x).age = IF x.age <= TTL THEN x.age + 1 ELSE x.age
                         /\ Older(x).report = x.report /\ Older(x) # NoReport
    BY WatchAssumption DEF Older, Answers
<1>3. \A t \in Titles : /\ cache'[t] = IF cache[t] = NoRow THEN NoRow ELSE Older(cache[t])
                        /\ cache[t] # NoRow => cache[t] \in Scores
    BY DEF Tick, WatchInv, WatchTyped
<1>4. \A s \in Sources : /\ heard'[s] = IF heard[s] = NoReport THEN NoReport ELSE Older(heard[s])
                         /\ heard[s] # NoReport => heard[s] \in Answers
    BY DEF Tick, WatchInv, WatchTyped
<1>5. WatchTyped'
    BY <1>1, <1>2, <1>3, <1>4 DEF Tick, WatchInv, WatchTyped
<1>6. RowsAreAsFresh'
    <2>1. SUFFICES ASSUME NEW s \in Sources, NEW t \in Titles,
                          heard'[s] # NoReport, Signals(heard'[s].report[t])
                   PROVE  cache'[t] # NoRow /\ cache'[t].age <= heard'[s].age
        BY DEF RowsAreAsFresh, Signals
    <2>2. /\ heard[s] # NoReport /\ heard[s] \in Answers
          /\ heard'[s] = Older(heard[s]) /\ heard'[s].report = heard[s].report
        BY <1>2, <1>4, <2>1
    <2>3. cache[t] # NoRow /\ cache[t].age <= heard[s].age
        BY <2>1, <2>2 DEF WatchInv, RowsAreAsFresh
    <2>4. QED
        BY <1>1, <1>2, <1>3, <2>2, <2>3, WatchAssumption
<1>7. RowsHaveSources'
    <2>1. SUFFICES ASSUME NEW t \in Titles, cache'[t] # NoRow
                   PROVE  \E s \in cache'[t].sources :
                            heard'[s] # NoReport /\ heard'[s].age <= cache'[t].age
        BY DEF RowsHaveSources
    <2>2. /\ cache[t] # NoRow /\ cache[t] \in Scores /\ cache'[t] = Older(cache[t])
        BY <1>3, <2>1
    <2>3. PICK s \in cache[t].sources : heard[s] # NoReport /\ heard[s].age <= cache[t].age
        BY <2>2 DEF WatchInv, RowsHaveSources
    <2>4. s \in Sources /\ s \in cache'[t].sources
        BY <1>1, <2>2, <2>3 DEF Scores
    <2>5. QED
        BY <1>1, <1>2, <1>4, <2>2, <2>3, <2>4, WatchAssumption
<1>8. QED
    BY <1>5, <1>6, <1>7 DEF WatchInv

\* Every step of the refresher, the sources and the operator keeps the invariant.
LEMMA WatchInvStep == ASSUME WatchInv, [WatchNext]_watchVars PROVE WatchInv'
<1>1. CASE Tick
    BY <1>1, TickKeeps
<1>2. CASE \E answering \in SUBSET Sources : Refresh(answering)
    BY <1>2, RefreshKeeps
<1>3. ASSUME NEW s \in Sources, ToggleSource(s) \/ Watching(s) PROVE WatchInv'
    <2>1. UNCHANGED <<cache, heard>>
        BY <1>3 DEF ToggleSource, Watching
    <2>2. WatchTyped'
        BY <1>3, WatchAssumption DEF WatchInv, WatchTyped, ToggleSource, Watching
    <2>3. QED
        BY <2>1, <2>2 DEF WatchInv, RowsAreAsFresh, RowsHaveSources
<1>4. CASE UNCHANGED watchVars
    BY <1>4 DEF WatchInv, WatchTyped, RowsAreAsFresh, RowsHaveSources, watchVars
<1>5. QED
    BY <1>1, <1>2, <1>3, <1>4 DEF WatchNext

\* A title is boosted while, and only while, a source has lately signalled it,
\* for any number of sources and titles and whatever they report.
THEOREM BoostHolds == WatchInit /\ [][WatchNext]_watchVars => []BoostFollowsActivity
<1>1. ASSUME WatchInv PROVE BoostFollowsActivity
    <2>1. OutageKeepsSignal
        <3>1. SUFFICES ASSUME NEW s \in Sources, NEW t \in Titles, SignalledLately(s, t)
                       PROVE  Fresh(t)
            BY DEF OutageKeepsSignal
        <3>2. heard[s] # NoReport /\ heard[s].age <= TTL /\ Signals(heard[s].report[t])
            BY <3>1 DEF SignalledLately, Signals
        <3>3. cache[t] # NoRow /\ cache[t].age <= heard[s].age
            BY <1>1, <3>2 DEF WatchInv, RowsAreAsFresh
        <3>4. cache[t].age \in Nat /\ heard[s].age \in Nat
            BY <1>1, <3>2, <3>3, WatchAssumption DEF WatchInv, WatchTyped, Scores, Answers
        <3>5. QED
            BY <3>2, <3>3, <3>4, WatchAssumption DEF Fresh
    <2>2. BoostIsRecent
        <3>1. SUFFICES ASSUME NEW t \in Titles, Fresh(t)
                       PROVE  \E s \in cache[t].sources : heard[s].age <= TTL
            BY DEF BoostIsRecent
        <3>2. PICK s \in cache[t].sources : heard[s] # NoReport /\ heard[s].age <= cache[t].age
            BY <1>1, <3>1 DEF WatchInv, RowsHaveSources, Fresh
        <3>3. cache[t] \in Scores /\ heard[s] \in Answers
            BY <1>1, <3>1, <3>2 DEF WatchInv, WatchTyped, Fresh, Scores
        <3>4. cache[t].age \in Nat /\ heard[s].age \in Nat
            BY <3>3, WatchAssumption DEF Scores, Answers
        <3>5. QED
            BY <3>1, <3>2, <3>4, WatchAssumption DEF Fresh
    <2>3. QED
        BY <2>1, <2>2 DEF BoostFollowsActivity
<1>2. QED
    BY <1>1, WatchInvInit, WatchInvStep, PTL

-----------------------------------------------------------------------------
(* Doctor, for any number of changes of the world during a run.            *)

\* The faults a run with the context c reports.
Found(c) == {finding.fault : finding \in Findings(c)}

WiringFaults == {"Bazarr down", "other translator", "no Lingarr URL"}

\* Nothing is reported that the context does not show.
LEMMA FoundIsKnown == ASSUME NEW c PROVE Found(c) \subseteq c
<1>1. \A check, severity, faults : \A x \in Finding(check, severity, faults) : x.fault \in faults
    BY DEF Finding
<1>2. \A x \in TranslatorWiring(c) : x.fault \in c
    BY <1>1 DEF TranslatorWiring
<1>3. \A x \in LingarrAutomation(c) : x.fault \in c
    BY <1>1 DEF LingarrAutomation
<1>4. \A x \in UpgradeTranslated(c) : x.fault \in c
    BY <1>1 DEF UpgradeTranslated
<1>5. \A x \in LanguageProfiles(c) : x.fault \in c
    BY <1>1 DEF LanguageProfiles
<1>6. \A x \in LingarrServiceConfigured(c) : x.fault \in c
    BY <1>1 DEF LingarrServiceConfigured
<1>7. \A x \in LanguageCodeEdgeCases(c) : x.fault \in c
    BY <1>1 DEF LanguageCodeEdgeCases
<1>8. \A x \in SubtitleValidationLimits(c) : x.fault \in c
    BY <1>1 DEF SubtitleValidationLimits
<1>9. \A x \in ConcurrencyHeadroom(c) : x.fault \in c
    BY <1>1 DEF ConcurrencyHeadroom
<1>10. \A x \in CircuitBreakerState(c) : x.fault \in c
    BY <1>1 DEF CircuitBreakerState
<1>11. \A x \in TelemetryStreamHealth(c) : x.fault \in c
    BY <1>1 DEF TelemetryStreamHealth
<1>12. \A x \in OperationalSanity(c) : x.fault \in c
    BY <1>1 DEF OperationalSanity
<1>13. \A x \in WatchSourceHealth(c) : x.fault \in c
    BY <1>1 DEF WatchSourceHealth
<1>14. QED
    BY <1>2, <1>3, <1>4, <1>5, <1>6, <1>7, <1>8, <1>9, <1>10, <1>11, <1>12, <1>13
       DEF Found, Findings

\* What the context shows is reported, or what hides it is.
LEMMA KnownIsFound ==
  ASSUME NEW c \in SUBSET Faults, NEW f \in c
  PROVE  f \in Found(c) \/ Hides[f] \cap Found(c) # {}
<1>1. \A check, severity, faults :
        Finding(check, severity, faults) \subseteq Findings(c) => faults \subseteq Found(c)
    <2>1. SUFFICES ASSUME NEW check, NEW severity, NEW faults, NEW x \in faults,
                          Finding(check, severity, faults) \subseteq Findings(c)
                   PROVE  x \in Found(c)
        OBVIOUS
    <2>2. [check |-> check, severity |-> severity, fault |-> x] \in Findings(c)
        BY <2>1 DEF Finding
    <2>3. QED
        BY <2>2 DEF Found
<1>2. /\ "Bazarr down" \in c => "Bazarr down" \in Found(c)
      /\ "other translator" \in c => {"Bazarr down", "other translator"} \cap Found(c) # {}
      /\ "no Lingarr URL" \in c => WiringFaults \cap Found(c) # {}
      /\ \A g \in {"no token", "Lingarr down"} : g \in c => g \in Found(c) \/ WiringFaults \cap Found(c) # {}
    <2>1. TranslatorWiring(c) \subseteq Findings(c)
        BY DEF Findings
    <2>2. "Bazarr down" \in c => "Bazarr down" \in Found(c)
        BY <1>1, <2>1 DEF TranslatorWiring
    <2>3. "Bazarr down" \notin c /\ "other translator" \in c => "other translator" \in Found(c)
        BY <1>1, <2>1 DEF TranslatorWiring
    <2>4. "Bazarr down" \notin c /\ "other translator" \notin c /\ "no Lingarr URL" \in c
            => "no Lingarr URL" \in Found(c)
        BY <1>1, <2>1 DEF TranslatorWiring
    <2>5. c \cap WiringFaults = {} => c \cap {"no token", "Lingarr down"} \subseteq Found(c)
        <3>1. SUFFICES ASSUME c \cap WiringFaults = {}
                       PROVE  c \cap {"no token", "Lingarr down"} \subseteq Found(c)
            OBVIOUS
        <3>2. /\ Finding("FR-DR1", "warn", c \cap {"no token"}) \subseteq Findings(c)
              /\ Finding("FR-DR1", "critical", c \cap {"Lingarr down"}) \subseteq Findings(c)
            BY <2>1, <3>1 DEF TranslatorWiring, WiringFaults
        <3>3. QED
            BY <1>1, <3>2, ZenonT(40)
    <2>6. QED
        BY <2>2, <2>3, <2>4, <2>5 DEF WiringFaults
<1>3. c \cap {"automation", "no upgrades", "no profiles", "no service", "converted codes",
              "pair unknown"} \subseteq Found(c)
    <2>1. c \cap {"automation"} \subseteq Found(c)
        BY <1>1 DEF Findings, LingarrAutomation
    <2>2. c \cap {"no upgrades"} \subseteq Found(c)
        BY <1>1 DEF Findings, UpgradeTranslated
    <2>3. c \cap {"no profiles"} \subseteq Found(c)
        <3>1. "no profiles" \in c => Finding("FR-DR4", "warn", {"no profiles"}) \subseteq Findings(c)
            BY DEF Findings, LanguageProfiles
        <3>2. QED
            BY <1>1, <3>1
    <2>4. c \cap {"no service"} \subseteq Found(c)
        BY <1>1 DEF Findings, LingarrServiceConfigured
    <2>5. c \cap {"converted codes"} \subseteq Found(c) /\ c \cap {"pair unknown"} \subseteq Found(c)
        <3>1. /\ Finding("FR-DR6", "info", c \cap {"converted codes"}) \subseteq Findings(c)
              /\ Finding("FR-DR6", "warn", c \cap {"pair unknown"}) \subseteq Findings(c)
            BY DEF Findings, LanguageCodeEdgeCases
        <3>2. QED
            BY <1>1, <3>1
    <2>6. QED
        BY <2>1, <2>2, <2>3, <2>4, <2>5
<1>4. c \cap {"small limit", "no headroom", "breaker not closed", "stream not live",
              "never synced", "open forward-auth", "watch source down"} \subseteq Found(c)
    <2>1. c \cap {"small limit"} \subseteq Found(c)
        BY <1>1 DEF Findings, SubtitleValidationLimits
    <2>2. c \cap {"no headroom"} \subseteq Found(c)
        BY <1>1 DEF Findings, ConcurrencyHeadroom
    <2>3. c \cap {"breaker not closed"} \subseteq Found(c)
        BY <1>1 DEF Findings, CircuitBreakerState
    <2>4. c \cap {"stream not live"} \subseteq Found(c)
        BY <1>1 DEF Findings, TelemetryStreamHealth
    <2>5. c \cap {"never synced"} \subseteq Found(c) /\ c \cap {"open forward-auth"} \subseteq Found(c)
        <3>1. /\ "never synced" \in c =>
                   Finding("FR-DR11", "warn", {"never synced"}) \subseteq Findings(c)
              /\ Finding("FR-DR11", "critical", c \cap {"open forward-auth"}) \subseteq Findings(c)
            BY DEF Findings, OperationalSanity
        <3>2. QED
            BY <1>1, <3>1
    <2>6. c \cap {"watch source down"} \subseteq Found(c)
        BY <1>1 DEF Findings, WatchSourceHealth
    <2>7. QED
        BY <2>1, <2>2, <2>3, <2>4, <2>5, <2>6
<1>5. \A g \in c \cap {"empty profile", "target not wanted"} :
        g \in Found(c) \/ "no profiles" \in Found(c)
    BY <1>1, <1>3 DEF Findings, LanguageProfiles
<1>6. "stale mirror" \in c => "stale mirror" \in Found(c) \/ "never synced" \in Found(c)
    BY <1>1, <1>4, ZenonT(40) DEF Findings, OperationalSanity
<1>7. f \in Faults
    OBVIOUS
<1>8. CASE f \in WiringFaults
    BY <1>2, <1>7, <1>8 DEF Hides, WiringFaults, Faults, LingarrFaults, BazarrFaults
<1>9. CASE f \in {"no token", "Lingarr down"}
    BY <1>2, <1>7, <1>9 DEF Hides, WiringFaults, Faults, LingarrFaults, BazarrFaults
<1>10. CASE f \in {"empty profile", "target not wanted", "stale mirror"}
    BY <1>5, <1>6, <1>7, <1>10 DEF Hides, Faults, LingarrFaults, BazarrFaults
<1>11. QED
    BY <1>3, <1>4, <1>7, <1>8, <1>9, <1>10
       DEF Faults, LocalFaults, BazarrFaults, LingarrFaults, GlobalFaults, WiringFaults

\* The faults that have been there all through a run and that it can see.
Visible == standing \ Unknown(run.by)

DoctorTyped ==
  /\ world \subseteq Faults
  /\ run # NoRun => run \in [by : {"app", "cli"}, context : SUBSET Faults,
                             reads : {"local", "Bazarr", "Lingarr", "sources", "done"}]

\* What a run knows it has seen, and what has stood all along is there now.
ContextIsTrue ==
  run # NoRun => standing \subseteq world /\ world \subseteq glimpsed /\ run.context \subseteq glimpsed

\* What has stood all along is known once its source was read, unless that
\* source, or the one it depends on, was down.
ReadIsKnown ==
  run # NoRun =>
    /\ Visible \cap {"open forward-auth"} \subseteq run.context
    /\ run.reads # "local" => Visible \cap LocalFaults \subseteq run.context
    /\ run.reads \in {"Lingarr", "sources", "done"} =>
         \/ "Bazarr down" \in run.context
         \/ Visible \cap BazarrFaults \subseteq run.context /\ "Bazarr down" \notin Visible
    /\ run.reads \in {"sources", "done"} =>
         \/ {"Bazarr down", "Lingarr down"} \cap run.context # {}
         \/ Visible \cap LingarrFaults \subseteq run.context /\ "Lingarr down" \notin Visible
    /\ run.reads = "done" => Visible \cap {"watch source down"} \subseteq run.context

DoctorInv == DoctorTyped /\ ContextIsTrue /\ ReadIsKnown
\* At the start no check has been made.
LEMMA DoctorInvInit == ASSUME DoctorInit PROVE DoctorInv
BY DEF DoctorInit, DoctorInv, DoctorTyped, ContextIsTrue, ReadIsKnown

\* A read: the next stage, and more of what there is now.
LEMMA LearnsWhatIs ==
  ASSUME DoctorInv, run # NoRun, NEW faults \in SUBSET world,
         NEW next \in {"Bazarr", "Lingarr", "sources", "done"}, Learns(faults, next)
  PROVE  /\ DoctorTyped' /\ ContextIsTrue' /\ Visible' = Visible
         /\ run'.context = run.context \cup faults /\ run'.reads = next /\ run'.by = run.by
         /\ Visible \subseteq world /\ UNCHANGED <<standing, world>>
<1>1. run \in [by : {"app", "cli"}, context : SUBSET Faults,
              reads : {"local", "Bazarr", "Lingarr", "sources", "done"}]
    BY DEF DoctorInv, DoctorTyped
<1>2. /\ run'.context = run.context \cup faults /\ run'.reads = next /\ run'.by = run.by
      /\ UNCHANGED <<world, standing, glimpsed>>
    BY <1>1 DEF Learns
<1>3. DoctorTyped'
    BY <1>1, <1>2 DEF DoctorInv, DoctorTyped, Learns
<1>4. ContextIsTrue'
    BY <1>2 DEF DoctorInv, ContextIsTrue
<1>5. QED
    BY <1>2, <1>3, <1>4 DEF Visible, DoctorInv, ContextIsTrue

\* Every step of a run, and every change of the world around it, keeps the
\* invariant.
LEMMA DoctorInvStep == ASSUME DoctorInv, [DoctorNext]_doctorVars PROVE DoctorInv'
<1>1. CASE ReadLocal
    <2>1. run # NoRun /\ run.reads = "local"
          /\ Learns((world \cap LocalFaults) \ Unknown(run.by), "Bazarr")
        BY <1>1 DEF ReadLocal, Reads
    <2>2. /\ DoctorTyped' /\ ContextIsTrue' /\ Visible' = Visible /\ Visible \subseteq world
          /\ run'.context = run.context \cup ((world \cap LocalFaults) \ Unknown(run.by))
          /\ run'.reads = "Bazarr"
        BY <2>1, LearnsWhatIs
    <2>3. Visible \cap LocalFaults \subseteq (world \cap LocalFaults) \ Unknown(run.by)
        BY <2>2 DEF Visible
    <2>4. ReadIsKnown'
        BY <2>1, <2>2, <2>3 DEF DoctorInv, ReadIsKnown
    <2>5. QED
        BY <2>2, <2>4 DEF DoctorInv
<1>2. CASE ReadBazarr
    <2>1. run # NoRun /\ run.reads = "Bazarr"
        BY <1>2 DEF ReadBazarr, Reads
    <2>2. CASE "Bazarr down" \in world
        <3>1. Learns({"Bazarr down"}, "sources")
            BY <1>2, <2>2 DEF ReadBazarr
        <3>2. /\ DoctorTyped' /\ ContextIsTrue' /\ Visible' = Visible
              /\ run'.context = run.context \cup {"Bazarr down"} /\ run'.reads = "sources"
            BY <2>1, <2>2, <3>1, LearnsWhatIs
        <3>3. ReadIsKnown'
            BY <2>1, <3>2 DEF DoctorInv, ReadIsKnown
        <3>4. QED
            BY <3>2, <3>3 DEF DoctorInv
    <2>3. CASE "Bazarr down" \notin world
        <3>1. Learns(world \cap BazarrFaults, "Lingarr")
            BY <1>2, <2>3 DEF ReadBazarr
        <3>2. /\ DoctorTyped' /\ ContextIsTrue' /\ Visible' = Visible /\ Visible \subseteq world
              /\ run'.context = run.context \cup (world \cap BazarrFaults)
              /\ run'.reads = "Lingarr"
            BY <2>1, <3>1, LearnsWhatIs
        <3>3. ReadIsKnown'
            BY <2>1, <2>3, <3>2 DEF DoctorInv, ReadIsKnown
        <3>4. QED
            BY <3>2, <3>3 DEF DoctorInv
    <2>4. QED
        BY <2>2, <2>3
<1>3. CASE ReadLingarr
    <2>1. run # NoRun /\ run.reads = "Lingarr"
        BY <1>3 DEF ReadLingarr, Reads
    <2>2. CASE "Lingarr down" \in world
        <3>1. Learns({"Lingarr down"}, "sources")
            BY <1>3, <2>2 DEF ReadLingarr
        <3>2. /\ DoctorTyped' /\ ContextIsTrue' /\ Visible' = Visible
              /\ run'.context = run.context \cup {"Lingarr down"} /\ run'.reads = "sources"
            BY <2>1, <2>2, <3>1, LearnsWhatIs
        <3>3. ReadIsKnown'
            BY <2>1, <3>2 DEF DoctorInv, ReadIsKnown
        <3>4. QED
            BY <3>2, <3>3 DEF DoctorInv
    <2>3. CASE "Lingarr down" \notin world
        <3>1. Learns(world \cap LingarrFaults, "sources")
            BY <1>3, <2>3 DEF ReadLingarr
        <3>2. /\ DoctorTyped' /\ ContextIsTrue' /\ Visible' = Visible /\ Visible \subseteq world
              /\ run'.context = run.context \cup (world \cap LingarrFaults)
              /\ run'.reads = "sources"
            BY <2>1, <3>1, LearnsWhatIs
        <3>3. ReadIsKnown'
            BY <2>1, <2>3, <3>2 DEF DoctorInv, ReadIsKnown
        <3>4. QED
            BY <3>2, <3>3 DEF DoctorInv
    <2>4. QED
        BY <2>2, <2>3
<1>4. CASE ReadSources
    <2>1. run # NoRun /\ run.reads = "sources" /\ Learns(world \cap {"watch source down"}, "done")
        BY <1>4 DEF ReadSources, Reads
    <2>2. /\ DoctorTyped' /\ ContextIsTrue' /\ Visible' = Visible /\ Visible \subseteq world
          /\ run'.context = run.context \cup (world \cap {"watch source down"})
          /\ run'.reads = "done"
        BY <2>1, LearnsWhatIs
    <2>3. ReadIsKnown'
        BY <2>1, <2>2 DEF DoctorInv, ReadIsKnown
    <2>4. QED
        BY <2>2, <2>3 DEF DoctorInv
<1>5. CASE Completes \/ RunIsLost
    BY <1>5 DEF Completes, RunIsLost, DoctorInv, DoctorTyped, ContextIsTrue, ReadIsKnown
<1>6. ASSUME NEW by \in {"app", "cli"}, RunBegins(by) PROVE DoctorInv'
    <2>1. /\ run'.by = by /\ run'.reads = "local"
          /\ run'.context = (world \cap {"open forward-auth"}) \ Unknown(by)
          /\ standing' = world /\ glimpsed' = world /\ world' = world
        BY <1>6 DEF RunBegins
    <2>2. DoctorTyped'
        BY <1>6 DEF RunBegins, DoctorInv, DoctorTyped
    <2>3. ContextIsTrue'
        BY <2>1 DEF ContextIsTrue
    <2>4. ReadIsKnown'
        BY <2>1 DEF ReadIsKnown, Visible
    <2>5. QED
        BY <2>2, <2>3, <2>4 DEF DoctorInv
<1>7. ASSUME NEW f \in Faults, Turns(f) PROVE DoctorInv'
    <2>1. /\ run' = run /\ standing' \subseteq standing /\ standing' \subseteq world'
          /\ world' \subseteq world \cup {f}
          /\ run # NoRun => glimpsed' = glimpsed \cup world'
        BY <1>7 DEF Turns
    <2>2. DoctorTyped' /\ ContextIsTrue'
        BY <2>1 DEF DoctorInv, DoctorTyped, ContextIsTrue
    <2>3. Visible' \subseteq Visible
        BY <2>1 DEF Visible
    <2>4. ReadIsKnown'
        BY <2>1, <2>3 DEF DoctorInv, ReadIsKnown
    <2>5. QED
        BY <2>2, <2>4 DEF DoctorInv
<1>8. CASE UNCHANGED doctorVars
    BY <1>8 DEF doctorVars, DoctorInv, DoctorTyped, ContextIsTrue, ReadIsKnown, Visible
<1>9. QED
    BY <1>1, <1>2, <1>3, <1>4, <1>5, <1>6, <1>7, <1>8 DEF DoctorNext

\* A run that completes reports every visible fault that has stood all along,
\* or what hides it, and nothing that was not the case.
LEMMA CompletedRunIsTrue ==
  ASSUME DoctorInv, Completes
  PROVE  /\ \A f \in standing \ Unknown(run.by) : f \in Blamed \/ Hides[f] \cap Blamed # {}
         /\ Blamed \subseteq glimpsed
<1> DEFINE c == run.context
<1>1. /\ run # NoRun /\ run.reads = "done" /\ c \in SUBSET Faults /\ standing \subseteq Faults
    BY DEF Completes, Reads, DoctorInv, DoctorTyped, ContextIsTrue
<1>2. Blamed = Found(c)
    BY DEF Blamed, Found, Completes
<1>3. Blamed \subseteq glimpsed
    BY <1>1, <1>2, FoundIsKnown DEF DoctorInv, ContextIsTrue
<1>4. ASSUME NEW f \in Visible PROVE f \in Found(c) \/ Hides[f] \cap Found(c) # {}
    <2>1. f \in Faults
        BY <1>1 DEF Visible
    <2>2. CASE f \in c
        BY <1>1, <2>2, KnownIsFound
    <2>3. CASE "Bazarr down" \in c /\ f \in BazarrFaults \cup LingarrFaults \cup {"Lingarr down"}
        <3>1. "Bazarr down" \in Hides[f]
            BY <2>1, <2>3 DEF Hides, BazarrFaults, LingarrFaults
        <3>2. Hides["Bazarr down"] = {} 
            BY DEF Hides, BazarrFaults, LingarrFaults, Faults
        <3>3. QED
            BY <1>1, <2>3, <3>1, <3>2, KnownIsFound
    <2>4. CASE "Lingarr down" \in c /\ f \in LingarrFaults
        <3>1. WiringFaults \cup {"Lingarr down"} \subseteq Hides[f]
            BY <2>1, <2>4 DEF Hides, WiringFaults, LingarrFaults, BazarrFaults
        <3>2. Hides["Lingarr down"] \subseteq WiringFaults
            BY DEF Hides, LingarrFaults, BazarrFaults, Faults, WiringFaults
        <3>3. "Lingarr down" \in Found(c) \/ Hides["Lingarr down"] \cap Found(c) # {}
            BY <1>1, <2>4, KnownIsFound
        <3>4. QED
            BY <3>1, <3>2, <3>3
    <2>5. QED
        BY <1>1, <1>4, <2>1, <2>2, <2>3, <2>4
           DEF DoctorInv, ReadIsKnown, Faults, GlobalFaults
<1>5. QED
    BY <1>2, <1>3, <1>4 DEF Visible

\* No false all-clear and no false alarm, however many faults come and go
\* while the run reads.
THEOREM ReportsHold == DoctorInit /\ [][DoctorNext]_doctorVars => ReportsAreTrue
<1>1. ASSUME DoctorInv, [DoctorNext]_doctorVars
      PROVE  /\ [Completes => \A f \in standing \ Unknown(run.by) :
                                 f \in Blamed \/ Hides[f] \cap Blamed # {}]_doctorVars
             /\ [Completes => Blamed \subseteq glimpsed]_doctorVars
    <2>1. Completes => /\ \A f \in standing \ Unknown(run.by) :
                            f \in Blamed \/ Hides[f] \cap Blamed # {}
                       /\ Blamed \subseteq glimpsed
        BY <1>1, CompletedRunIsTrue
    <2>2. QED
        BY <2>1
<1>2. QED
    BY <1>1, DoctorInvInit, DoctorInvStep, PTL
       DEF ReportsAreTrue, StandingFaultsAreFound, FindingsWereTrue

-----------------------------------------------------------------------------
(* DatabaseSchema, for any number of rows, whether or not the database     *)
(* enforces its references.                                                *)

\* A reference leads to a table that is created before the one it comes from.
ComesAfter(ref) ==
  \E k \in 1 .. 30 : \E j \in 1 .. k - 1 :
    CreationOrder[j] = ref.to /\ CreationOrder[k] = ref.from

\* It cascades, or is the link of a Bazarr to its Lingarr; no Lingarr refers.
Cascades(ref) ==
  /\ ref.from # "lingarr_instance" /\ ref.from # ref.to
  /\ \/ ref.onDelete = "CASCADE"
     \/ /\ ref.from = "bazarr_instance" /\ ref.column = "lingarr_instance_id"
        /\ ref.to = "lingarr_instance"

Fits(ref) == ComesAfter(ref) /\ Cascades(ref)

LEMMA ByPosition ==
  ASSUME NEW ref, NEW k \in 1 .. 30, NEW j \in 1 .. k - 1,
         CreationOrder[j] = ref.to, CreationOrder[k] = ref.from
  PROVE  ComesAfter(ref)
  BY DEF ComesAfter

LEMMA OwnedFits ==
  ASSUME NEW k \in 1 .. 30, NEW j \in 1 .. k - 1, NEW column,
         CreationOrder[k] # "lingarr_instance", CreationOrder[k] # CreationOrder[j]
  PROVE  LET owned == Owned(CreationOrder[k], column, CreationOrder[j])
             ifSet == OwnedIfSet(CreationOrder[k], column, CreationOrder[j])
         IN  Fits(owned) /\ Fits(ifSet)
<1> DEFINE owned == Owned(CreationOrder[k], column, CreationOrder[j])
           ifSet == OwnedIfSet(CreationOrder[k], column, CreationOrder[j])
<1>1. Fits(owned)  BY ByPosition DEF Fits, Cascades, Owned
<1>2. Fits(ifSet)  BY ByPosition DEF Fits, Cascades, Owned, OwnedIfSet
<1> QED  BY <1>1, <1>2

LEMMA InstanceTablesFit == \A ref \in InstanceTables : Fits(ref)
<1>1. Fits(Owned(CreationOrder[11], "user_id", CreationOrder[8]))
  BY OwnedFits DEF CreationOrder
<1>2. Fits(Linked("bazarr_instance", "lingarr_instance_id", "lingarr_instance"))
  <2> DEFINE ref == Linked("bazarr_instance", "lingarr_instance_id", "lingarr_instance")
  <2>1. CreationOrder[4] = ref.to /\ CreationOrder[12] = ref.from  BY DEF CreationOrder, Linked
  <2>2. Cascades(ref)  BY DEF Cascades, Linked
  <2> HIDE DEF ref
  <2>3. ComesAfter(ref)  BY <2>1, ByPosition
  <2>4. Fits(ref)  BY <2>2, <2>3 DEF Fits
  <2> QED  BY <2>4 DEF ref
<1>3. Fits(Owned(CreationOrder[13], "lingarr_instance_id", CreationOrder[4]))
  BY OwnedFits DEF CreationOrder
<1> QED  BY <1>1, <1>2, <1>3 DEF InstanceTables, CreationOrder

LEMMA FindingAndExclusionTablesFit == \A ref \in FindingAndExclusionTables : Fits(ref)
<1>1. Fits(OwnedIfSet(CreationOrder[14], "bazarr_instance_id", CreationOrder[12]))
  BY OwnedFits DEF CreationOrder
<1>2. Fits(OwnedIfSet(CreationOrder[14], "lingarr_instance_id", CreationOrder[4]))
  BY OwnedFits DEF CreationOrder
<1>3. Fits(Owned(CreationOrder[14], "run_id", CreationOrder[3]))
  BY OwnedFits DEF CreationOrder
<1>4. Fits(Owned(CreationOrder[15], "bazarr_instance_id", CreationOrder[12]))
  BY OwnedFits DEF CreationOrder
<1> QED  BY <1>1, <1>2, <1>3, <1>4 DEF FindingAndExclusionTables, OfInstance, CreationOrder

LEMMA IntentAndMovieTablesFit == \A ref \in IntentAndMovieTables : Fits(ref)
<1>1. Fits(Owned(CreationOrder[16], "bazarr_instance_id", CreationOrder[12]))
  BY OwnedFits DEF CreationOrder
<1>2. Fits(Owned(CreationOrder[17], "bazarr_instance_id", CreationOrder[12]))
  BY OwnedFits DEF CreationOrder
<1> QED  BY <1>1, <1>2 DEF IntentAndMovieTables, OfInstance, CreationOrder

LEMMA PolicyTablesFit == \A ref \in PolicyTables : Fits(ref)
<1>1. Fits(Owned(CreationOrder[19], "profile_id", CreationOrder[7]))
  BY OwnedFits DEF CreationOrder
<1>2. Fits(Owned(CreationOrder[18], "bazarr_instance_id", CreationOrder[12]))
  BY OwnedFits DEF CreationOrder
<1>3. Fits(Owned(CreationOrder[19], "bazarr_instance_id", CreationOrder[12]))
  BY OwnedFits DEF CreationOrder
<1> QED  BY <1>1, <1>2, <1>3 DEF PolicyTables, OfInstance, CreationOrder

LEMMA RailAndSeriesTablesFit == \A ref \in RailAndSeriesTables : Fits(ref)
<1>1. Fits(OwnedIfSet(CreationOrder[20], "bazarr_instance_id", CreationOrder[12]))
  BY OwnedFits DEF CreationOrder
<1>2. Fits(Owned(CreationOrder[21], "bazarr_instance_id", CreationOrder[12]))
  BY OwnedFits DEF CreationOrder
<1> QED  BY <1>1, <1>2 DEF RailAndSeriesTables, OfInstance, CreationOrder

LEMMA StatsTablesFit == \A ref \in StatsTables : Fits(ref)
<1>1. Fits(Owned(CreationOrder[22], "bazarr_instance_id", CreationOrder[12]))
  BY OwnedFits DEF CreationOrder
<1>2. Fits(Owned(CreationOrder[23], "bazarr_instance_id", CreationOrder[12]))
  BY OwnedFits DEF CreationOrder
<1> QED  BY <1>1, <1>2 DEF StatsTables, OfInstance, CreationOrder

LEMMA SyncTablesFit == \A ref \in SyncTables : Fits(ref)
<1>1. Fits(Owned(CreationOrder[24], "bazarr_instance_id", CreationOrder[12]))
  BY OwnedFits DEF CreationOrder
<1>2. Fits(Owned(CreationOrder[25], "bazarr_instance_id", CreationOrder[12]))
  BY OwnedFits DEF CreationOrder
<1> QED  BY <1>1, <1>2 DEF SyncTables, OfInstance, CreationOrder

LEMMA EpisodeAndEventTablesFit == \A ref \in EpisodeAndEventTables : Fits(ref)
<1>1. Fits(Owned(CreationOrder[26], "series_id", CreationOrder[21]))
  BY OwnedFits DEF CreationOrder
<1>2. Fits(Owned(CreationOrder[27], "intent_id", CreationOrder[16]))
  BY OwnedFits DEF CreationOrder
<1>3. Fits(Owned(CreationOrder[28], "intent_id", CreationOrder[16]))
  BY OwnedFits DEF CreationOrder
<1>4. Fits(Owned(CreationOrder[26], "bazarr_instance_id", CreationOrder[12]))
  BY OwnedFits DEF CreationOrder
<1> QED  BY <1>1, <1>2, <1>3, <1>4 DEF EpisodeAndEventTables, OfInstance, CreationOrder

LEMMA SubtitleTablesFit == \A ref \in SubtitleTables : Fits(ref)
<1>1. Fits(OwnedIfSet(CreationOrder[29], "episode_id", CreationOrder[26]))
  BY OwnedFits DEF CreationOrder
<1>2. Fits(OwnedIfSet(CreationOrder[29], "movie_id", CreationOrder[17]))
  BY OwnedFits DEF CreationOrder
<1>3. Fits(OwnedIfSet(CreationOrder[30], "episode_id", CreationOrder[26]))
  BY OwnedFits DEF CreationOrder
<1>4. Fits(OwnedIfSet(CreationOrder[30], "movie_id", CreationOrder[17]))
  BY OwnedFits DEF CreationOrder
<1>5. Fits(Owned(CreationOrder[29], "bazarr_instance_id", CreationOrder[12]))
  BY OwnedFits DEF CreationOrder
<1>6. Fits(Owned(CreationOrder[30], "bazarr_instance_id", CreationOrder[12]))
  BY OwnedFits DEF CreationOrder
<1> QED  BY <1>1, <1>2, <1>3, <1>4, <1>5, <1>6 DEF SubtitleTables, OfInstance, CreationOrder

LEMMA ReferencesFit == \A ref \in References : Fits(ref)
  BY InstanceTablesFit, FindingAndExclusionTablesFit, IntentAndMovieTablesFit, PolicyTablesFit,
     RailAndSeriesTablesFit, StatsTablesFit, SyncTablesFit, EpisodeAndEventTablesFit,
     SubtitleTablesFit DEF References

LEMMA OrderOfTables ==
  /\ DOMAIN CreationOrder = 1 .. 30 /\ DOMAIN DropOrder = 1 .. 30
  /\ \A i \in 1 .. 30 : DropOrder[i] = CreationOrder[31 - i]
<1>1. DOMAIN CreationOrder = 1 .. 30 /\ Len(CreationOrder) = 30  BY DEF CreationOrder
<1> QED  BY <1>1 DEF DropOrder, Reverse

LEMMA CreateTableKeepsClosed ==
  ASSUME SchemaIsClosed, NEW t, CreateTable(t) PROVE SchemaIsClosed'
<1> SUFFICES ASSUME NEW ref \in References, ref.from \in tables' PROVE ref.to \in tables'
  BY DEF SchemaIsClosed
<1>1. tables' = tables \cup {t}  BY DEF CreateTable
<1>2. CASE ref.from \in tables  BY <1>1, <1>2 DEF SchemaIsClosed
<1>3. CASE ref.from = t
  <2> PICK k \in 1 .. 30 : \E j \in 1 .. k - 1 :
        CreationOrder[j] = ref.to /\ CreationOrder[k] = ref.from
    BY ReferencesFit DEF Fits, ComesAfter
  <2>1. PICK j \in 1 .. k - 1 : CreationOrder[j] = ref.to /\ CreationOrder[k] = ref.from
    OBVIOUS
  <2>2. tables = {CreationOrder[i] : i \in 1 .. k - 1}
    BY <1>3, <2>1, OrderOfTables DEF CreateTable
  <2> QED  BY <1>1, <2>1, <2>2
<1> QED  BY <1>1, <1>2, <1>3

LEMMA DropTableKeepsClosed ==
  ASSUME SchemaIsClosed, NEW t, DropTable(t) PROVE SchemaIsClosed'
<1> SUFFICES ASSUME NEW ref \in References, ref.from \in tables' PROVE ref.to \in tables'
  BY DEF SchemaIsClosed
<1>1. tables' = tables \ {t}  BY DEF DropTable
<1>2. ref.to # t
  <2> SUFFICES ASSUME ref.to = t PROVE FALSE
    OBVIOUS
  <2> PICK k \in 1 .. 30 : \E j \in 1 .. k - 1 :
        CreationOrder[j] = ref.to /\ CreationOrder[k] = ref.from
    BY ReferencesFit DEF Fits, ComesAfter
  <2>1. PICK j \in 1 .. k - 1 : CreationOrder[j] = ref.to /\ CreationOrder[k] = ref.from
    OBVIOUS
  <2>2. 31 - j \in 1 .. 30 /\ 31 - k \in 1 .. (31 - j) - 1 /\ 31 - (31 - j) = j
        /\ 31 - (31 - k) = k
    OBVIOUS
  <2>3. DropOrder[31 - j] = t /\ DropOrder[31 - k] = ref.from
    BY <2>1, <2>2, OrderOfTables
  <2>4. AllTables \ tables = {DropOrder[i] : i \in 1 .. (31 - j) - 1}
    BY <2>2, <2>3, OrderOfTables DEF DropTable
  <2>5. ref.from \notin tables  BY <2>2, <2>3, <2>4
  <2> QED  BY <1>1, <2>5
<1> QED  BY <1>1, <1>2 DEF SchemaIsClosed
-----------------------------------------------------------------------------
RowsNumbered == \A row \in dbRows : row.id \in Nat

\* With the ids known to be numbers, a column that is null refers to no row,
\* not even to the next one inserted.
SchemaInv == ReferencesHold /\ RowsNumbered

LEMMA DoomedIsClosed ==
  ASSUME NEW key, NEW row \in dbRows, NEW parent \in Doomed(key),
         NEW ref \in ReferencesOf(row.table), PassesOn(ref), Target(row, ref) = Key(parent)
  PROVE  row \in Doomed(key)
<1> SUFFICES ASSUME NEW gone \in SUBSET dbRows, Takes(gone, key) PROVE row \in gone
  BY DEF Doomed
<1>1. parent \in gone  BY DEF Doomed
<1>2. HangsFrom(row, gone)  BY <1>1 DEF HangsFrom
<1> QED  BY <1>2 DEF Takes

\* Nothing takes a Lingarr along.
LEMMA LingarrGoesByItself ==
  ASSUME NEW key, NEW row \in Doomed(key), row.table = "lingarr_instance"
  PROVE  Key(row) = key
<1> SUFFICES ASSUME Key(row) # key PROVE FALSE
  OBVIOUS
<1> DEFINE gone == dbRows \ {row}
<1>1. ~ HangsFrom(row, gone)
  BY ReferencesFit DEF HangsFrom, ReferencesOf, Fits, Cascades
<1>2. Takes(gone, key)
  BY <1>1 DEF Takes
<1> QED  BY <1>2 DEF Doomed

LEMMA DeleteKeepsNoDangling ==
  ASSUME NoDangling, NEW key, Delete(key) PROVE NoDangling'
<1>1. dbRows' = dbRows \ Doomed(key) /\ enforced' = enforced  BY DEF Delete, schemaVars
<1> SUFFICES ASSUME NEW row \in dbRows', NEW ref \in ReferencesOf(row.table),
                    row.refs[ref.column] # Null,
                    enforced \/ <<ref.from, ref.column>> \in OrmCascades
             PROVE  Stored(Target(row, ref))'
  BY <1>1 DEF NoDangling
<1>2. row \in dbRows /\ row \notin Doomed(key)  BY <1>1
<1>3. PICK parent \in dbRows : Key(parent) = Target(row, ref)
  BY <1>2 DEF NoDangling, Stored
<1>4. CASE parent \notin Doomed(key)
  BY <1>1, <1>3, <1>4 DEF Stored
<1>5. CASE parent \in Doomed(key)
  <2>1. ~ PassesOn(ref)  BY <1>2, <1>3, <1>5, DoomedIsClosed
  <2>2. ref \in References /\ ref.from = row.table  BY DEF ReferencesOf
  <2>3. ref.from = "bazarr_instance" /\ ref.column = "lingarr_instance_id"
        /\ ref.to = "lingarr_instance"
    BY <2>1, <2>2, ReferencesFit DEF Fits, Cascades, PassesOn
  <2>4. Key(parent) = <<"lingarr_instance", row.refs.lingarr_instance_id>>
    BY <1>3, <2>3 DEF Target
  <2>5. key = Key(parent)
    BY <1>5, <2>4, LingarrGoesByItself DEF Key
  <2>6. Deletable(key)  BY DEF Delete
  <2>7. key[1] = "lingarr_instance" /\ key[2] = row.refs.lingarr_instance_id
    BY <2>4, <2>5
  <2> QED  BY <1>2, <2>2, <2>3, <2>6, <2>7 DEF Deletable
<1> QED  BY <1>4, <1>5

LEMMA InsertKeepsNoDangling ==
  ASSUME NoDangling, NEW new, Insert(new) PROVE NoDangling'
<1>1. dbRows' = dbRows \cup {new} /\ enforced' = enforced  BY DEF Insert
<1>2. \A k : Stored(k) => Stored(k)'  BY <1>1 DEF Stored
<1> SUFFICES ASSUME NEW row \in dbRows', NEW ref \in ReferencesOf(row.table),
                    row.refs[ref.column] # Null,
                    enforced \/ <<ref.from, ref.column>> \in OrmCascades
             PROVE  Stored(Target(row, ref))'
  BY <1>1 DEF NoDangling
<1>3. CASE row \in dbRows  BY <1>2, <1>3 DEF NoDangling
<1>4. CASE row = new
  <2>1. Stored(Target(row, ref))  BY <1>4 DEF Insert
  <2> QED  BY <1>2, <2>1
<1> QED  BY <1>1, <1>3, <1>4

LEMMA InsertKeepsOwners ==
  ASSUME NoDangling, OwnersAgree, RowsNumbered, NEW new, new.id \in Nat, Insert(new)
  PROVE  OwnersAgree'
<1>1. dbRows' = dbRows \cup {new} /\ enforced' = enforced  BY DEF Insert
<1> SUFFICES ASSUME NEW row \in dbRows', NEW parent \in dbRows', NEW ref \in ReferencesOf(row.table),
                    enforced, ref.to \in MediaTables, Target(row, ref) = Key(parent)
             PROVE  SameInstance(row, parent)
  BY <1>1 DEF OwnersAgree
<1>2. CASE row \in dbRows /\ parent \in dbRows  BY <1>2 DEF OwnersAgree
<1>3. CASE row = new /\ parent \in dbRows  BY <1>3 DEF Insert, LookedUp
<1>4. CASE row \in dbRows /\ parent = new
  <2>1. row.refs[ref.column] # Null
    BY <1>4, SchemaAssumption DEF Target, Key
  <2>2. Stored(Key(new))  BY <1>4, <2>1 DEF NoDangling
  <2> QED  BY <2>2 DEF Insert
<1>5. CASE row = new /\ parent = new
  <2>1. ref.to = ref.from  BY <1>5 DEF Target, Key, ReferencesOf
  <2> QED  BY <2>1, ReferencesFit DEF Fits, Cascades, ReferencesOf
<1> QED  BY <1>1, <1>2, <1>3, <1>4, <1>5

LEMMA SchemaInvStep ==
  ASSUME SchemaInv, [SchemaNext]_schemaVars PROVE SchemaInv'
<1> USE DEF SchemaInv, ReferencesHold
<1>1. CASE UNCHANGED schemaVars
  BY <1>1 DEF schemaVars, SchemaIsClosed, NoDangling, OwnersAgree, RowsNumbered, Stored
<1>2. ASSUME NEW t \in AllTables, CreateTable(t) PROVE SchemaInv'
  <2>1. SchemaIsClosed'  BY <1>2, CreateTableKeepsClosed
  <2>2. dbRows' = dbRows /\ enforced' = enforced  BY <1>2 DEF CreateTable
  <2> QED  BY <2>1, <2>2 DEF NoDangling, OwnersAgree, RowsNumbered, Stored
<1>3. ASSUME NEW t \in AllTables, DropTable(t) PROVE SchemaInv'
  <2>1. SchemaIsClosed'  BY <1>3, DropTableKeepsClosed
  <2>2. dbRows' = {}  BY <1>3 DEF DropTable
  <2> QED  BY <2>1, <2>2 DEF NoDangling, OwnersAgree, RowsNumbered
<1>4. ASSUME NEW row \in dbRows, Delete(Key(row)) PROVE SchemaInv'
  <2>1. NoDangling'  BY <1>4, DeleteKeepsNoDangling
  <2>2. dbRows' \subseteq dbRows /\ tables' = tables /\ enforced' = enforced
    BY <1>4 DEF Delete
  <2> QED  BY <2>1, <2>2 DEF SchemaIsClosed, OwnersAgree, RowsNumbered
<1>5. ASSUME NEW t \in Holding, NEW row \in Rows(t), Insert(row) PROVE SchemaInv'
  <2>1. row.id \in Nat  BY DEF Rows, Ids
  <2>2. NoDangling'  BY <1>5, InsertKeepsNoDangling
  <2>3. OwnersAgree'  BY <1>5, <2>1, InsertKeepsOwners
  <2>4. dbRows' = dbRows \cup {row} /\ tables' = tables  BY <1>5 DEF Insert
  <2> QED  BY <2>1, <2>2, <2>3, <2>4 DEF SchemaIsClosed, RowsNumbered
<1> QED  BY <1>1, <1>2, <1>3, <1>4, <1>5 DEF SchemaNext

\* References hold, for every bound on the rows and whichever database keeps
\* them: upgrade() and downgrade() never leave a table that refers to one that
\* is not there, no delete leaves a row that refers to what it took, and rows
\* that hang together belong to one instance.
THEOREM ReferencesAreKept == SchemaSpec => []ReferencesHold
<1>1. SchemaInit => SchemaInv
  BY DEF SchemaInit, SchemaInv, ReferencesHold, SchemaIsClosed, NoDangling, OwnersAgree, RowsNumbered
<1>2. SchemaInv /\ [SchemaNext]_schemaVars => SchemaInv'
  BY SchemaInvStep
<1>3. SchemaInv => ReferencesHold
  BY DEF SchemaInv
<1> QED
  BY <1>1, <1>2, <1>3, PTL DEF SchemaSpec

=============================================================================
