---------------------------- MODULE Notifications ----------------------------
(***************************************************************************)
(* The fan-out of notifications to Apprise routes.  The dispatch passes,   *)
(* the verification passes and the doctor loop notify concurrently, each   *)
(* in its own session; all of them share the coalescer, one window for     *)
(* each route and event, kept in memory.  The digest loop passes it by.    *)
(***************************************************************************)
EXTENDS Naturals

CONSTANTS
  Routes,
  Events,      \* the events passes notify of
  Digest,      \* the event of the digest loop
  Notifiers,   \* tasks that may notify
  Idle, NoRoute

VARIABLES
  wanted,      \* wanted[r]: the events of r if it exists and is enabled
  hot,         \* _last_sent, within the window: pairs <<route, event>>
  job,         \* job[n]: the notify call of n that is under way
  sends,       \* history: sends[k], the sends begun in the window of k
  delivered    \* history: the pairs of hot that have been delivered

notifyVars == <<wanted, hot, job, sends, delivered>>

Keys == Routes \X Events

NotifyInit ==
  /\ wanted = [r \in Routes |-> {}]
  /\ hot = {} /\ delivered = {}
  /\ job = [n \in Notifiers |-> Idle]
  /\ sends = [k \in Keys |-> 0]

\* create_route, update_route, delete_route
EditRoute(r) ==
  /\ \E events \in SUBSET (Events \cup {Digest}) :
       /\ events # wanted[r]
       /\ wanted' = [wanted EXCEPT ![r] = events]
  /\ UNCHANGED <<hot, job, sends, delivered>>

\* notify, send_digest: the subscribed routes are read once.
BeginNotify(n, e) ==
  /\ job[n] = Idle
  /\ job' = [job EXCEPT ![n] = [event |-> e, left |-> {r \in Routes : e \in wanted[r]},
                                to |-> NoRoute]]
  /\ UNCHANGED <<wanted, hot, sends, delivered>>

\* Mutant of ShouldSend: it asks and does not mark.
ShouldSendUnmarked(k) == k \notin hot /\ UNCHANGED hot

\* NotificationCoalescer.should_send: asks and marks in one step.
ShouldSend(k) == k \notin hot /\ hot' = hot \cup {k}

\* The next route is taken up: it is skipped within its window, or sent to.
NextRoute(n, r) ==
  /\ job[n] # Idle /\ job[n].to = NoRoute /\ r \in job[n].left
  /\ LET k == <<r, job[n].event>>
         taken == [job EXCEPT ![n].left = @ \ {r}, ![n].to = r]
     IN \/ /\ job[n].event = Digest
           /\ job' = taken
           /\ UNCHANGED <<hot, sends>>
        \/ /\ job[n].event # Digest /\ k \in hot
           /\ job' = [job EXCEPT ![n].left = @ \ {r}]
           /\ UNCHANGED <<hot, sends>>
        \/ /\ job[n].event # Digest /\ ShouldSend(k)
           /\ job' = taken
           /\ sends' = [sends EXCEPT ![k] = @ + 1]
  /\ UNCHANGED <<wanted, delivered>>

\* The sender returns True or False.
SendEnds(n) ==
  /\ job[n] # Idle /\ job[n].to # NoRoute
  /\ \/ /\ job[n].event # Digest /\ sends[<<job[n].to, job[n].event>>] > 0
        /\ delivered' = delivered \cup {<<job[n].to, job[n].event>>}
     \/ UNCHANGED delivered
  /\ job' = [job EXCEPT ![n].to = NoRoute]
  /\ UNCHANGED <<wanted, hot, sends>>

\* The sender raises: the caller logs it, and the routes left are not sent to.
SendRaises(n) ==
  /\ job[n] # Idle /\ job[n].to # NoRoute
  /\ job' = [job EXCEPT ![n] = Idle]
  /\ UNCHANGED <<wanted, hot, sends, delivered>>

EndNotify(n) ==
  /\ job[n] # Idle /\ job[n].to = NoRoute /\ job[n].left = {}
  /\ job' = [job EXCEPT ![n] = Idle]
  /\ UNCHANGED <<wanted, hot, sends, delivered>>

\* window_seconds have passed since the mark.
WindowElapses(k) ==
  /\ k \in hot
  /\ hot' = hot \ {k} /\ delivered' = delivered \ {k}
  /\ sends' = [sends EXCEPT ![k] = 0]
  /\ UNCHANGED <<wanted, job>>

\* "A restart simply re-arms every window."
NotifyRestart ==
  /\ hot' = {} /\ delivered' = {}
  /\ job' = [n \in Notifiers |-> Idle]
  /\ sends' = [k \in Keys |-> 0]
  /\ UNCHANGED wanted

NotifyNext ==
  \/ NotifyRestart
  \/ \E r \in Routes : EditRoute(r)
  \/ \E k \in Keys : WindowElapses(k)
  \/ \E n \in Notifiers :
       \/ SendEnds(n) \/ SendRaises(n) \/ EndNotify(n)
       \/ \E e \in Events \cup {Digest} : BeginNotify(n, e)
       \/ \E r \in Routes : NextRoute(n, r)

NotifySpec == NotifyInit /\ [][NotifyNext]_notifyVars
-----------------------------------------------------------------------------
\* "One notification, not a storm" (coalescer.py): however the passes
\* interleave, one send of an event is begun to a route in a window.
NoStorm == \A k \in Keys : sends[k] <= 1

\* "So the caller never treats it as sent" (apprise_send): an event is
\* suppressed on a route only while, or after, it was delivered there. Not so: the
\* window is marked before a send that may fail.
SuppressedWasSent ==
  \A k \in hot : \/ k \in delivered
                 \/ \E n \in Notifiers : /\ job[n] # Idle
                                         /\ job[n].to = k[1] /\ job[n].event = k[2]
=============================================================================
