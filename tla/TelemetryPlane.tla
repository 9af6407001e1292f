--------------------------- MODULE TelemetryPlane ---------------------------
(***************************************************************************)
(* Telemetry of one enabled instance: the socket consumers with their      *)
(* reconnects, the health registry they share, and the polling loop that   *)
(* stands in for a stream that is not live.  What a socket or a poll       *)
(* brings, the bridge publishes on the event bus (SseBus).                 *)
(***************************************************************************)
CONSTANTS
  Consumers,   \* the consumer tasks of start_consumers
  StreamOf     \* the health key each of them writes

VARIABLES
  started,     \* start_consumers has run for the instance
  link,        \* where each consumer's run() is
  health,      \* TelemetryHealthRegistry: the state per stream, if any
  untold       \* work upstream, reported again and again, the UI knows not of

telemetryVars == <<started, link, health, untold>>

Streams == {StreamOf[c] : c \in Consumers}

\* telemetry_loop: consumers are started once, on the first tick.
StartConsumers ==
  /\ ~ started
  /\ started' = TRUE
  /\ link' = [c \in Consumers |-> "connecting"]
  /\ UNCHANGED <<health, untold>>

\* The connection stands, on_connected.
Connected(c) ==
  /\ link[c] = "connecting"
  /\ link' = [link EXCEPT ![c] = "open"]
  /\ health' = [health EXCEPT ![StreamOf[c]] = "live"]
  /\ UNCHANGED <<started, untold>>

\* Mutant of Fails: the failure is waited for and not registered.
FailsUnnoticed(c) ==
  /\ link[c] \in {"connecting", "open"}
  /\ link' = [link EXCEPT ![c] = "backoff"]
  /\ UNCHANGED <<started, health, untold>>

\* The attempt, or the connection, raises: on_failure.
Fails(c) ==
  /\ link[c] \in {"connecting", "open"}
  /\ link' = [link EXCEPT ![c] = "backoff"]
  /\ health' = [health EXCEPT ![StreamOf[c]] = "degraded"]
  /\ UNCHANGED <<started, untold>>

\* wait() or run() returns, and the registry keeps what it holds.
Closes(c) ==
  /\ link[c] = "open"
  /\ link' = [link EXCEPT ![c] = "backoff"]
  /\ UNCHANGED <<started, health, untold>>

\* asyncio.sleep(backoff_seconds(...)) is over.
Reconnects(c) ==
  /\ link[c] = "backoff"
  /\ link' = [link EXCEPT ![c] = "connecting"]
  /\ UNCHANGED <<started, health, untold>>

\* A message is parsed and bridged.  That a resource change also nudges the
\* passes shows in their modules: they may begin at any time.
Message(c) ==
  /\ link[c] = "open" /\ untold[c]
  /\ untold' = [untold EXCEPT ![c] = FALSE]
  /\ UNCHANGED <<started, link, health>>

\* poll_degraded reads a stream that is not live, and tells of all its work.
PollStream(s) ==
  /\ started /\ health[s] # "live"
  /\ \E c \in Consumers : StreamOf[c] = s /\ untold[c]
  /\ untold' = [c \in Consumers |-> untold[c] /\ StreamOf[c] # s]
  /\ UNCHANGED <<started, link, health>>

WorkBegins(c) ==
  /\ ~ untold[c]
  /\ untold' = [untold EXCEPT ![c] = TRUE]
  /\ UNCHANGED <<started, link, health>>

TelemetryInit ==
  /\ started = FALSE
  /\ link = [c \in Consumers |-> "off"]
  /\ health = [s \in Streams |-> "none"]
  /\ untold = [c \in Consumers |-> FALSE]

TelemetryNext ==
  \/ StartConsumers
  \/ \E c \in Consumers : \/ Connected(c) \/ Fails(c) \/ Closes(c) \/ Reconnects(c)
                          \/ Message(c) \/ WorkBegins(c)
  \/ \E s \in Streams : PollStream(s)
-----------------------------------------------------------------------------
\* "Keeps the UI alive" (polling.py): whatever the sockets do, work that goes
\* on upstream is told to the UI.  The two Lingarr consumers write one key, so
\* that one of them may hide that the other is down.
ProgressReachesUi == \A c \in Consumers : untold[c] ~> ~ untold[c]
=============================================================================
