------------------------------ MODULE MCProgress ------------------------------
(***************************************************************************)
(* Small instances for TLC of the loops that must get somewhere.  They     *)
(* share no variable, and part names the one whose steps a behaviour takes *)
(* and is fair to.                                                         *)
(***************************************************************************)
EXTENDS TelemetryPlane, SyncTriggers, InstanceRegistry, LibraryMirror, BudgetReconciliation

VARIABLE part

MCStreamOf == [c \in {"socketio", "requests", "progress"} |->
                 IF c = "socketio" THEN "bazarr_socketio" ELSE "lingarr_signalr"]
MCByName == <<"attic", "home">>
MCListOrder == <<"lone", "spare">>
MCSweepOrder == <<"attic", "ling">>

Init == /\ part \in {"telemetry", "triggers", "registry", "library", "budget"}
        /\ TelemetryInit /\ TriggerInit /\ RegistryInit /\ LibraryInit /\ BudgetInit
        /\ part # "library" => shelf = << >> /\ films = {}
        /\ part # "budget" => answering = {}

Others(own) ==
  /\ own # "telemetry" => UNCHANGED telemetryVars
  /\ own # "triggers" => UNCHANGED triggerVars
  /\ own # "registry" => UNCHANGED registryVars
  /\ own # "library" => UNCHANGED libraryVars
  /\ own # "budget" => UNCHANGED budgetVars

Next ==
  /\ UNCHANGED part /\ Others(part)
  /\ \/ part = "telemetry" /\ TelemetryNext
     \/ part = "triggers" /\ TriggerNext
     \/ part = "registry" /\ RegistryNext
     \/ part = "library" /\ LibraryNext
     \/ part = "budget" /\ BudgetNext

On(component, step) == part = component /\ step

\* The loops and the consumer tasks run, a connection attempt ends one way or
\* the other, and an open connection or a poll that is tried again and again
\* brings the news.
TelemetryFairness ==
  /\ WF_telemetryVars(On("telemetry", StartConsumers))
  /\ \A c \in Consumers : /\ WF_telemetryVars(On("telemetry", Connected(c) \/ Fails(c)))
                          /\ WF_telemetryVars(On("telemetry", Reconnects(c)))
                          /\ SF_telemetryVars(On("telemetry", Message(c)))
  /\ \A s \in Streams : SF_telemetryVars(On("telemetry", PollStream(s)))

\* The loop wakes up and each of its syncs ends; one that is tried for ever
\* succeeds for ever if the instance is reachable.
TriggerFairness ==
  /\ WF_triggerVars(On("triggers", PollBegins)) /\ WF_triggerVars(On("triggers", PollEnds))
  /\ \A i \in Instances :
       WF_triggerVars(On("triggers", \E synced \in BOOLEAN : PollSyncs(i, synced)))
  /\ \A i \in Reachable : SF_triggerVars(On("triggers", PollSyncs(i, TRUE)))

\* The loop wakes up, and each check ends.
RegistryFairness ==
  /\ WF_registryVars(On("registry", SweepBegins)) /\ WF_registryVars(On("registry", SweepEnds))
  /\ WF_registryVars(On("registry", SweepChecks)) /\ WF_registryVars(On("registry", SweepFails))

\* The loop syncs every few hours, and whoever has begun to sync gets on with it.
LibraryFairness ==
  /\ WF_libraryVars(On("library", StartLibrarySync(LibraryLoop, FALSE)))
  /\ \A y \in LibrarySyncs :
       WF_libraryVars(On("library", LibrarySyncSteps(y) \/ SyncRaises(y)))

Spec == /\ Init /\ [][Next]_<<part, telemetryVars, triggerVars, registryVars, libraryVars, budgetVars>>
        /\ TelemetryFairness /\ TriggerFairness /\ RegistryFairness
        /\ LibraryFairness
=============================================================================
