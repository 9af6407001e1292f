---------------------------- MODULE MCBackground ----------------------------
(***************************************************************************)
(* Small instances for TLC of the mirror and of the services that run      *)
(* beside the passes.  They share no variable, and part names the one      *)
(* whose steps a behaviour takes.                                          *)
(***************************************************************************)
EXTENDS SseBus, Notifications, StatsRollup, WatchSignals, Doctor,
        WantedMirror, DatabaseSchema

VARIABLE part

MCPrefixesOf == [t \in {"jobs", "intents"} |->
                  IF t = "jobs" THEN {"telemetry", "telemetry.jobs"} ELSE {"intents"}]
MCFilters == {{"telemetry"}, AllTopics}

Act(plays, recent, listed) == [plays |-> plays, recent |-> recent, listed |-> listed]
Of(dune, arrival) == [t \in {"dune", "arrival"} |-> IF t = "dune" THEN dune ELSE arrival]
MCReports == {Of(Nothing, Nothing), Of(Act(1, TRUE, FALSE), Nothing),
              Of(Act(1, FALSE, FALSE), Act(0, FALSE, TRUE))}

MCKindOf == [w \in {"ep1", "ep2", "film"} |-> IF w = "film" THEN "movie" ELSE "episode"]

Others(own) ==
  /\ own # "bus" => UNCHANGED busVars
  /\ own # "notify" => UNCHANGED notifyVars
  /\ own # "stats" => UNCHANGED statsVars
  /\ own # "watch" => UNCHANGED watchVars
  /\ own # "doctor" => UNCHANGED doctorVars
  /\ own # "wanted" => UNCHANGED wantedVars
  /\ own # "schema" => UNCHANGED schemaVars

Init == /\ part \in {"bus", "notify", "stats", "watch", "doctor", "wanted", "schema"}
        /\ BusInit /\ NotifyInit /\ StatsInit /\ WatchInit /\ DoctorInit
        /\ WantedInit /\ SchemaInit
        /\ part # "wanted" => library = {} /\ Wanted = {}
        /\ part # "schema" => enforced
        /\ part # "stats" => today = 0 /\ (\A d \in Days : events[d] = 0)

Next == /\ UNCHANGED part /\ Others(part)
        /\ \/ part = "bus" /\ BusNext
           \/ part = "notify" /\ NotifyNext
           \/ part = "stats" /\ StatsNext
           \/ part = "watch" /\ WatchNext
           \/ part = "doctor" /\ DoctorNext
           \/ part = "wanted" /\ WantedNext
           \/ part = "schema" /\ SchemaNext

Spec == Init /\ [][Next]_<<part, busVars, notifyVars, statsVars, watchVars, doctorVars,
                        wantedVars, schemaVars>>
=============================================================================
