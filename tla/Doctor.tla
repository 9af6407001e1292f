-------------------------------- MODULE Doctor --------------------------------
(***************************************************************************)
(* The doctor: a run gathers a context, first what the database and Bazarr *)
(* say of an instance and then what its Lingarr says, and the checks make  *)
(* findings of the context.  The world is the set of faults there are now; *)
(* they come and go while the run reads.  One instance and its Lingarr:    *)
(* the checks look at one instance at a time.                              *)
(***************************************************************************)
EXTENDS Naturals

CONSTANTS NoRun, NoFindings, MaxTurns   \* bound on faults that come or go

\* What the database and the process know of the instance.
LocalFaults == {"breaker not closed", "stream not live", "never synced", "stale mirror"}
\* What Bazarr's settings and language profiles show.
BazarrFaults ==
  {"other translator", "no Lingarr URL", "no token", "no upgrades", "no profiles",
   "empty profile", "target not wanted", "converted codes", "no headroom"}
\* What the settings of the Lingarr it is linked to show.
LingarrFaults == {"automation", "no service", "small limit", "pair unknown"}
GlobalFaults == {"open forward-auth", "watch source down"}
Faults == {"Bazarr down", "Lingarr down"}
            \cup LocalFaults \cup BazarrFaults \cup LingarrFaults \cup GlobalFaults

VARIABLES
  world,      \* the faults there are
  run,        \* NoRun, or the run: who started it, how far it is, its context
  standing,   \* the faults that have been there all through the run
  glimpsed,   \* the faults that have been there at some time of the run
  report,     \* the findings of the run that latest() returns
  turns

doctorVars == <<world, run, standing, glimpsed, report, turns>>

DoctorInit ==
  /\ world = {} /\ run = NoRun /\ standing = {} /\ glimpsed = {}
  /\ report = NoFindings /\ turns = 0

Finding(check, severity, faults) ==
  {[check |-> check, severity |-> severity, fault |-> f] : f \in faults}

-----------------------------------------------------------------------------
\* The checks: findings of the faults c that the context shows.

\* The first of the wiring's faults hides those after it.
TranslatorWiring(c) ==
  IF "Bazarr down" \in c THEN Finding("FR-DR1", "critical", {"Bazarr down"})
  ELSE IF "other translator" \in c THEN Finding("FR-DR1", "critical", {"other translator"})
  ELSE IF "no Lingarr URL" \in c THEN Finding("FR-DR1", "critical", {"no Lingarr URL"})
  ELSE Finding("FR-DR1", "warn", c \cap {"no token"})
         \cup Finding("FR-DR1", "critical", c \cap {"Lingarr down"})

LingarrAutomation(c) == Finding("FR-DR2", "critical", c \cap {"automation"})

UpgradeTranslated(c) == Finding("FR-DR3", "warn", c \cap {"no upgrades"})

\* Without profiles there is nothing more to check of them.
LanguageProfiles(c) ==
  IF "no profiles" \in c THEN Finding("FR-DR4", "warn", {"no profiles"})
  ELSE Finding("FR-DR4", "warn", c \cap {"empty profile", "target not wanted"})

LingarrServiceConfigured(c) == Finding("FR-DR5", "critical", c \cap {"no service"})

LanguageCodeEdgeCases(c) ==
  Finding("FR-DR6", "info", c \cap {"converted codes"})
    \cup Finding("FR-DR6", "warn", c \cap {"pair unknown"})

SubtitleValidationLimits(c) == Finding("FR-DR7", "warn", c \cap {"small limit"})

ConcurrencyHeadroom(c) == Finding("FR-DR8", "warn", c \cap {"no headroom"})

CircuitBreakerState(c) == Finding("FR-DR12", "warn", c \cap {"breaker not closed"})

TelemetryStreamHealth(c) == Finding("FR-DR13", "info", c \cap {"stream not live"})

\* A mirror that was never synced is not stale too.
OperationalSanity(c) ==
  Finding("FR-DR11", "warn",
          IF "never synced" \in c THEN {"never synced"} ELSE c \cap {"stale mirror"})
    \cup Finding("FR-DR11", "critical", c \cap {"open forward-auth"})

WatchSourceHealth(c) == Finding("FR-DR14", "warn", c \cap {"watch source down"})

Findings(c) ==
  TranslatorWiring(c) \cup LingarrAutomation(c) \cup UpgradeTranslated(c)
    \cup LanguageProfiles(c) \cup LingarrServiceConfigured(c) \cup LanguageCodeEdgeCases(c)
    \cup SubtitleValidationLimits(c) \cup ConcurrencyHeadroom(c) \cup CircuitBreakerState(c)
    \cup TelemetryStreamHealth(c) \cup OperationalSanity(c) \cup WatchSourceHealth(c)
-----------------------------------------------------------------------------
\* The row of the run is committed as running.  The command line's run knows
\* neither the login providers in use nor the telemetry streams.
Unknown(by) == IF by = "cli" THEN {"open forward-auth", "stream not live"} ELSE {}

RunBegins(by) ==
  /\ run = NoRun
  /\ run' = [by |-> by, reads |-> "local", context |-> (world \cap {"open forward-auth"}) \ Unknown(by)]
  /\ standing' = world /\ glimpsed' = world
  /\ UNCHANGED <<world, report, turns>>

Reads(source) == run # NoRun /\ run.reads = source

Learns(faults, next) ==
  /\ run' = [run EXCEPT !.reads = next, !.context = @ \cup faults]
  /\ UNCHANGED <<world, standing, glimpsed, report, turns>>

ReadLocal ==
  /\ Reads("local")
  /\ Learns((world \cap LocalFaults) \ Unknown(run.by), "Bazarr")

\* Mutant of ReadBazarr: an instance that does not answer is left out.
ReadBazarrThatAnswers ==
  /\ Reads("Bazarr")
  /\ IF "Bazarr down" \in world THEN Learns({}, "sources")
     ELSE Learns(world \cap BazarrFaults, "Lingarr")

\* Nothing is asked of the Lingarr of a Bazarr that does not answer.
ReadBazarr ==
  /\ Reads("Bazarr")
  /\ IF "Bazarr down" \in world THEN Learns({"Bazarr down"}, "sources")
     ELSE Learns(world \cap BazarrFaults, "Lingarr")

ReadLingarr ==
  /\ Reads("Lingarr")
  /\ IF "Lingarr down" \in world THEN Learns({"Lingarr down"}, "sources")
     ELSE Learns(world \cap LingarrFaults, "sources")

ReadSources ==
  /\ Reads("sources")
  /\ Learns(world \cap {"watch source down"}, "done")

Completes ==
  /\ Reads("done") /\ run' = NoRun
  /\ report' = Findings(run.context)
  /\ standing' = {} /\ glimpsed' = {}
  /\ UNCHANGED <<world, turns>>

\* Gathering raises, or the process goes: latest() passes over the run, which is
\* marked failed, or stays marked running.
RunIsLost ==
  /\ run # NoRun /\ run' = NoRun
  /\ standing' = {} /\ glimpsed' = {}
  /\ UNCHANGED <<world, report, turns>>

\* A fault comes or goes.
Turns(f) ==
  /\ turns < MaxTurns /\ turns' = turns + 1
  /\ world' = (world \ {f}) \cup ({f} \ world)
  /\ standing' = standing \cap world'
  /\ glimpsed' = IF run = NoRun THEN {} ELSE glimpsed \cup world'
  /\ UNCHANGED <<run, report>>

DoctorNext ==
  \/ ReadLocal \/ ReadBazarr \/ ReadLingarr \/ ReadSources \/ Completes \/ RunIsLost
  \/ \E by \in {"app", "cli"} : RunBegins(by)
  \/ \E f \in Faults : Turns(f)
-----------------------------------------------------------------------------
\* What a run reports instead of f where it cannot look for f.
Hides ==
  [f \in Faults |->
    CASE f \in LingarrFaults -> {"Lingarr down", "Bazarr down", "other translator", "no Lingarr URL"}
      [] f \in {"Lingarr down", "no token"} -> {"Bazarr down", "other translator", "no Lingarr URL"}
      [] f = "no Lingarr URL" -> {"Bazarr down", "other translator"}
      [] f \in {"empty profile", "target not wanted"} -> {"Bazarr down", "no profiles"}
      [] f = "stale mirror" -> {"never synced"}
      [] f \in BazarrFaults \ {"no Lingarr URL", "no token", "empty profile", "target not wanted"}
           -> {"Bazarr down"}
      [] OTHER -> {}]

Blamed == {finding.fault : finding \in report'}

\* No false all-clear: a fault that was there all through a run is reported by
\* it, or the one that kept it from looking is, whatever else came and went
\* between its reads.
StandingFaultsAreFound ==
  [][Completes => \A f \in standing \ Unknown(run.by) :
       f \in Blamed \/ Hides[f] \cap Blamed # {}]_doctorVars

\* Nor a false alarm: what a run reports was the case while it ran.
FindingsWereTrue == [][Completes => Blamed \subseteq glimpsed]_doctorVars

\* A report tells the truth of a world that changed under it, both ways.
ReportsAreTrue == StandingFaultsAreFound /\ FindingsWereTrue
=============================================================================
