----------------------------- MODULE SyncTriggers -----------------------------
(***************************************************************************)
(* What makes a wanted sync run: the wanted loop, which goes through the   *)
(* enabled instances by name, and the webhooks by which Bazarr and Sonarr  *)
(* announce a change.  A webhook is acknowledged at once and its sync runs *)
(* as a task; those within the coalescing interval of the last are         *)
(* dropped.  The sync itself is WantedMirror's, one step here.             *)
(***************************************************************************)
EXTENDS Naturals, Sequences

CONSTANTS
  Instances,
  ByName,      \* the instances in the order of list_bazarr
  Reachable,   \* the instances whose sync may fail now and then, not for ever
  MaxRestarts, \* bound on restarts
  Sleeping, Ended

VARIABLES
  polled,      \* the enabled instances
  posting,     \* the instances with an enabled webhook source
  changed,     \* changed[i]: Bazarr's lists have changed since they were read
  pass,        \* the wanted loop: asleep, ended, or the instances still to sync
  recent,      \* _last: the instances a webhook was let through for lately
  tasks,       \* the instances a webhook task is to sync
  restarts

triggerVars == <<polled, posting, changed, pass, recent, tasks, restarts>>

TriggerInit ==
  /\ polled = Instances
  /\ posting = {}
  /\ changed = [i \in Instances |-> FALSE]
  /\ pass = Sleeping /\ recent = {} /\ tasks = {} /\ restarts = 0

ToggleInstance(i) ==
  /\ polled' = (polled \ {i}) \cup ({i} \ polled)
  /\ UNCHANGED <<posting, changed, pass, recent, tasks, restarts>>

\* create_source, update_source, delete_source
EditSource(i) ==
  /\ posting' = (posting \ {i}) \cup ({i} \ posting)
  /\ UNCHANGED <<polled, changed, pass, recent, tasks, restarts>>

ListsChange(i) ==
  /\ ~ changed[i]
  /\ changed' = [changed EXCEPT ![i] = TRUE]
  /\ UNCHANGED <<polled, posting, pass, recent, tasks, restarts>>

\* ingest of a token that resolves to an enabled source, and schedule.
Ingest(i) ==
  /\ i \in posting
  /\ \/ i \in recent /\ UNCHANGED <<recent, tasks>>
     \/ /\ i \notin recent
        /\ recent' = recent \cup {i} /\ tasks' = tasks \cup {i}
  /\ UNCHANGED <<polled, posting, changed, pass, restarts>>

WindowElapses(i) ==
  /\ i \in recent /\ recent' = recent \ {i}
  /\ UNCHANGED <<polled, posting, changed, pass, tasks, restarts>>

\* _run: the trigger syncs, or its exception is logged.
TaskRuns(i, synced) ==
  /\ i \in tasks /\ tasks' = tasks \ {i}
  /\ changed' = [changed EXCEPT ![i] = @ /\ ~ synced]
  /\ UNCHANGED <<polled, posting, pass, recent, restarts>>

\* Mutant of PollBegins: instances with a webhook are left to it.
PollBeginsForTheSilent ==
  /\ pass = Sleeping
  /\ pass' = SelectSeq(ByName, LAMBDA i : i \in polled \ posting)
  /\ UNCHANGED <<polled, posting, changed, recent, tasks, restarts>>

\* wanted_sync_loop wakes up, and _sync_all lists the instances.
PollBegins ==
  /\ pass = Sleeping
  /\ pass' = SelectSeq(ByName, LAMBDA i : i \in polled)
  /\ UNCHANGED <<polled, posting, changed, recent, tasks, restarts>>

\* Listing raises, outside of any try: the loop's task ends, unnoticed.
LoopEnds ==
  /\ pass = Sleeping /\ pass' = Ended
  /\ UNCHANGED <<polled, posting, changed, recent, tasks, restarts>>

\* The next instance is synced, or fails and is left for the next pass.  But when
\* the failed sync has rolled back an open transaction, the instance's row is
\* expired: the handler cannot read its name, raises, and the loop's task ends.
PollSyncs(i, synced) ==
  /\ pass \notin {Sleeping, Ended, << >>} /\ i = Head(pass)
  /\ pass' \in IF synced THEN {Tail(pass)} ELSE {Tail(pass), Ended}
  /\ changed' = [changed EXCEPT ![i] = @ /\ ~ synced]
  /\ UNCHANGED <<polled, posting, recent, tasks, restarts>>

PollEnds ==
  /\ pass = << >> /\ pass' = Sleeping
  /\ UNCHANGED <<polled, posting, changed, recent, tasks, restarts>>

\* The process starts anew: the window and the tasks were in memory.
TriggersRestart ==
  /\ restarts < MaxRestarts /\ restarts' = restarts + 1
  /\ pass' = Sleeping /\ recent' = {} /\ tasks' = {}
  /\ UNCHANGED <<polled, posting, changed>>

TriggerNext ==
  \/ PollBegins \/ PollEnds \/ LoopEnds \/ TriggersRestart
  \/ \E i \in Instances :
       \/ ToggleInstance(i) \/ EditSource(i) \/ ListsChange(i) \/ Ingest(i) \/ WindowElapses(i)
       \/ \E synced \in BOOLEAN : TaskRuns(i, synced) \/ PollSyncs(i, synced)
-----------------------------------------------------------------------------
\* What changes in an instance that can be reached is read in the end, although
\* its webhooks are dropped within the interval, lost by a restart or fail, as
\* long as the loop has not ended.
ChangesAreRead ==
  \A i \in Reachable : changed[i] ~> (~ changed[i] \/ i \notin polled \/ pass = Ended)
=============================================================================
