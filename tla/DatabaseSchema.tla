--------------------------- MODULE DatabaseSchema ---------------------------
(***************************************************************************)
(* The tables, which of them refer to which, and what a deletion takes     *)
(* with it.  A row is [table, id, refs]; what else it holds is left out.   *)
(* PostgreSQL enforces the references.  SQLite, the default, does so only  *)
(* if a connection asks for it, and none does: enforced tells them apart.  *)
(***************************************************************************)
EXTENDS Integers, FiniteSets, Sequences, SequencesExt

CONSTANTS
  Null,
  Twins,      \* the tables that may hold two rows here; the others hold one
  MaxRows     \* bound on the rows

ASSUME SchemaAssumption == Null \notin Nat

VARIABLES tables, serving, dbRows, enforced

schemaVars == <<tables, serving, dbRows, enforced>>

\* A foreign key: a column of one table that refers to a row of another.
Owned(t, column, to) ==
  [from |-> t, column |-> column, to |-> to, onDelete |-> "CASCADE", nullable |-> FALSE]
OwnedIfSet(t, column, to) == [Owned(t, column, to) EXCEPT !.nullable = TRUE]
Linked(t, column, to) ==
  [from |-> t, column |-> column, to |-> to, onDelete |-> "SET NULL", nullable |-> TRUE]

\* Tables without one.
RootTables == {"app_setup_state", "auth_provider_config", "doctor_run", "lingarr_instance",
               "notification_route", "preset", "translation_profile"}
UserAndWatchTables == {"user_account", "watch_score", "watch_source"}

\* And what the others refer to.
OfInstance(ts) == {Owned(t, "bazarr_instance_id", "bazarr_instance") : t \in ts}

InstanceTables ==
  {Owned("api_key", "user_id", "user_account"),
   Linked("bazarr_instance", "lingarr_instance_id", "lingarr_instance"),
   Owned("lingarr_actuals", "lingarr_instance_id", "lingarr_instance")}

FindingAndExclusionTables ==
  {OwnedIfSet("doctor_finding", "bazarr_instance_id", "bazarr_instance"),
   OwnedIfSet("doctor_finding", "lingarr_instance_id", "lingarr_instance"),
   Owned("doctor_finding", "run_id", "doctor_run")} \cup OfInstance({"exclusion"})

IntentAndMovieTables == OfInstance({"intent", "movie"})

PolicyTables ==
  {Owned("profile_assignment", "profile_id", "translation_profile")}
    \cup OfInstance({"override", "profile_assignment"})

RailAndSeriesTables ==
  {OwnedIfSet("rail_state", "bazarr_instance_id", "bazarr_instance")} \cup OfInstance({"series"})

StatsTables == OfInstance({"stats_daily", "stats_language_daily"})

SyncTables == OfInstance({"sync_run", "webhook_source"})

EpisodeAndEventTables ==
  {Owned("episode", "series_id", "series"), Owned("intent_event", "intent_id", "intent"),
   Owned("passthrough_action", "intent_id", "intent")} \cup OfInstance({"episode"})

SubtitleTables ==
  {OwnedIfSet("subtitle", "episode_id", "episode"), OwnedIfSet("subtitle", "movie_id", "movie"),
   OwnedIfSet("wanted_subtitle", "episode_id", "episode"),
   OwnedIfSet("wanted_subtitle", "movie_id", "movie")}
    \cup OfInstance({"subtitle", "wanted_subtitle"})

References ==
  InstanceTables \cup FindingAndExclusionTables \cup IntentAndMovieTables \cup PolicyTables
    \cup RailAndSeriesTables \cup StatsTables \cup SyncTables \cup EpisodeAndEventTables
    \cup SubtitleTables

ReferencesOf(t) == {ref \in References : ref.from = t}

AllTables == RootTables \cup UserAndWatchTables \cup {ref.from : ref \in References}

CreationOrder ==
  << "app_setup_state", "auth_provider_config", "doctor_run", "lingarr_instance",
     "notification_route", "preset", "translation_profile", "user_account", "watch_score",
     "watch_source", "api_key", "bazarr_instance", "lingarr_actuals", "doctor_finding",
     "exclusion", "intent", "movie", "override", "profile_assignment", "rail_state", "series",
     "stats_daily", "stats_language_daily", "sync_run", "webhook_source", "episode",
     "intent_event", "passthrough_action", "subtitle", "wanted_subtitle" >>

DropOrder == Reverse(CreationOrder)
-----------------------------------------------------------------------------
Key(row) == <<row.table, row.id>>

Target(row, ref) == <<ref.to, row.refs[ref.column]>>

Stored(key) == \E row \in dbRows : Key(row) = key

\* Bound: the ids a table's rows have here.
Ids(t) == IF t \in Twins THEN {1, 2} ELSE {1}

\* sync_library and sync_wanted look up the rows of media by the instance they
\* sync: _series_row_ids, _episode_row_ids, _movie_row_ids.
MediaTables == {"series", "episode", "movie"}

SameInstance(row, parent) == row.refs.bazarr_instance_id = parent.refs.bazarr_instance_id

LookedUp(row) ==
  \A ref \in ReferencesOf(row.table), parent \in dbRows :
    ref.to \in MediaTables /\ Target(row, ref) = Key(parent) => SameInstance(row, parent)

\* A subtitle belongs to an episode or to a movie.
OneMedium(row) ==
  row.table \in {"subtitle", "wanted_subtitle"} =>
    (row.refs.episode_id = Null) # (row.refs.movie_id = Null)

\* A new row refers to rows that the writer has found.
Insert(row) ==
  /\ serving /\ Cardinality(dbRows) < MaxRows
  /\ ~ Stored(Key(row))
  /\ \A ref \in ReferencesOf(row.table) :
       IF row.refs[ref.column] = Null THEN ref.nullable ELSE Stored(Target(row, ref))
  /\ OneMedium(row) /\ LookedUp(row)
  /\ dbRows' = dbRows \cup {row}
  /\ UNCHANGED <<tables, serving, enforced>>

\* Relationships the session itself cascades over, when a row is deleted
\* through it.
OrmCascades == {<<"api_key", "user_id">>, <<"profile_assignment", "profile_id">>}

\* The references along which a deletion is passed on.
PassesOn(ref) ==
  ref.onDelete = "CASCADE" /\ (enforced \/ <<ref.from, ref.column>> \in OrmCascades)

HangsFrom(row, parents) ==
  \E ref \in ReferencesOf(row.table) :
    PassesOn(ref) /\ \E parent \in parents : Target(row, ref) = Key(parent)

\* Mutant of Doomed: the children go, their children stay.
DoomedChildren(key) ==
  {row \in dbRows : Key(row) = key \/ HangsFrom(row, {parent \in dbRows : Key(parent) = key})}

\* The row and all that hangs from it.
Takes(gone, key) == \A row \in dbRows : Key(row) = key \/ HangsFrom(row, gone) => row \in gone
Doomed(key) == {row \in dbRows : \A gone \in SUBSET dbRows : Takes(gone, key) => row \in gone}

\* delete_lingarr refuses while an instance is linked.
Deletable(key) == key[1] = "lingarr_instance" =>
  \A row \in dbRows : row.table = "bazarr_instance" => row.refs.lingarr_instance_id # key[2]

\* What the services delete by itself.
Deleted == {"user_account", "api_key", "bazarr_instance", "lingarr_instance",
            "translation_profile", "profile_assignment", "exclusion", "override",
            "webhook_source", "series", "subtitle", "wanted_subtitle",
            "stats_daily", "stats_language_daily"}

Delete(key) ==
  /\ serving /\ Stored(key) /\ key[1] \in Deleted /\ Deletable(key)
  /\ dbRows' = dbRows \ Doomed(key)
  /\ UNCHANGED <<tables, serving, enforced>>
-----------------------------------------------------------------------------
SchemaInit == tables = {} /\ serving = FALSE /\ dbRows = {} /\ enforced \in BOOLEAN

\* upgrade(), one table at a time; the process serves when all are there.
CreateTable(t) ==
  /\ ~ serving /\ t \notin tables
  /\ \A k \in DOMAIN CreationOrder :
       CreationOrder[k] = t => tables = {CreationOrder[j] : j \in 1 .. k - 1}
  /\ tables' = tables \cup {t} /\ serving' = (tables' = AllTables)
  /\ UNCHANGED <<dbRows, enforced>>

\* downgrade(): the rows go with the tables.
DropTable(t) ==
  /\ t \in tables
  /\ \A k \in DOMAIN DropOrder :
       DropOrder[k] = t => AllTables \ tables = {DropOrder[j] : j \in 1 .. k - 1}
  /\ tables' = tables \ {t} /\ serving' = FALSE /\ dbRows' = {}
  /\ UNCHANGED enforced

\* Tables that neither refer nor are referred to hold nothing here.
Holding == {ref.from : ref \in References} \cup {ref.to : ref \in References}

Rows(t) ==
  [table : {t}, id : Ids(t),
   refs : [{ref.column : ref \in ReferencesOf(t)} -> {1, 2, Null}]]

SchemaNext ==
  \/ \E t \in AllTables : CreateTable(t) \/ DropTable(t)
  \/ \E row \in dbRows : Delete(Key(row))
  \/ \E t \in Holding : \E row \in Rows(t) : Insert(row)

SchemaSpec == SchemaInit /\ [][SchemaNext]_schemaVars
-----------------------------------------------------------------------------
\* Migrations: while they run, and in between, no table refers to one that is
\* not there.
SchemaIsClosed == \A ref \in References : ref.from \in tables => ref.to \in tables

\* What is deleted leaves no row behind that refers to it; where the database
\* does not see to it, API keys and profile assignments at least go with their
\* user and their profile.
NoDangling ==
  \A row \in dbRows : \A ref \in ReferencesOf(row.table) :
    \/ row.refs[ref.column] = Null \/ Stored(Target(row, ref))
    \/ ~ enforced /\ <<ref.from, ref.column>> \notin OrmCascades

\* bazarr_instance_id is stored in a row and in the rows it hangs from: the
\* copies agree, so that filtering by instance finds no other instance's media.
OwnersAgree ==
  \A row, parent \in dbRows : \A ref \in ReferencesOf(row.table) :
    enforced /\ ref.to \in MediaTables /\ Target(row, ref) = Key(parent) => SameInstance(row, parent)

\* References hold: between tables while they are made and dropped, between rows
\* whatever is deleted, and within one instance.
ReferencesHold == SchemaIsClosed /\ NoDangling /\ OwnersAgree
=============================================================================
