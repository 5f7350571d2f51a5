-------------------------- MODULE MigrationRunner --------------------------
(***************************************************************************)
(* scripts/run_migrations.sh: what it has recorded in schema_migrations,   *)
(* what it believes and what it does about it.  Every query of the script  *)
(* goes through db_query, which turns any error into an empty answer, and  *)
(* every file goes to a psql that carries on after a failed statement and  *)
(* still exits 0, so a failed statement and a failed query never stop it.  *)
(* Only a psql or a script that is killed does.  A psql runs in the        *)
(* database's container: it survives a script that is interrupted, and     *)
(* goes on with what `docker exec` has handed it.                          *)
(***************************************************************************)
EXTENDS DatabaseSchema

CONSTANTS Runner         \* invocations that may overlap

VARIABLES tracked,       \* the table schema_migrations exists
          recorded,      \* its versions
          pc,            \* where each invocation is
          file,          \* the migration it is at, or the entry it backfills
          stmt,          \* the next statement of the file
          forced,        \* --force
          orphan         \* the invocations of which only a psql is left

runnerVars == <<tracked, recorded, pc, file, stmt, forced, orphan>>

-----------------------------------------------------------------------------
(* scripts/schema/migrations: each file as the objects it creates, one per  *)
(* statement that commits on its own.  004 and 005 are one transaction each. *)

InitSchema == <<"sensor_readings", "device_timestamp", "reading_type">>
AdvancedIndexes == <<"timestamp_brin", "device_type_timestamp">>
MaterializedViews == <<"materialized_views">>
IncrementalMVRefresh == <<"refresh_functions">>
CoveringIndex == <<"device_covering">>
MetadataAndTypes == <<"metadata">>
PgStatStatements == <<"pg_stat_statements">>

Versions == <<"001", "002", "004", "005", "006", "007", "008">>

Statements(v) ==
    CASE v = "001" -> InitSchema
      [] v = "002" -> AdvancedIndexes
      [] v = "004" -> MaterializedViews
      [] v = "005" -> IncrementalMVRefresh
      [] v = "006" -> CoveringIndex
      [] v = "007" -> MetadataAndTypes
      [] v = "008" -> PgStatStatements

BuiltBy(v) == {Statements(v)[i] : i \in DOMAIN Statements(v)}

\* (mutant) The entry of 005 is a copy of that of 004.
ProbeCopied(v) ==
    CASE v = "001" -> "sensor_readings"
      [] v = "002" -> "timestamp_brin"
      [] v \in {"004", "005"} -> "materialized_views"

\* What backfill_existing_migrations looks for, and takes for the whole file.
Backfilled == <<"001", "002", "004", "005">>
Probe(v) ==
    CASE v = "001" -> "sensor_readings"
      [] v = "002" -> "timestamp_brin"
      [] v = "004" -> "materialized_views"
      [] v = "005" -> "refresh_functions"

-----------------------------------------------------------------------------
RunnerInit ==
    /\ tracked = FALSE /\ recorded = {}
    /\ pc = [r \in Runner |-> "idle"]
    /\ file = [r \in Runner |-> 1]
    /\ stmt = [r \in Runner |-> 1]
    /\ forced = [r \in Runner |-> FALSE]
    /\ orphan = {}

Goto(r, label, f, s) ==
    /\ pc' = [pc EXCEPT ![r] = label]
    /\ file' = [file EXCEPT ![r] = f]
    /\ stmt' = [stmt EXCEPT ![r] = s]

\* (mutant) The loop over the files ends one early.
NextFileButOne(r) ==
    IF file[r] < Len(Versions) - 1 THEN Goto(r, "validate", file[r] + 1, 1)
                                   ELSE Goto(r, "complete", 1, 1)

\* (mutant) The loop over the files has no end.
NextFileForever(r) == Goto(r, "validate", file[r] + 1, 1)

\* To the next file, or to "Migration Run Complete".
NextFile(r) ==
    IF file[r] < Len(Versions) THEN Goto(r, "validate", file[r] + 1, 1)
                               ELSE Goto(r, "complete", 1, 1)

NextEntry(r) ==
    IF file[r] < Len(Backfilled) THEN Goto(r, "backfill", file[r] + 1, 1)
                                 ELSE Goto(r, "validate", 1, 1)

\* INSERT INTO schema_migrations; its failure, a duplicate included, goes unseen.
Insert(v) == recorded' = IF tracked THEN recorded \cup {v} ELSE recorded

Start(r, force) ==
    /\ pc[r] = "idle"
    /\ Goto(r, "init", 1, 1)
    /\ forced' = [forced EXCEPT ![r] = force]
    /\ undisturbed' = undisturbed \cup {r}
    /\ happened' = IF \E s \in Runner : pc[s] # "idle" THEN happened \cup {"overlap"}
                                                     ELSE happened
    /\ UNCHANGED <<schema, faults, tracked, recorded>>

\* A failed query is not "f": the table is then taken to exist.
InitSchemaMigrations(r) ==
    /\ pc[r] = "init"
    /\ \/ tracked' = TRUE /\ NoFault
       \/ tracked' = tracked /\ Fault("query")
    /\ Goto(r, "backfill", 1, 1)
    /\ UNCHANGED <<schema, recorded, forced>>

Backfill(r) ==
    /\ pc[r] = "backfill"
    /\ LET v == Backfilled[file[r]]
       IN  \/ /\ v \notin recorded /\ Exists(Probe(v))
              /\ Goto(r, "backfill_insert", file[r], 1) /\ NoFault
           \/ /\ v \in recorded \/ ~Exists(Probe(v))
              /\ NextEntry(r) /\ NoFault
           \/ NextEntry(r) /\ Fault("query")
    /\ UNCHANGED <<schema, tracked, recorded, forced>>

BackfillInsert(r) ==
    /\ pc[r] = "backfill_insert"
    /\ \/ Insert(Backfilled[file[r]]) /\ NoFault
       \/ recorded' = recorded /\ Fault("query")
    /\ NextEntry(r)
    /\ UNCHANGED <<schema, tracked, forced>>

\* (mutant) --force is not looked at.
SkipsRecorded(r) == Versions[file[r]] \in recorded

\* is_migration_applied, and --force.
Skips(r) == Versions[file[r]] \in recorded /\ ~forced[r]

\* A failed query says that the migration was not applied.
ValidateMigration(r) ==
    /\ pc[r] = "validate"
    /\ \/ Skips(r) /\ NextFile(r) /\ NoFault
       \/ ~Skips(r) /\ Goto(r, "apply", file[r], 1) /\ NoFault
       \/ Goto(r, "apply", file[r], 1) /\ Fault("query")
    /\ UNCHANGED <<schema, tracked, recorded, forced>>

\* (mutant) The last statement of a file is not waited for.
NextStatementButOne(r) ==
    IF stmt[r] < Len(Statements(Versions[file[r]])) - 1
    THEN Goto(r, "apply", file[r], stmt[r] + 1)
    ELSE Goto(r, "record", file[r], 1)

NextStatement(r) ==
    IF stmt[r] < Len(Statements(Versions[file[r]]))
    THEN Goto(r, "apply", file[r], stmt[r] + 1)
    ELSE Goto(r, "record", file[r], 1)

Statement(r) == Statements(Versions[file[r]])[stmt[r]]

\* psql runs one statement of the file; 006 builds its index CONCURRENTLY.
Execute(o) ==
    \/ Create(o) /\ NoFault
    \/ FailToCreate(o, o = "device_covering") /\ Fault("statement")

ExecuteStatement(r) ==
    /\ pc[r] = "apply"
    /\ Execute(Statement(r))
    /\ NextStatement(r)
    /\ UNCHANGED <<tracked, recorded, forced>>

RecordMigration(r) ==
    /\ pc[r] = "record"
    /\ \/ Insert(Versions[file[r]]) /\ NoFault
       \/ recorded' = recorded /\ Fault("query")
    /\ NextFile(r)
    /\ UNCHANGED <<schema, tracked, forced>>

Exit(r) ==
    /\ pc[r] = "complete"
    /\ Goto(r, "idle", 1, 1)
    /\ forced' = [forced EXCEPT ![r] = FALSE]
    /\ undisturbed' = undisturbed \ {r}
    /\ UNCHANGED <<schema, faults, happened, tracked, recorded>>

\* Some of a file has taken effect and some has not.
HalfApplied(v, s) == \E o, u \in BuiltBy(v) : s[o] # "absent" /\ s[u] = "absent"

\* psql is killed, and the script with it or reporting "Migration failed".
Crash(r) ==
    /\ pc[r] \notin {"idle", "complete"}
    /\ \/ /\ pc[r] = "apply"
          /\ CutOff(Statement(r), Statement(r) = "device_covering")
          /\ Fault(IF HalfApplied(Versions[file[r]], schema') THEN "tear" ELSE "crash")
       \/ pc[r] # "apply" /\ schema' = schema /\ Fault("crash")
    /\ Goto(r, "idle", 1, 1)
    /\ forced' = [forced EXCEPT ![r] = FALSE]
    /\ orphan' = orphan \ {r}
    /\ UNCHANGED <<tracked, recorded>>

\* Ctrl+C while the script waits for a psql that changes something.
Interrupt(r) ==
    /\ r \notin orphan /\ pc[r] \in {"init", "backfill_insert", "apply", "record"}
    /\ Fault("interrupt")
    /\ orphan' = orphan \cup {r}
    /\ forced' = [forced EXCEPT ![r] = FALSE]
    /\ UNCHANGED <<schema, tracked, recorded, pc, file, stmt>>

EndOrphan(r) == Goto(r, "idle", 1, 1) /\ orphan' = orphan \ {r}

\* A psql that has a single query to run; Backfilled is a prefix of Versions.
QueryRunsOn(r) ==
    /\ r \in orphan
    /\ \/ pc[r] = "init" /\ tracked' = TRUE /\ UNCHANGED recorded
       \/ pc[r] \in {"backfill_insert", "record"} /\ Insert(Versions[file[r]]) /\ UNCHANGED tracked
    /\ EndOrphan(r) /\ NoFault
    /\ UNCHANGED <<schema, forced>>

\* A psql that has a file to go through; nobody records it.
FileRunsOn(r) ==
    /\ r \in orphan /\ pc[r] = "apply"
    /\ Execute(Statement(r))
    /\ IF stmt[r] < Len(Statements(Versions[file[r]]))
       THEN NextStatement(r) /\ UNCHANGED orphan
       ELSE EndOrphan(r)
    /\ UNCHANGED <<tracked, recorded, forced>>

Script(r) ==
    \/ \E force \in BOOLEAN : Start(r, force)
    \/ InitSchemaMigrations(r) \/ Backfill(r) \/ BackfillInsert(r)
    \/ ValidateMigration(r) \/ ExecuteStatement(r) \/ RecordMigration(r)
    \/ Exit(r)

RunnerNext(r) ==
    \/ r \notin orphan /\ Script(r) /\ UNCHANGED orphan
    \/ Interrupt(r) \/ QueryRunsOn(r) \/ FileRunsOn(r) \/ Crash(r)

RunnerTypeOK ==
    /\ tracked \in BOOLEAN
    /\ recorded \subseteq {Versions[i] : i \in DOMAIN Versions}
    /\ pc \in [Runner -> {"idle", "init", "backfill", "backfill_insert", "validate",
                          "apply", "record", "complete"}]
    /\ file \in [Runner -> DOMAIN Versions]
    /\ stmt \in [Runner -> 1..3]
    /\ forced \in [Runner -> BOOLEAN]
    /\ orphan \subseteq Runner
=============================================================================
