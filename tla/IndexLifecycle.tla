--------------------------- MODULE IndexLifecycle ---------------------------
(***************************************************************************)
(* The migration runner and the bulk loader on one database, interleaved   *)
(* in any way, with failing queries, failing statements and either of them *)
(* killed at any point.                                                    *)
(***************************************************************************)
EXTENDS MigrationRunner, BulkLoader

ASSUME LifecycleAssumption == Loader \notin Runner

vars == <<schemaVars, runnerVars, loaderVars>>

Init == SchemaInit /\ RunnerInit /\ LoaderInit

Migrate == \E r \in Runner : RunnerNext(r) /\ UNCHANGED loaderVars
Load == LoaderNext /\ UNCHANGED runnerVars

Spec == Init /\ [][Migrate \/ Load]_vars

\* A database that is never bulk-loaded.
MigrationsOnly == Init /\ [][Migrate]_vars

-----------------------------------------------------------------------------
TypeOK ==
    /\ SchemaTypeOK /\ RunnerTypeOK /\ LoaderTypeOK
    /\ undisturbed \subseteq Runner \cup {Loader}

AllVersions == {Versions[i] : i \in DOMAIN Versions}

(***************************************************************************)
(* schema_migrations tells the truth: what a recorded migration creates is *)
(* there.  Failing queries alone (db_query hides every error) never make   *)
(* it lie; a failed statement does, because psql still exits 0, and so do  *)
(* a crash inside a file, a bulk load, and the backfill of a run that      *)
(* overlaps another one.                                                   *)
(***************************************************************************)
OnlyQueriesFailed == happened \subseteq {"query"}

RecordsAreTrue == \A v \in recorded : \A o \in BuiltBy(v) : Exists(o)

RecordedIsReal == OnlyQueriesFailed => RecordsAreTrue

(***************************************************************************)
(* "Safe to re-run" (README.md): a run that reaches "Migration Run         *)
(* Complete" with nothing going wrong during it leaves every object of     *)
(* every migration there and on record, whatever happened before.          *)
(***************************************************************************)
RunCompletes ==
    \A r \in Runner : pc[r] = "complete" /\ r \in undisturbed =>
        /\ \A o \in Objects : Exists(o)
        /\ recorded = AllVersions

\* What failing queries lost, the next undisturbed run makes up for.
QueryFaultsHeal == OnlyQueriesFailed => RunCompletes

(***************************************************************************)
(* So it does for runs that were killed or interrupted, in the backfill    *)
(* too, once the psql that an interrupted one has left in the container is *)
(* through with its file; and their records stay true.  What the next run  *)
(* cannot make up for is a file left half applied, which the backfill      *)
(* takes for a whole one, a failed statement, and psql at work next to it. *)
(***************************************************************************)
NothingTorn == happened \subseteq {"query", "crash", "interrupt"}

CrashesHeal == NothingTorn => RecordsAreTrue /\ RunCompletes

(***************************************************************************)
(* --force is the way out the README names for a recorded migration that   *)
(* is missing: after an undisturbed forced run every object exists and is  *)
(* on record, whatever came before: crashes, failed statements, lost       *)
(* records, partial backfills, interrupted bulk loads.  An unusable index  *)
(* exists: LoadRepairs is about what it takes to get a usable one.         *)
(***************************************************************************)
ForcedRunRepairs ==
    \A r \in Runner : pc[r] = "complete" /\ forced[r] /\ r \in undisturbed =>
        /\ \A o \in Objects : Exists(o)
        /\ recorded = AllVersions

(***************************************************************************)
(* Files that are one statement or one transaction survive crashes of      *)
(* overlapping runs: once on record, backfilled or applied, their objects  *)
(* exist.  006 is among them, though its index may be unusable.            *)
(***************************************************************************)
TransactionalRecordsAreReal ==
    \A v \in recorded \cap {"004", "005", "006", "007", "008"} :
        \A o \in BuiltBy(v) : Exists(o)

(***************************************************************************)
(* A bulk load that completes undisturbed, and neither skips the drop nor  *)
(* the rebuild, leaves all secondary indexes usable, even those earlier    *)
(* loads and runs left behind invalid, which IF NOT EXISTS never repairs.  *)
(***************************************************************************)
LoadRepairs ==
    phase = "completed" /\ Loader \in undisturbed /\ ~skipDrop /\ ~skipCreate =>
        \A o \in Indexes : schema[o] = "valid"

-----------------------------------------------------------------------------
(***************************************************************************)
(* The advice of generate_data_bulk.py after a failed verification, "You   *)
(* can recreate indexes by running: ./scripts/run_migrations.sh": an       *)
(* undisturbed run that completes after the warning leaves every index.    *)
(***************************************************************************)
AdviceWorks ==
    \A r \in Runner :
        pc[r] = "complete" /\ r \in undisturbed /\ warned /\ ~forced[r] /\ phase = "idle" =>
            \A o \in Indexes : Exists(o)
=============================================================================
