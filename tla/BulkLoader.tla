----------------------------- MODULE BulkLoader -----------------------------
(***************************************************************************)
(* scripts/generate_data_bulk.py on the schema: drop the secondary         *)
(* indexes, load, rebuild them one by one, each build committing on its    *)
(* own, then verify.  A failed build is noted and the next one tried.      *)
(***************************************************************************)
EXTENDS DatabaseSchema

VARIABLES phase,         \* "idle", "drop", "load", "create", "verify", "completed"
          build,         \* the index recreate_indexes is at
          skipDrop, skipCreate,   \* --skip-index-drop, --skip-index-create
          warned         \* the last verification told the operator to run the migrations

loaderVars == <<phase, build, skipDrop, skipCreate, warned>>

Loader == "bulk load"

\* recreate_indexes: all but the BRIN index are built CONCURRENTLY.
Rebuilt == <<"device_timestamp", "reading_type", "timestamp_brin",
             "device_type_timestamp", "device_covering">>

LoaderInit ==
    /\ phase = "idle" /\ build = 1
    /\ skipDrop = FALSE /\ skipCreate = FALSE /\ warned = FALSE

\* Nothing of an invocation is left but what it did.
EndOfScript == phase' = "idle" /\ build' = 1 /\ skipDrop' = FALSE /\ skipCreate' = FALSE

StartLoad(noDrop, noCreate) ==
    /\ phase = "idle"
    /\ phase' = IF noDrop THEN "load" ELSE "drop"
    /\ build' = 1
    /\ skipDrop' = noDrop /\ skipCreate' = noCreate
    /\ undisturbed' = undisturbed \cup {Loader}
    /\ warned' = FALSE
    /\ UNCHANGED <<schema, faults, happened>>

\* (mutant) SECONDARY_INDEXES lacks the covering index.
DropAllButCovering ==
    /\ phase = "drop"
    /\ \/ /\ Drop(Indexes \ {"device_covering"})
          /\ happened' = happened \cup {"drop"}
          /\ undisturbed' = undisturbed \cap {Loader} /\ UNCHANGED faults
       \/ schema' = schema /\ Fault("statement")
    /\ phase' = "load"
    /\ UNCHANGED <<build, skipDrop, skipCreate, warned>>

\* All drops are one transaction: after a failed one the others fail as well,
\* and the commit that follows rolls everything back.
DropSecondaryIndexes ==
    /\ phase = "drop"
    /\ \/ /\ Drop(Indexes)
          /\ happened' = happened \cup {"drop"}
          /\ undisturbed' = undisturbed \cap {Loader} /\ UNCHANGED faults
       \/ schema' = schema /\ Fault("statement")
    /\ phase' = "load"
    /\ UNCHANGED <<build, skipDrop, skipCreate, warned>>

\* COPY, batch by batch: an error ends the script, the indexes still dropped.
LoadData ==
    /\ phase = "load"
    /\ \/ /\ Exists("sensor_readings") /\ NoFault
          /\ phase' = IF skipCreate THEN "verify" ELSE "create"
          /\ UNCHANGED <<build, skipDrop, skipCreate>>
       \/ /\ ~Exists("sensor_readings") /\ EndOfScript
          /\ undisturbed' = undisturbed \ {Loader} /\ UNCHANGED <<faults, happened>>
       \/ Fault("statement") /\ EndOfScript
    /\ UNCHANGED <<schema, warned>>

RecreateIndex ==
    /\ phase = "create"
    /\ LET o == Rebuilt[build]
       IN  \/ Create(o) /\ NoFault
           \/ FailToCreate(o, o # "timestamp_brin") /\ Fault("statement")
    /\ IF build < Len(Rebuilt) THEN build' = build + 1 /\ phase' = phase
                               ELSE build' = 1 /\ phase' = "verify"
    /\ UNCHANGED <<skipDrop, skipCreate, warned>>

\* verify_indexes: pg_indexes lists unusable indexes like any other.
VerifyIndexes ==
    /\ phase = "verify"
    /\ \/ /\ warned' = (\E o \in Indexes : ~Exists(o)) /\ phase' = "completed" /\ NoFault
          /\ UNCHANGED <<build, skipDrop, skipCreate>>
       \/ warned' = warned /\ EndOfScript /\ Fault("statement")
    /\ UNCHANGED schema

EndLoad ==
    /\ phase = "completed"
    /\ EndOfScript
    /\ undisturbed' = undisturbed \ {Loader}
    /\ UNCHANGED <<schema, faults, happened, warned>>

\* The script or its connection dies.  A transaction of drops is rolled back; a
\* build CONCURRENTLY comes to its end, or stays behind unusable.
KillLoad ==
    /\ phase \notin {"idle", "completed"} /\ Fault("crash")
    /\ IF phase = "create" THEN CutOff(Rebuilt[build], Rebuilt[build] # "timestamp_brin")
                           ELSE schema' = schema
    /\ EndOfScript
    /\ UNCHANGED warned

LoaderNext ==
    \/ \E noDrop, noCreate \in BOOLEAN : StartLoad(noDrop, noCreate)
    \/ DropSecondaryIndexes \/ LoadData \/ RecreateIndex \/ VerifyIndexes
    \/ EndLoad \/ KillLoad

LoaderTypeOK ==
    /\ phase \in {"idle", "drop", "load", "create", "verify", "completed"}
    /\ build \in DOMAIN Rebuilt
    /\ {skipDrop, skipCreate, warned} \subseteq BOOLEAN
=============================================================================
