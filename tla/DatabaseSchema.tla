--------------------------- MODULE DatabaseSchema ---------------------------
(***************************************************************************)
(* The schema the migrations under scripts/schema/migrations build and     *)
(* scripts/generate_data_bulk.py takes apart and rebuilds: the table       *)
(* sensor_readings, its secondary indexes, the materialized views, the     *)
(* refresh functions, the metadata column and an extension.  The two       *)
(* scripts and whatever goes wrong in them change the same objects.        *)
(***************************************************************************)
EXTENDS Integers, Sequences, FiniteSets

CONSTANTS Faults,        \* kinds of faults that occur: "query", "statement", "crash",
                         \* "tear", a crash that leaves a file half applied, and
                         \* "interrupt", of a script whose psql runs on without it
          MaxFaults      \* bound on their number

ASSUME SchemaAssumption ==
    /\ Faults \subseteq {"query", "statement", "crash", "tear", "interrupt"}
    /\ MaxFaults \in Nat

VARIABLES schema,        \* object -> "absent", "invalid" (an unusable index) or "valid"
          faults,        \* how many faults occurred
          happened,      \* history: their kinds, and "drop" and "overlap"
          undisturbed    \* history: runs no fault and no DROP has touched so far

schemaVars == <<schema, faults, happened, undisturbed>>

-----------------------------------------------------------------------------
Indexes == {"device_timestamp", "reading_type", "timestamp_brin",
            "device_type_timestamp", "device_covering"}
Objects == Indexes \cup {"sensor_readings", "materialized_views", "refresh_functions",
                         "metadata", "pg_stat_statements"}

\* Built on the table, and so an error without it.
OnTable == Objects \ {"sensor_readings", "refresh_functions", "pg_stat_statements"}

Exists(o) == schema[o] # "absent"
Buildable(o) == o \in OnTable => Exists("sensor_readings")

\* CREATE ... IF NOT EXISTS: an object that exists, usable or not, is left as it is.
Create(o) ==
    schema' = IF Exists(o) \/ ~Buildable(o) THEN schema ELSE [schema EXCEPT ![o] = "valid"]

\* The statement fails.  An index built CONCURRENTLY stays behind unusable.
FailToCreate(o, concurrently) ==
    \/ schema' = schema
    \/ concurrently /\ ~Exists(o) /\ Buildable(o) /\ schema' = [schema EXCEPT ![o] = "invalid"]

\* The client dies meanwhile: the server gives the statement up, or completes it.
CutOff(o, concurrently) == Create(o) \/ FailToCreate(o, concurrently)

Drop(os) == schema' = [o \in Objects |-> IF o \in os THEN "absent" ELSE schema[o]]

Fault(kind) ==
    /\ kind \in Faults /\ faults < MaxFaults
    /\ faults' = faults + 1
    /\ happened' = happened \cup {kind}
    /\ undisturbed' = {}

NoFault == UNCHANGED <<faults, happened, undisturbed>>

SchemaInit ==
    /\ schema = [o \in Objects |-> "absent"]
    /\ faults = 0 /\ happened = {} /\ undisturbed = {}

SchemaTypeOK ==
    /\ schema \in [Objects -> {"absent", "invalid", "valid"}]
    /\ faults \in 0..MaxFaults
    /\ happened \subseteq Faults \cup {"drop", "overlap"}
=============================================================================
