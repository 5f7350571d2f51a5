------------------------- MODULE IndexLifecycleProofs -------------------------
(***************************************************************************)
(* What IndexLifecycle says of the migration runner and the bulk loader,   *)
(* for any number of runs and of faults.                                   *)
(***************************************************************************)
EXTENDS IndexLifecycle, TLAPS

(* The statements of the i-th file. *)
Size(i) == Len(Statements(Versions[i]))
Object(i, j) == Statements(Versions[i])[j]

Made(i) == \A j \in 1..Size(i) : Exists(Object(i, j))

LEMMA Files ==
    /\ Len(Versions) = 7 /\ DOMAIN Versions = 1..7
    /\ Len(Backfilled) = 4 /\ \A k \in 1..4 : Backfilled[k] = Versions[k]
    /\ \A i, k \in 1..7 : Versions[i] = Versions[k] => i = k
BY DEF Versions, Backfilled

LEMMA StatementsOf ==
    /\ Statements(Versions[1]) = InitSchema /\ Statements(Versions[2]) = AdvancedIndexes
    /\ \A i \in 3..7 : Statements(Versions[i]) \in
          {MaterializedViews, IncrementalMVRefresh, CoveringIndex, MetadataAndTypes,
           PgStatStatements}
<1>1. /\ Versions[1] = "001" /\ Versions[2] = "002" /\ Versions[3] = "004"
      /\ Versions[4] = "005" /\ Versions[5] = "006" /\ Versions[6] = "007"
      /\ Versions[7] = "008"
  BY DEF Versions
<1>2. /\ Statements("001") = InitSchema /\ Statements("002") = AdvancedIndexes
      /\ Statements("004") = MaterializedViews /\ Statements("005") = IncrementalMVRefresh
      /\ Statements("006") = CoveringIndex /\ Statements("007") = MetadataAndTypes
      /\ Statements("008") = PgStatStatements
  BY DEF Statements
<1>3. \A i \in 3..7 : i = 3 \/ i = 4 \/ i = 5 \/ i = 6 \/ i = 7
  OBVIOUS
<1> QED BY <1>1, <1>2, <1>3

LEMMA Sizes ==
    ASSUME NEW i \in 1..7
    PROVE  /\ Size(i) \in 1..3 /\ DOMAIN Statements(Versions[i]) = 1..Size(i)
           /\ \A j \in 1..Size(i) : Object(i, j) \in Objects
<1>1. CASE i = 1
  BY <1>1, StatementsOf DEF Size, Object, InitSchema, Objects, Indexes
<1>2. CASE i = 2
  BY <1>2, StatementsOf DEF Size, Object, AdvancedIndexes, Objects, Indexes
<1>3. CASE i \in 3..7
  <2>1. Statements(Versions[i]) \in {MaterializedViews, IncrementalMVRefresh, CoveringIndex,
                                     MetadataAndTypes, PgStatStatements}
    BY <1>3, StatementsOf
  <2> QED BY <2>1 DEF Size, Object, MaterializedViews, IncrementalMVRefresh, CoveringIndex,
                      MetadataAndTypes, PgStatStatements, Objects, Indexes
<1> QED BY <1>1, <1>2, <1>3

LEMMA Content ==
    /\ BuiltBy("001") = {"sensor_readings", "device_timestamp", "reading_type"}
    /\ BuiltBy("002") = {"timestamp_brin", "device_type_timestamp"}
    /\ BuiltBy("004") = {"materialized_views"} /\ BuiltBy("005") = {"refresh_functions"}
    /\ BuiltBy("006") = {"device_covering"} /\ BuiltBy("007") = {"metadata"}
    /\ BuiltBy("008") = {"pg_stat_statements"}
BY DEF BuiltBy, Statements, InitSchema, AdvancedIndexes, MaterializedViews,
       IncrementalMVRefresh, CoveringIndex, MetadataAndTypes, PgStatStatements

LEMMA FirstObject == Object(1, 1) = "sensor_readings"
BY DEF Object, Versions, Statements, InitSchema

LEMMA BuiltByFile ==
    ASSUME NEW i \in 1..7
    PROVE  BuiltBy(Versions[i]) = {Object(i, j) : j \in 1..Size(i)}
BY Sizes DEF BuiltBy, Object

LEMMA VersionsOf == AllVersions = {Versions[i] : i \in 1..7}
BY Files DEF AllVersions

\* Every object is in a file.
LEMMA AllContent ==
    ASSUME \A i \in 1..7 : Made(i)
    PROVE  \A o \in Objects : Exists(o)
<1>1. ASSUME NEW i \in 1..7, NEW o \in BuiltBy(Versions[i]) PROVE Exists(o)
  BY <1>1, BuiltByFile DEF Made
<1>2. /\ Versions[1] = "001" /\ Versions[2] = "002" /\ Versions[3] = "004"
      /\ Versions[4] = "005" /\ Versions[5] = "006" /\ Versions[6] = "007"
      /\ Versions[7] = "008"
  BY DEF Versions
<1>3. \A o \in Objects : \E i \in 1..7 : o \in BuiltBy(Versions[i])
  BY <1>2, Content DEF Objects, Indexes
<1> QED BY <1>1, <1>3

-----------------------------------------------------------------------------
(* Types, and what goes with the labels: the statement a run is at belongs  *)
(* to its file, an invocation that ended is not undisturbed any more, nor   *)
(* is one of which only a psql is left, and a load that has come to the     *)
(* rebuild found the table.                                                 *)

Located(r) ==
    /\ pc[r] \in {"backfill", "backfill_insert"} => file[r] \in 1..4
    /\ pc[r] = "apply" => stmt[r] \in 1..Size(file[r])
    /\ r \in undisturbed => pc[r] # "idle"
    /\ r \in orphan => /\ r \notin undisturbed /\ "interrupt" \in happened
                       /\ pc[r] \in {"init", "backfill_insert", "apply", "record"}

LoadLocated ==
    /\ Loader \in undisturbed => phase # "idle"
    /\ phase \in {"create", "verify", "completed"} => Exists("sensor_readings")

TInv == TypeOK /\ (\A r \in Runner : Located(r)) /\ LoadLocated

\* No step but a DROP takes an object away.
SchemaGrows == \A o \in Objects : Exists(o) => Exists(o)'

LEMMA CreateType ==
    ASSUME SchemaTypeOK, NEW o \in Objects, Create(o)
    PROVE  /\ schema' \in [Objects -> {"absent", "invalid", "valid"}] /\ SchemaGrows
           /\ \A x \in Objects : x = o \/ schema'[x] = schema[x]
           /\ Buildable(o) => Exists(o)'
           /\ schema[o] = "invalid" \/ schema'[o] # "invalid"
BY DEF SchemaTypeOK, Create, SchemaGrows, Exists

LEMMA FailType ==
    ASSUME SchemaTypeOK, NEW o \in Objects, NEW c \in BOOLEAN, FailToCreate(o, c)
    PROVE  schema' \in [Objects -> {"absent", "invalid", "valid"}] /\ SchemaGrows
BY DEF SchemaTypeOK, FailToCreate, SchemaGrows, Exists

LEMMA FaultType ==
    ASSUME TypeOK, NEW kind, Fault(kind)
    PROVE  /\ faults' \in 0..MaxFaults /\ happened' \subseteq Faults \cup {"drop", "overlap"}
           /\ undisturbed' = {} /\ happened \subseteq happened' /\ kind \in happened'
BY SchemaAssumption DEF TypeOK, SchemaTypeOK, Fault

\* A step of an invocation leaves the others alone.
Others(r) ==
    \A s \in Runner \ {r} : /\ pc'[s] = pc[s] /\ file'[s] = file[s]
                            /\ stmt'[s] = stmt[s] /\ forced'[s] = forced[s]

\* The effect of Goto, with the type of what it leaves.
LEMMA GotoType ==
    ASSUME TypeOK, NEW r \in Runner, NEW f \in 1..7, NEW s \in 1..3, NEW label, Goto(r, label, f, s),
           label \in {"idle", "init", "backfill", "backfill_insert", "validate",
                      "apply", "record", "complete"}
    PROVE  /\ pc' \in [Runner -> {"idle", "init", "backfill", "backfill_insert", "validate",
                                  "apply", "record", "complete"}]
           /\ file' \in [Runner -> 1..7] /\ stmt' \in [Runner -> 1..3]
           /\ pc'[r] = label /\ file'[r] = f /\ stmt'[r] = s
           /\ \A q \in Runner \ {r} : pc'[q] = pc[q] /\ file'[q] = file[q] /\ stmt'[q] = stmt[q]
BY Files DEF TypeOK, RunnerTypeOK, Goto

\* What every step of an invocation does to what the others see.
Frame(r) ==
    /\ SchemaGrows /\ recorded \subseteq recorded' /\ (tracked => tracked')
    /\ happened \subseteq happened' /\ Others(r)
    /\ undisturbed' \subseteq undisturbed \cup {r}

LEMMA NextType ==
    ASSUME TypeOK, NEW r \in Runner
    PROVE  /\ NextFile(r) => \/ file[r] < 7 /\ Goto(r, "validate", file[r] + 1, 1)
                             \/ file[r] = 7 /\ Goto(r, "complete", 1, 1)
           /\ NextEntry(r) /\ file[r] \in 1..4 =>
                 \/ file[r] < 4 /\ Goto(r, "backfill", file[r] + 1, 1)
                 \/ file[r] = 4 /\ Goto(r, "validate", 1, 1)
           /\ NextStatement(r) /\ stmt[r] \in 1..Size(file[r]) =>
                 \/ stmt[r] < Size(file[r]) /\ Goto(r, "apply", file[r], stmt[r] + 1)
                 \/ stmt[r] = Size(file[r]) /\ Goto(r, "record", file[r], 1)
<1>1. file[r] \in 1..7 /\ stmt[r] \in 1..3
  BY Files DEF TypeOK, RunnerTypeOK
<1>2. Size(file[r]) \in 1..3
  BY <1>1, Sizes
<1> QED BY <1>1, <1>2, Files DEF NextFile, NextEntry, NextStatement, Size

\* A fault leaves nothing undisturbed, and no kind of fault is forgotten.
LEMMA FaultFrame ==
    /\ NoFault => UNCHANGED <<happened, undisturbed>>
    /\ \A kind : Fault(kind) => /\ happened \subseteq happened' /\ kind \in happened'
                               /\ undisturbed' = {}
BY DEF NoFault, Fault

\* A step of a psql that nobody waits for.
LEMMA OrphanSteps ==
    ASSUME TInv, NEW r \in Runner, QueryRunsOn(r) \/ FileRunsOn(r)
    PROVE  /\ r \in orphan /\ "interrupt" \in happened /\ "interrupt" \in happened'
           /\ r \notin undisturbed /\ r \notin undisturbed' /\ UNCHANGED forced
           /\ \/ EndOrphan(r)
              \/ /\ pc[r] = "apply" /\ stmt[r] \in 1..Size(file[r]) /\ NextStatement(r)
                 /\ stmt[r] < Size(file[r]) /\ UNCHANGED orphan
<1>1. r \in orphan /\ Located(r) /\ UNCHANGED forced
  BY DEF TInv, QueryRunsOn, FileRunsOn
<1>2. NoFault \/ \E kind : Fault(kind)
  BY DEF QueryRunsOn, FileRunsOn, Execute
<1>3. \/ EndOrphan(r)
      \/ /\ pc[r] = "apply" /\ NextStatement(r) /\ stmt[r] < Size(file[r]) /\ UNCHANGED orphan
  BY DEF QueryRunsOn, FileRunsOn, Size
<1> QED BY <1>1, <1>2, <1>3, FaultFrame DEF Located

\* Where the steps of an invocation lead.
LEMMA RunnerMoves ==
    ASSUME TInv, NEW r \in Runner, RunnerNext(r)
    PROVE  /\ pc' \in [Runner -> {"idle", "init", "backfill", "backfill_insert", "validate",
                                  "apply", "record", "complete"}]
           /\ file' \in [Runner -> 1..7] /\ stmt' \in [Runner -> 1..3]
           /\ forced' \in [Runner -> BOOLEAN] /\ Others(r)
           /\ pc'[r] \in {"backfill", "backfill_insert"} => file'[r] \in 1..4
           /\ pc'[r] = "apply" => stmt'[r] \in 1..Size(file'[r])
           /\ pc'[r] = "idle" => r \notin undisturbed'
<1>0. /\ file[r] \in 1..7 /\ stmt[r] \in 1..3 /\ forced \in [Runner -> BOOLEAN] /\ TypeOK
      /\ Size(file[r]) \in 1..3 /\ Located(r)
  BY Files, Sizes DEF TInv, TypeOK, RunnerTypeOK
<1>a. CASE \E label \in {"idle", "init", "complete"} : Goto(r, label, 1, 1)
              /\ (label = "idle" => r \notin undisturbed') /\ forced' \in [Runner -> BOOLEAN]
              /\ \A q \in Runner \ {r} : forced'[q] = forced[q]
  BY <1>0, <1>a, GotoType DEF Others
<1>b. CASE UNCHANGED forced /\ \E f \in 1..4 : Goto(r, "backfill", f, 1)
  BY <1>0, <1>b, GotoType DEF Others
<1>c. CASE UNCHANGED forced /\ \E f \in 1..7 : Goto(r, "validate", f, 1)
  BY <1>0, <1>c, GotoType DEF Others
<1>d. CASE UNCHANGED forced /\ \E n \in 1..Size(file[r]) : Goto(r, "apply", file[r], n)
  BY <1>0, <1>d, GotoType DEF Others
<1>e. CASE UNCHANGED forced /\ (NextFile(r) \/ Goto(r, "record", file[r], 1))
  BY <1>0, <1>c, <1>e, GotoType, NextType DEF Others
<1>f. CASE UNCHANGED forced /\ NextEntry(r) /\ file[r] \in 1..4
  BY <1>0, <1>b, <1>c, <1>f, NextType
<1>2. CASE \E force \in BOOLEAN : Start(r, force)
  BY <1>0, <1>2, <1>a DEF Start
<1>3. CASE InitSchemaMigrations(r)
  BY <1>3, <1>b DEF InitSchemaMigrations
<1>4. CASE Backfill(r)
  <2>1. /\ UNCHANGED forced /\ file[r] \in 1..4
        /\ NextEntry(r) \/ Goto(r, "backfill_insert", file[r], 1)
    BY <1>0, <1>4 DEF Backfill, Located
  <2>2. CASE Goto(r, "backfill_insert", file[r], 1)
    BY <1>0, <2>1, <2>2, GotoType DEF Others
  <2> QED BY <2>1, <2>2, <1>f
<1>5. CASE BackfillInsert(r)
  BY <1>0, <1>5, <1>f DEF BackfillInsert, Located
<1>6. CASE ValidateMigration(r)
  <2>1. UNCHANGED forced /\ (NextFile(r) \/ Goto(r, "apply", file[r], 1))
    BY <1>6 DEF ValidateMigration
  <2> QED BY <1>0, <2>1, <1>d, <1>e
<1>7. CASE ExecuteStatement(r)
  <2>1. UNCHANGED forced /\ NextStatement(r) /\ stmt[r] \in 1..Size(file[r])
    BY <1>0, <1>7 DEF ExecuteStatement, Located
  <2> QED BY <1>0, <2>1, <1>d, <1>e, NextType
<1>8. CASE RecordMigration(r)
  BY <1>8, <1>e DEF RecordMigration
<1>9. CASE Exit(r)
  BY <1>0, <1>9, <1>a DEF Exit
<1>10. CASE Crash(r)
  BY <1>0, <1>10, <1>a DEF Crash, Fault
<1>11. CASE Interrupt(r)
  BY <1>0, <1>11, Files DEF Interrupt, Fault, Others, Located, TypeOK, RunnerTypeOK
<1>12. CASE QueryRunsOn(r) \/ FileRunsOn(r)
  <2>1. CASE EndOrphan(r)
    BY <1>0, <1>12, <1>a, <2>1, OrphanSteps DEF EndOrphan
  <2>2. CASE stmt[r] \in 1..Size(file[r]) /\ stmt[r] < Size(file[r]) /\ NextStatement(r)
    BY <1>0, <1>12, <1>d, <2>2, NextType, OrphanSteps
  <2> QED BY <1>12, <2>1, <2>2, OrphanSteps
<1> QED BY <1>2, <1>3, <1>4, <1>5, <1>6, <1>7, <1>8, <1>9, <1>10, <1>11, <1>12
        DEF RunnerNext, Script

\* Which psql is left.
LEMMA RunnerOrphans ==
    ASSUME TInv, NEW r \in Runner, RunnerNext(r)
    PROVE  /\ orphan' \subseteq orphan \cup {r}
           /\ r \in orphan' => /\ r \notin undisturbed' /\ "interrupt" \in happened'
                               /\ pc'[r] \in {"init", "backfill_insert", "apply", "record"}
<1>0. TypeOK /\ Located(r) /\ file[r] \in 1..7 /\ stmt[r] \in 1..3 /\ Size(file[r]) \in 1..3
  BY Files, Sizes DEF TInv, TypeOK, RunnerTypeOK
<1>1. CASE r \notin orphan /\ UNCHANGED orphan
  BY <1>1
<1>2. CASE Interrupt(r)
  BY <1>2, FaultFrame DEF Interrupt
<1>3. CASE QueryRunsOn(r) \/ FileRunsOn(r)
  <2>1. CASE EndOrphan(r)
    BY <2>1 DEF EndOrphan
  <2>2. CASE stmt[r] \in 1..Size(file[r]) /\ stmt[r] < Size(file[r]) /\ NextStatement(r) /\ UNCHANGED orphan
    <3>1. Goto(r, "apply", file[r], stmt[r] + 1) /\ stmt[r] + 1 \in 1..3
      BY <1>0, <2>2, NextType
    <3>2. pc'[r] = "apply"
      BY <1>0, <3>1, GotoType
    <3> QED BY <1>3, <2>2, <3>2, OrphanSteps
  <2> QED BY <1>3, <2>1, <2>2, OrphanSteps
<1>4. CASE Crash(r)
  BY <1>4 DEF Crash
<1> QED BY <1>1, <1>2, <1>3, <1>4 DEF RunnerNext

LEMMA RunnerEffects ==
    ASSUME TInv, NEW r \in Runner, RunnerNext(r)
    PROVE  /\ SchemaTypeOK' /\ tracked' \in BOOLEAN /\ recorded' \subseteq AllVersions
           /\ SchemaGrows /\ recorded \subseteq recorded' /\ (tracked => tracked')
           /\ happened \subseteq happened' /\ undisturbed' \subseteq undisturbed \cup {r}
<1>0. /\ TypeOK /\ SchemaTypeOK /\ file[r] \in 1..7 /\ tracked \in BOOLEAN
      /\ recorded \subseteq AllVersions /\ Located(r)
  BY Files DEF TInv, TypeOK, RunnerTypeOK, AllVersions
<1>k. Versions[file[r]] \in AllVersions /\ (file[r] \in 1..4 => Backfilled[file[r]] \in AllVersions)
  BY <1>0, VersionsOf, Files
<1>s. ASSUME NEW v \in AllVersions
      PROVE  Insert(v) => recorded' \subseteq AllVersions /\ recorded \subseteq recorded'
  BY <1>0 DEF Insert
<1>f. ASSUME NoFault \/ \E kind \in {"query", "statement", "crash", "tear", "interrupt"} : Fault(kind)
      PROVE  /\ faults' \in 0..MaxFaults /\ happened' \subseteq Faults \cup {"drop", "overlap"}
             /\ happened \subseteq happened' /\ undisturbed' \subseteq undisturbed
  BY <1>0, <1>f, FaultType DEF NoFault, SchemaTypeOK
<1>u. schema' = schema => SchemaGrows /\ schema' \in [Objects -> {"absent", "invalid", "valid"}]
  BY <1>0 DEF SchemaTypeOK, SchemaGrows, Exists
<1>o. ASSUME pc[r] = "apply"
      PROVE  Create(Statement(r)) \/ FailToCreate(Statement(r), Statement(r) = "device_covering")
                => SchemaGrows /\ schema' \in [Objects -> {"absent", "invalid", "valid"}]
  <2>1. Statement(r) \in Objects
    BY <1>0, <1>o, Sizes DEF Located, Object, Statement
  <2> QED BY <1>0, <2>1, CreateType, FailType
<1>x. ASSUME pc[r] = "apply", Execute(Statement(r)), UNCHANGED <<tracked, recorded>>
      PROVE  /\ SchemaTypeOK' /\ tracked' \in BOOLEAN /\ recorded' \subseteq AllVersions
             /\ SchemaGrows /\ recorded \subseteq recorded' /\ (tracked => tracked')
             /\ happened \subseteq happened' /\ undisturbed' \subseteq undisturbed \cup {r}
  <2>1. SchemaGrows /\ schema' \in [Objects -> {"absent", "invalid", "valid"}]
    BY <1>o, <1>x DEF Execute
  <2>2. NoFault \/ Fault("statement")
    BY <1>x DEF Execute
  <2> QED BY <1>0, <1>f, <1>x, <2>1, <2>2 DEF SchemaTypeOK
<1>1. CASE \E force \in BOOLEAN : Start(r, force)
  BY <1>0, <1>1, <1>u DEF Start, SchemaTypeOK
<1>2. CASE InitSchemaMigrations(r)
  <2>1. /\ NoFault \/ Fault("query")
        /\ tracked' = TRUE \/ tracked' = tracked
        /\ UNCHANGED <<schema, recorded>>
    BY <1>2 DEF InitSchemaMigrations
  <2>2. tracked' \in BOOLEAN /\ (tracked => tracked')
    <3>1. CASE tracked' = TRUE
      BY <3>1
    <3>2. CASE tracked' = tracked
      BY <1>0, <3>2, Zenon
    <3> QED BY <2>1, <3>1, <3>2
  <2>3. recorded' \subseteq AllVersions /\ recorded \subseteq recorded'
    BY <1>0, <2>1
  <2> QED BY <1>0, <1>f, <1>u, <2>1, <2>2, <2>3 DEF SchemaTypeOK
<1>3. CASE Backfill(r)
  BY <1>0, <1>3, <1>f, <1>u DEF Backfill, SchemaTypeOK
<1>4. CASE BackfillInsert(r)
  BY <1>0, <1>4, <1>f, <1>k, <1>s, <1>u DEF BackfillInsert, SchemaTypeOK, Located
<1>5. CASE ValidateMigration(r)
  BY <1>0, <1>5, <1>f, <1>u DEF ValidateMigration, SchemaTypeOK
<1>6. CASE ExecuteStatement(r) \/ FileRunsOn(r)
  BY <1>6, <1>x DEF ExecuteStatement, FileRunsOn
<1>7. CASE RecordMigration(r)
  BY <1>0, <1>7, <1>f, <1>k, <1>s, <1>u DEF RecordMigration, SchemaTypeOK
<1>8. CASE Exit(r)
  BY <1>0, <1>8, <1>u DEF Exit, SchemaTypeOK
<1>9. CASE Crash(r)
  <2>1. (Fault("crash") \/ Fault("tear")) /\ UNCHANGED <<tracked, recorded>>
    BY <1>9 DEF Crash
  <2>2. SchemaGrows /\ schema' \in [Objects -> {"absent", "invalid", "valid"}]
    BY <1>9, <1>o, <1>u DEF Crash, CutOff
  <2> QED BY <1>0, <1>f, <2>1, <2>2 DEF SchemaTypeOK
<1>10. CASE Interrupt(r)
  BY <1>0, <1>10, <1>f, <1>u DEF Interrupt, SchemaTypeOK
<1>11. CASE QueryRunsOn(r)
  <2>1. UNCHANGED schema /\ NoFault
    BY <1>11 DEF QueryRunsOn
  <2>2. CASE tracked' = TRUE /\ UNCHANGED recorded
    BY <1>0, <1>f, <1>u, <2>1, <2>2 DEF SchemaTypeOK
  <2>3. CASE Insert(Versions[file[r]]) /\ UNCHANGED tracked
    BY <1>0, <1>f, <1>k, <1>s, <1>u, <2>1, <2>3 DEF SchemaTypeOK
  <2> QED BY <1>11, <2>2, <2>3 DEF QueryRunsOn
<1> QED BY <1>1, <1>2, <1>3, <1>4, <1>5, <1>6, <1>7, <1>8, <1>9, <1>10, <1>11
        DEF RunnerNext, Script

LEMMA RunnerFrame ==
    ASSUME TInv, NEW r \in Runner, RunnerNext(r) PROVE Frame(r)
BY RunnerMoves, RunnerEffects DEF Frame

LEMMA RunnerTyped ==
    ASSUME TInv, NEW r \in Runner, RunnerNext(r), UNCHANGED loaderVars PROVE TInv'
<1>1. TypeOK'
  BY RunnerMoves, RunnerOrphans, RunnerEffects, Files
  DEF TInv, TypeOK, RunnerTypeOK, LoaderTypeOK, loaderVars, AllVersions
<1>2. \A q \in Runner : Located(q)'
  <2>1. Located(r)'
    BY RunnerMoves, RunnerOrphans DEF Located, Size
  <2>2. \A q \in Runner \ {r} : Located(q)'
    BY RunnerMoves, RunnerOrphans, RunnerEffects DEF TInv, Located, Others, Size
  <2> QED BY <2>1, <2>2
<1>3. LoadLocated'
  <2>1. Loader \in undisturbed' => Loader \in undisturbed
    BY RunnerEffects, LifecycleAssumption
  <2>2. Exists("sensor_readings") => Exists("sensor_readings")'
    BY RunnerEffects DEF SchemaGrows, Objects
  <2> QED BY <2>1, <2>2 DEF TInv, LoadLocated, loaderVars
<1> QED BY <1>1, <1>2, <1>3 DEF TInv

-----------------------------------------------------------------------------
(* The bulk load takes indexes away, and with them every claim of a run to  *)
(* be undisturbed; nothing else does, and nothing takes the table away.     *)

LoadFrame ==
    /\ happened \subseteq happened'
    /\ Exists("sensor_readings") => Exists("sensor_readings")'
    /\ \/ SchemaGrows /\ undisturbed' \subseteq undisturbed \cup {Loader}
       \/ "drop" \in happened' /\ undisturbed' \subseteq {Loader}

LEMMA RebuiltIndexes ==
    /\ Len(Rebuilt) = 5 /\ DOMAIN Rebuilt = 1..5
    /\ \A i \in 1..5 : Rebuilt[i] \in Indexes
    /\ \A o \in Indexes : \E i \in 1..5 : Rebuilt[i] = o
BY DEF Rebuilt, Indexes

\* Where the steps of a load lead.
LEMMA LoaderMoves ==
    ASSUME LoaderTypeOK, LoaderNext PROVE LoaderTypeOK'
<1>0. /\ skipDrop \in BOOLEAN /\ skipCreate \in BOOLEAN /\ warned \in BOOLEAN /\ build \in 1..5
      /\ phase \in {"idle", "drop", "load", "create", "verify", "completed"}
  BY RebuiltIndexes DEF LoaderTypeOK
<1>s. ASSUME EndOfScript \/ UNCHANGED <<skipDrop, skipCreate>>
      PROVE  skipDrop' \in BOOLEAN /\ skipCreate' \in BOOLEAN
  BY <1>0, <1>s DEF EndOfScript
<1>q. ASSUME skipDrop' \in BOOLEAN, skipCreate' \in BOOLEAN, warned' \in BOOLEAN, build' \in 1..5,
             phase' \in {"idle", "drop", "load", "create", "verify", "completed"}
      PROVE  LoaderTypeOK'
  BY <1>q, RebuiltIndexes DEF LoaderTypeOK
<1>1. ASSUME NEW noDrop \in BOOLEAN, NEW noCreate \in BOOLEAN, StartLoad(noDrop, noCreate)
      PROVE  LoaderTypeOK'
  <2>1. /\ skipDrop' = noDrop /\ skipCreate' = noCreate /\ build' = 1
        /\ phase' \in {"load", "drop"} /\ warned' = FALSE
    BY <1>1, Zenon DEF StartLoad
  <2>2. skipDrop' \in BOOLEAN /\ skipCreate' \in BOOLEAN /\ warned' \in BOOLEAN
    BY <2>1, Zenon
  <2> QED BY <1>q, <2>1, <2>2
<1>2. CASE DropSecondaryIndexes
  <2>1. UNCHANGED <<build, skipDrop, skipCreate, warned>> /\ phase' = "load"
    BY <1>2 DEF DropSecondaryIndexes
  <2> QED BY <1>0, <1>q, <1>s, <2>1
<1>3. CASE LoadData
  <2>1. EndOfScript \/ UNCHANGED <<skipDrop, skipCreate>>
    BY <1>3 DEF LoadData
  <2>2. /\ build' \in 1..5 /\ warned' = warned
        /\ phase' \in {"idle", "drop", "load", "create", "verify", "completed"}
    BY <1>0, <1>3 DEF LoadData, EndOfScript
  <2> QED BY <1>0, <1>q, <1>s, <2>1, <2>2
<1>4. CASE RecreateIndex
  BY <1>0, <1>4, <1>q, <1>s, RebuiltIndexes DEF RecreateIndex
<1>5. CASE VerifyIndexes
  <2>1. EndOfScript \/ UNCHANGED <<skipDrop, skipCreate>>
    BY <1>5 DEF VerifyIndexes
  <2>2. /\ build' \in 1..5
        /\ phase' \in {"idle", "drop", "load", "create", "verify", "completed"}
    <3>1. (phase' = "completed" /\ build' = build) \/ EndOfScript
      BY <1>5 DEF VerifyIndexes
    <3> QED BY <1>0, <3>1 DEF EndOfScript
  <2>3. warned' \in BOOLEAN
    <3>1. CASE warned' = warned
      BY <1>0, <3>1
    <3>2. CASE warned' = (\E o \in Indexes : ~Exists(o))
      <4>1. (\E o \in Indexes : ~Exists(o)) \in BOOLEAN
        OBVIOUS
      <4> QED BY <3>2, <4>1
    <3> QED BY <1>5, <3>1, <3>2 DEF VerifyIndexes
  <2> QED BY <1>q, <1>s, <2>1, <2>2, <2>3
<1>6. CASE EndLoad
  <2>1. EndOfScript /\ warned' = warned
    BY <1>6 DEF EndLoad
  <2>2. phase' = "idle" /\ build' \in 1..5
    BY <2>1 DEF EndOfScript
  <2> QED BY <1>0, <1>q, <1>s, <2>1, <2>2
<1>7. CASE KillLoad
  <2>1. EndOfScript /\ warned' = warned
    BY <1>7 DEF KillLoad
  <2>2. phase' = "idle" /\ build' \in 1..5
    BY <2>1 DEF EndOfScript
  <2> QED BY <1>0, <1>q, <1>s, <2>1, <2>2
<1> QED BY <1>1, <1>2, <1>3, <1>4, <1>5, <1>6, <1>7 DEF LoaderNext

LEMMA LoaderEffects ==
    ASSUME TInv, LoaderNext PROVE SchemaTypeOK' /\ LoadLocated' /\ LoadFrame
<1>0. /\ TypeOK /\ SchemaTypeOK /\ LoadLocated /\ build \in 1..5
      /\ "sensor_readings" \in Objects /\ "sensor_readings" \notin Indexes /\ Indexes \subseteq Objects
  BY RebuiltIndexes DEF TInv, TypeOK, LoaderTypeOK, Objects, Indexes
<1>f. ASSUME NoFault \/ \E kind \in {"query", "statement", "crash", "tear", "interrupt"} : Fault(kind)
      PROVE  /\ faults' \in 0..MaxFaults /\ happened' \subseteq Faults \cup {"drop", "overlap"}
             /\ happened \subseteq happened' /\ undisturbed' \subseteq undisturbed
  BY <1>0, <1>f, FaultType DEF NoFault, SchemaTypeOK
<1>u. schema' = schema => SchemaGrows /\ schema' \in [Objects -> {"absent", "invalid", "valid"}]
  BY <1>0 DEF SchemaTypeOK, SchemaGrows, Exists
<1>g. SchemaGrows => (Exists("sensor_readings") => Exists("sensor_readings")')
  BY <1>0 DEF SchemaGrows
<1>o. ASSUME phase = "create"
      PROVE  LET o == Rebuilt[build] IN
             Create(o) \/ FailToCreate(o, o # "timestamp_brin") \/ CutOff(o, o # "timestamp_brin")
                => SchemaGrows /\ schema' \in [Objects -> {"absent", "invalid", "valid"}]
  <2>1. Rebuilt[build] \in Objects
    BY <1>0, RebuiltIndexes
  <2> QED BY <1>0, <2>1, CreateType, FailType DEF CutOff
\* Every step but the drop lets the schema grow, and is a fault or none.
<1>q. ASSUME SchemaGrows, schema' \in [Objects -> {"absent", "invalid", "valid"}],
             faults' \in 0..MaxFaults, happened' \subseteq Faults \cup {"drop", "overlap"},
             happened \subseteq happened', undisturbed' \subseteq undisturbed \cup {Loader},
             Loader \in undisturbed' => phase' # "idle",
             phase' \in {"create", "verify", "completed"} => Exists("sensor_readings")
      PROVE  SchemaTypeOK' /\ LoadLocated' /\ LoadFrame
  BY <1>q, <1>g DEF SchemaTypeOK, LoadLocated, LoadFrame
<1>1. ASSUME NEW noDrop \in BOOLEAN, NEW noCreate \in BOOLEAN, StartLoad(noDrop, noCreate)
      PROVE  SchemaTypeOK' /\ LoadLocated' /\ LoadFrame
  BY <1>0, <1>1, <1>u, <1>q DEF StartLoad, SchemaTypeOK
<1>2. CASE DropSecondaryIndexes
  <2>1. phase' = "load"
    BY <1>2 DEF DropSecondaryIndexes
  <2>2. CASE schema' = schema /\ Fault("statement")
    BY <1>f, <1>q, <1>u, <2>1, <2>2
  <2>3. CASE /\ Drop(Indexes) /\ happened' = happened \cup {"drop"}
             /\ undisturbed' = undisturbed \cap {Loader} /\ UNCHANGED faults
    <3>1. /\ schema' \in [Objects -> {"absent", "invalid", "valid"}]
          /\ Exists("sensor_readings") => Exists("sensor_readings")'
      BY <1>0, <2>3 DEF Drop, Exists, SchemaTypeOK
    <3> QED BY <1>0, <2>1, <2>3, <3>1 DEF SchemaTypeOK, LoadFrame, LoadLocated
  <2> QED BY <1>2, <2>2, <2>3 DEF DropSecondaryIndexes
<1>3. CASE LoadData
  <2>1. CASE Exists("sensor_readings") /\ NoFault /\ phase' # "idle" /\ schema' = schema
    BY <1>f, <1>q, <1>u, <2>1
  <2>2. CASE EndOfScript /\ undisturbed' = undisturbed \ {Loader} /\ UNCHANGED <<schema, faults, happened>>
    BY <1>0, <1>q, <1>u, <2>2 DEF EndOfScript, SchemaTypeOK
  <2>3. CASE Fault("statement") /\ EndOfScript /\ schema' = schema
    BY <1>f, <1>q, <1>u, <2>3 DEF EndOfScript, Fault
  <2> QED BY <1>3, <2>1, <2>2, <2>3 DEF LoadData
<1>4. CASE RecreateIndex
  <2>1. phase = "create" /\ phase' # "idle" /\ (NoFault \/ Fault("statement"))
    BY <1>4 DEF RecreateIndex
  <2>2. SchemaGrows /\ schema' \in [Objects -> {"absent", "invalid", "valid"}]
    BY <1>4, <1>o, <2>1 DEF RecreateIndex
  <2>3. Exists("sensor_readings")
    BY <1>0, <2>1 DEF LoadLocated
  <2> QED BY <1>f, <1>q, <2>1, <2>2, <2>3
<1>5. CASE VerifyIndexes
  <2>1. schema' = schema /\ Exists("sensor_readings")
    BY <1>0, <1>5 DEF VerifyIndexes, LoadLocated
  <2>2. (NoFault /\ phase' = "completed") \/ (EndOfScript /\ Fault("statement"))
    BY <1>5 DEF VerifyIndexes
  <2>3. CASE NoFault /\ phase' = "completed"
    BY <1>f, <1>q, <1>u, <2>1, <2>3
  <2>4. CASE EndOfScript /\ Fault("statement")
    BY <1>f, <1>q, <1>u, <2>1, <2>4 DEF EndOfScript, Fault
  <2> QED BY <2>2, <2>3, <2>4
<1>6. CASE EndLoad
  BY <1>0, <1>6, <1>q, <1>u DEF EndLoad, EndOfScript, SchemaTypeOK
<1>7. CASE KillLoad
  <2>1. Fault("crash") /\ phase' = "idle" /\ undisturbed' = {}
    BY <1>7 DEF KillLoad, EndOfScript, Fault
  <2>2. SchemaGrows /\ schema' \in [Objects -> {"absent", "invalid", "valid"}]
    BY <1>7, <1>o, <1>u DEF KillLoad
  <2> QED BY <1>f, <1>q, <2>1, <2>2
<1> QED BY <1>1, <1>2, <1>3, <1>4, <1>5, <1>6, <1>7 DEF LoaderNext

LEMMA LoaderTyped ==
    ASSUME TInv, LoaderNext, UNCHANGED runnerVars PROVE TInv'
<1>1. TypeOK'
  BY LoaderMoves, LoaderEffects DEF TInv, TypeOK, RunnerTypeOK, runnerVars, LoadFrame
<1>2. \A r \in Runner : Located(r)'
  <2> SUFFICES ASSUME NEW r \in Runner PROVE Located(r)'
    OBVIOUS
  <2>1. (r \in undisturbed' => r \in undisturbed) /\ happened \subseteq happened'
    BY LoaderEffects, LifecycleAssumption DEF LoadFrame
  <2> QED BY <2>1 DEF TInv, Located, Size, runnerVars
<1> QED BY <1>1, <1>2, LoaderEffects DEF TInv

LEMMA TInit == Init => TInv
<1> SUFFICES ASSUME Init PROVE TInv
  OBVIOUS
<1>1. SchemaTypeOK /\ undisturbed = {}
  BY SchemaAssumption DEF Init, SchemaInit, SchemaTypeOK
<1>2. RunnerTypeOK /\ \A r \in Runner : pc[r] = "idle"
  <2>1. tracked \in BOOLEAN
    BY Zenon DEF Init, RunnerInit
  <2>2. /\ pc = [r \in Runner |-> "idle"] /\ file = [r \in Runner |-> 1]
        /\ stmt = [r \in Runner |-> 1] /\ forced = [r \in Runner |-> FALSE]
        /\ recorded = {} /\ orphan = {}
    BY DEF Init, RunnerInit
  <2> QED BY <2>1, <2>2, Files DEF RunnerTypeOK
<1>3. LoaderTypeOK /\ phase = "idle"
  <2>1. skipDrop \in BOOLEAN /\ skipCreate \in BOOLEAN /\ warned \in BOOLEAN
    BY Zenon DEF Init, LoaderInit
  <2>2. phase = "idle" /\ build = 1
    BY DEF Init, LoaderInit
  <2> QED BY <2>1, <2>2, RebuiltIndexes DEF LoaderTypeOK
<1>4. orphan = {}
  BY DEF Init, RunnerInit
<1> QED BY <1>1, <1>2, <1>3, <1>4 DEF TInv, TypeOK, Located, LoadLocated

LEMMA TStep == TInv /\ [Migrate \/ Load]_vars => TInv'
<1> SUFFICES ASSUME TInv, [Migrate \/ Load]_vars PROVE TInv'
  OBVIOUS
<1>1. CASE Migrate
  BY <1>1, RunnerTyped DEF Migrate
<1>2. CASE Load
  BY <1>2, LoaderTyped DEF Load
<1>3. CASE UNCHANGED vars
  BY <1>3 DEF vars, schemaVars, runnerVars, loaderVars, TInv, TypeOK, SchemaTypeOK, RunnerTypeOK,
              LoaderTypeOK, Located, LoadLocated, Size, Exists
<1> QED BY <1>1, <1>2, <1>3

(***************************************************************************)
(* Every variable of the scripts and the database keeps its type           *)
(* (run_migrations.sh, generate_data_bulk.py).                             *)
(***************************************************************************)
THEOREM TypeCorrect == Spec => []TypeOK
<1>1. TInv => TypeOK
  BY DEF TInv
<1> QED BY TInit, TStep, <1>1, PTL DEF Spec

-----------------------------------------------------------------------------
(* A load that nothing went wrong in.  From the drop on no index is         *)
(* unusable, so that every index it comes to is built, or was by a run.     *)

LoadSound ==
    Loader \in undisturbed /\ skipDrop = FALSE /\ skipCreate = FALSE =>
        /\ phase \in {"drop", "load"} => build = 1
        /\ phase # "drop" => \A o \in Indexes : schema[o] # "invalid"
        /\ phase = "create" => \A i \in 1..(build - 1) : schema[Rebuilt[i]] = "valid"
        /\ phase \in {"verify", "completed"} => \A o \in Indexes : schema[o] = "valid"

\* What a step in which nothing goes wrong does to the schema.
OnlyBuilds ==
    \A o \in Objects : schema'[o] = schema[o] \/ (schema[o] = "absent" /\ schema'[o] = "valid")

LEMMA CreateBuilds ==
    ASSUME SchemaTypeOK, NEW o \in Objects, Create(o)
    PROVE  OnlyBuilds
BY DEF SchemaTypeOK, Create, OnlyBuilds, Exists

LEMMA RunnerBuilds ==
    ASSUME TInv, NEW r \in Runner, RunnerNext(r), undisturbed' # {}
    PROVE  OnlyBuilds
<1>1. \A kind : ~Fault(kind)
  BY DEF Fault
<1>2. CASE ExecuteStatement(r) \/ FileRunsOn(r)
  <2>0. pc[r] = "apply" /\ Execute(Statement(r))
    BY <1>2 DEF ExecuteStatement, FileRunsOn
  <2>1. Object(file[r], stmt[r]) \in Objects
    BY <2>0, Sizes, Files DEF TInv, TypeOK, RunnerTypeOK, Located
  <2>2. Create(Object(file[r], stmt[r]))
    BY <1>1, <2>0 DEF Execute, Statement, Object
  <2> QED BY <2>1, <2>2, CreateBuilds DEF TInv, TypeOK
<1>3. CASE ~(ExecuteStatement(r) \/ FileRunsOn(r))
  <2>1. schema' = schema
    BY <1>1, <1>3 DEF RunnerNext, Script, Interrupt, QueryRunsOn, Start, InitSchemaMigrations, Backfill, BackfillInsert,
                      ValidateMigration, RecordMigration, Exit, Crash
  <2> QED BY <2>1 DEF OnlyBuilds
<1> QED BY <1>2, <1>3

LEMMA LoadSoundRunner ==
    ASSUME TInv, LoadSound, NEW r \in Runner, RunnerNext(r), UNCHANGED loaderVars
    PROVE  LoadSound'
<1> SUFFICES ASSUME Loader \in undisturbed', skipDrop = FALSE, skipCreate = FALSE
             PROVE  LoadSound'
  BY DEF LoadSound, loaderVars
<1>1. Loader \in undisturbed
  BY RunnerEffects, LifecycleAssumption
<1>2. \A o \in Indexes : schema'[o] = schema[o] \/ (schema[o] = "absent" /\ schema'[o] = "valid")
  BY RunnerBuilds DEF OnlyBuilds, Objects
<1>3. build \in 1..5 /\ \A i \in 1..(build - 1) : Rebuilt[i] \in Indexes
  BY RebuiltIndexes DEF TInv, TypeOK, LoaderTypeOK
<1> QED BY <1>1, <1>2, <1>3 DEF LoadSound, loaderVars

LEMMA LoadSoundLoader ==
    ASSUME TInv, LoadSound, LoaderNext, UNCHANGED runnerVars PROVE LoadSound'
<1> SUFFICES ASSUME Loader \in undisturbed', skipDrop' = FALSE, skipCreate' = FALSE
             PROVE  LoadSound'
  BY DEF LoadSound
<1>0. /\ SchemaTypeOK /\ build \in 1..5 /\ Indexes \subseteq Objects
      /\ "sensor_readings" \notin Indexes /\ \A kind : ~Fault(kind)
  BY RebuiltIndexes DEF TInv, TypeOK, LoaderTypeOK, Objects, Indexes, Fault
<1>1. ASSUME NEW noDrop \in BOOLEAN, NEW noCreate \in BOOLEAN, StartLoad(noDrop, noCreate)
      PROVE  LoadSound'
  <2>1. noDrop = FALSE
    BY <1>1 DEF StartLoad
  <2>2. phase' = "drop" /\ build' = 1
    BY <1>1, <2>1 DEF StartLoad
  <2> QED BY <2>2 DEF LoadSound
<1>2. CASE DropSecondaryIndexes
  <2>1. Drop(Indexes) /\ phase' = "load" /\ Loader \in undisturbed
    BY <1>0, <1>2 DEF DropSecondaryIndexes
  <2>3. build' = 1
    BY <1>2, <2>1 DEF DropSecondaryIndexes, LoadSound
  <2>2. \A o \in Indexes : schema'[o] = "absent"
    BY <1>0, <2>1 DEF Drop
  <2> QED BY <2>1, <2>2, <2>3 DEF LoadSound
<1>3. CASE LoadData
  <2>1. /\ NoFault /\ phase = "load" /\ UNCHANGED <<schema, build, skipDrop, skipCreate>>
        /\ phase' = IF skipCreate THEN "verify" ELSE "create"
    BY <1>0, <1>3 DEF LoadData
  <2>2. phase' = "create" /\ Loader \in undisturbed
    BY <2>1 DEF NoFault
  <2>3. build' = 1
    BY <2>1, <2>2 DEF LoadSound
  <2> QED BY <2>1, <2>2, <2>3 DEF LoadSound
<1>4. CASE RecreateIndex
  <2> DEFINE o == Rebuilt[build]
  <2>1. /\ Create(o) /\ phase = "create" /\ UNCHANGED <<skipDrop, skipCreate>>
        /\ Loader \in undisturbed /\ o \in Indexes
        /\ \/ build < 5 /\ build' = build + 1 /\ phase' = "create"
           \/ build = 5 /\ build' = 1 /\ phase' = "verify"
    BY <1>0, <1>4, RebuiltIndexes DEF RecreateIndex, NoFault
  <2>2. Exists("sensor_readings")
    BY <2>1 DEF TInv, LoadLocated
  <2>3. /\ \A x \in Indexes : schema[x] # "invalid"
        /\ \A i \in 1..(build - 1) : schema[Rebuilt[i]] = "valid"
    BY <2>1 DEF LoadSound
  <2>4. \A x \in Indexes : schema'[x] = schema[x] \/ (schema[x] = "absent" /\ schema'[x] = "valid")
    BY <1>0, <2>1, CreateBuilds DEF OnlyBuilds
  <2>5. schema'[o] = "valid"
    BY <1>0, <2>1, <2>2, <2>3 DEF Create, Exists, Buildable, SchemaTypeOK
  <2>6. \A i \in 1..build : schema'[Rebuilt[i]] = "valid"
    <3> SUFFICES ASSUME NEW i \in 1..build PROVE schema'[Rebuilt[i]] = "valid"
      OBVIOUS
    <3>1. CASE i = build
      BY <2>5, <3>1
    <3>2. CASE i # build
      BY <1>0, <2>3, <2>4, <3>2, RebuiltIndexes
    <3> QED BY <3>1, <3>2
  <2>7. \A x \in Indexes : schema'[x] # "invalid"
    BY <2>3, <2>4
  <2>8. build = 5 => \A x \in Indexes : schema'[x] = "valid"
    BY <2>6, RebuiltIndexes
  <2> HIDE DEF o
  <2> QED BY <1>0, <2>1, <2>6, <2>7, <2>8 DEF LoadSound
<1>5. CASE VerifyIndexes
  BY <1>0, <1>5 DEF VerifyIndexes, LoadSound, NoFault
<1>6. CASE EndLoad
  BY <1>6 DEF EndLoad
<1>7. CASE KillLoad
  BY <1>0, <1>7 DEF KillLoad
<1> QED BY <1>1, <1>2, <1>3, <1>4, <1>5, <1>6, <1>7 DEF LoaderNext

(***************************************************************************)
(* A bulk load that completes undisturbed, with neither the drop nor the   *)
(* rebuild skipped, leaves every index usable, whatever state earlier      *)
(* loads and runs left them in (recreate_indexes).                         *)
(***************************************************************************)
THEOREM LoadMakesUsable == Spec => []LoadRepairs
<1> DEFINE Inv == TInv /\ LoadSound
<1>1. Init => Inv
  BY TInit DEF Init, SchemaInit, LoadSound
<1>2. Inv /\ [Migrate \/ Load]_vars => Inv'
  <2> SUFFICES ASSUME Inv, [Migrate \/ Load]_vars PROVE LoadSound'
    BY TStep
  <2>1. CASE Migrate
    BY <2>1, LoadSoundRunner DEF Migrate
  <2>2. CASE Load
    BY <2>2, LoadSoundLoader DEF Load
  <2>3. CASE UNCHANGED vars
    BY <2>3 DEF vars, schemaVars, loaderVars, LoadSound
  <2> QED BY <2>1, <2>2, <2>3
<1>3. Inv => LoadRepairs
  <2>1. TInv => (skipDrop = FALSE \/ skipDrop = TRUE) /\ (skipCreate = FALSE \/ skipCreate = TRUE)
    BY DEF TInv, TypeOK, LoaderTypeOK
  <2> QED BY <2>1 DEF LoadSound, LoadRepairs
<1> QED BY <1>1, <1>2, <1>3, PTL DEF Spec

-----------------------------------------------------------------------------
(* What a run has built of a file stays, and its next statement succeeds    *)
(* because the table is there.                                              *)

LEMMA MadeStays ==
    ASSUME SchemaGrows, NEW i \in 1..7
    PROVE  /\ Made(i) => Made(i)'
           /\ \A j \in 1..Size(i) : Exists(Object(i, j)) => Exists(Object(i, j))'
<1>1. \A j \in 1..Size(i) : Exists(Object(i, j)) => Exists(Object(i, j))'
  BY Sizes DEF SchemaGrows
<1> QED BY <1>1 DEF Made, Size, Object

LEMMA StatementBuilds ==
    ASSUME TInv, NEW r \in Runner, pc[r] = "apply",
           file[r] > 1 => Exists("sensor_readings"),
           \A j \in 1..(stmt[r] - 1) : Exists(Object(file[r], j)),
           Create(Object(file[r], stmt[r]))
    PROVE  \A j \in 1..stmt[r] : schema'[Object(file[r], j)] # "absent"
<1>0. /\ SchemaTypeOK /\ file[r] \in 1..7 /\ stmt[r] \in 1..Size(file[r])
      /\ Size(file[r]) \in 1..3 /\ Object(file[r], stmt[r]) \in Objects
  BY Files, Sizes DEF TInv, TypeOK, RunnerTypeOK, Located
<1>1. SchemaGrows
  BY <1>0, CreateType
<1>2. Buildable(Object(file[r], stmt[r]))
  <2>1. CASE file[r] > 1
    BY <2>1 DEF Buildable
  <2>2. CASE file[r] = 1 /\ stmt[r] > 1
    <3>1. Exists(Object(1, 1))
      BY <1>0, <2>2
    <3> QED BY <3>1, FirstObject DEF Buildable
  <2>3. CASE file[r] = 1 /\ stmt[r] = 1
    BY <2>3, FirstObject DEF Buildable, OnTable
  <2> QED BY <1>0, <2>1, <2>2, <2>3
<1>3. schema'[Object(file[r], stmt[r])] # "absent"
  BY <1>0, <1>2, CreateType DEF Exists
<1>4. \A j \in 1..(stmt[r] - 1) : schema'[Object(file[r], j)] # "absent"
  BY <1>0, <1>1, Sizes DEF SchemaGrows, Exists
<1>5. \A j \in 1..stmt[r] : j = stmt[r] \/ j \in 1..(stmt[r] - 1)
  BY <1>0
<1> QED BY <1>3, <1>4, <1>5

-----------------------------------------------------------------------------
(* As long as only queries have failed, the database is empty, or its first *)
(* run is on its way and alone, or everything is there.                     *)

FirstRun(r) ==
    /\ \A s \in Runner \ {r} : pc[s] = "idle"
    /\ pc[r] \in {"init", "backfill", "validate", "apply", "record"}
    /\ pc[r] \in {"init", "backfill"} => recorded = {} /\ \A o \in Objects : ~Exists(o)
    /\ pc[r] \in {"validate", "apply", "record"} =>
          /\ \A i \in 1..(file[r] - 1) : Made(i)
          /\ recorded \subseteq {Versions[i] : i \in 1..(file[r] - 1)}
    /\ pc[r] = "apply" => \A j \in 1..(stmt[r] - 1) : Exists(Object(file[r], j))
    /\ pc[r] = "record" => Made(file[r])

Empty ==
    /\ recorded = {} /\ \A o \in Objects : ~Exists(o)
    /\ \A r \in Runner : pc[r] = "idle"

AllMade == \A i \in 1..7 : Made(i)

Orderly == OnlyQueriesFailed => AllMade \/ Empty \/ \E r \in Runner : FirstRun(r)

LEMMA OrderlyRecords ==
    ASSUME TInv, Orderly PROVE RecordedIsReal
<1> SUFFICES ASSUME OnlyQueriesFailed, NEW v \in recorded PROVE \A o \in BuiltBy(v) : Exists(o)
  BY DEF RecordedIsReal, RecordsAreTrue
<1>1. PICK i \in 1..7 : v = Versions[i]
  BY Files DEF TInv, TypeOK, RunnerTypeOK
<1>2. Made(i)
  <2>1. CASE AllMade
    BY <2>1 DEF AllMade
  <2>2. ASSUME NEW r \in Runner, FirstRun(r) PROVE Made(i)
    <3>1. file[r] \in 1..7
      BY Files DEF TInv, TypeOK, RunnerTypeOK
    <3>2. PICK k \in 1..(file[r] - 1) : v = Versions[k]
      BY <2>2 DEF FirstRun
    <3>3. Made(k) /\ k \in 1..7
      BY <2>2, <3>1, <3>2 DEF FirstRun
    <3> QED BY <1>1, <3>2, <3>3, Files
  <2> QED BY <2>1, <2>2 DEF Orderly, Empty
<1> QED BY <1>1, <1>2, BuiltByFile DEF Made

LEMMA ProbesAreObjects == \A k \in 1..4 : Probe(Backfilled[k]) \in Objects
<1>1. /\ Backfilled[1] = "001" /\ Backfilled[2] = "002"
      /\ Backfilled[3] = "004" /\ Backfilled[4] = "005"
  BY DEF Backfilled
<1>2. /\ Probe("001") \in Objects /\ Probe("002") \in Objects
      /\ Probe("004") \in Objects /\ Probe("005") \in Objects
  BY DEF Probe, Objects, Indexes
<1> QED BY <1>1, <1>2

\* The steps of a first run.
LEMMA FirstRunStep ==
    ASSUME TInv, NEW r \in Runner, FirstRun(r), RunnerNext(r), OnlyQueriesFailed'
    PROVE  AllMade' \/ FirstRun(r)'
<1>0. /\ TypeOK /\ SchemaGrows /\ Others(r) /\ file[r] \in 1..7 /\ stmt[r] \in 1..3
      /\ Located(r) /\ recorded \subseteq AllVersions
  BY RunnerFrame, Files DEF Frame, TInv, TypeOK, RunnerTypeOK, AllVersions
<1>k. /\ ~Fault("statement") /\ ~Fault("crash") /\ ~Fault("tear") /\ ~Fault("interrupt")
      /\ "interrupt" \notin happened'
  BY DEF OnlyQueriesFailed, Fault
<1>i. \A s \in Runner \ {r} : pc'[s] = "idle"
  BY <1>0 DEF FirstRun, Others
<1>m. \A i \in 1..7 : Made(i) => Made(i)'
  BY <1>0, MadeStays
\* How a first run can stay one, label by label.
<1>e. ASSUME pc'[r] \in {"init", "backfill"}, UNCHANGED <<schema, recorded>>,
             pc[r] \in {"init", "backfill"}
      PROVE  FirstRun(r)'
  BY <1>e, <1>i DEF FirstRun, Exists
<1>v. ASSUME pc'[r] = "validate", file'[r] \in 1..7, \A i \in 1..(file'[r] - 1) : Made(i)',
             recorded' \subseteq {Versions[i] : i \in 1..(file'[r] - 1)}
      PROVE  FirstRun(r)'
  BY <1>v, <1>i DEF FirstRun
<1>1. CASE \E force \in BOOLEAN : Start(r, force)
  BY <1>1 DEF Start, FirstRun
<1>2. CASE InitSchemaMigrations(r)
  <2>1. pc[r] = "init" /\ Goto(r, "backfill", 1, 1) /\ UNCHANGED <<schema, recorded>>
    BY <1>2 DEF InitSchemaMigrations
  <2>2. pc'[r] = "backfill"
    BY <1>0, <2>1, GotoType
  <2> QED BY <1>e, <2>1, <2>2
<1>3. CASE Backfill(r)
  <2>1. pc[r] = "backfill" /\ UNCHANGED <<schema, recorded>> /\ file[r] \in 1..4
    BY <1>0, <1>3 DEF Backfill, Located
  <2>2. ~Exists(Probe(Backfilled[file[r]])) /\ recorded = {}
    BY <2>1, ProbesAreObjects DEF FirstRun
  <2>3. NextEntry(r)
    BY <1>3, <2>2 DEF Backfill
  <2>4. CASE Goto(r, "backfill", file[r] + 1, 1) /\ file[r] < 4
    <3>1. pc'[r] = "backfill"
      BY <1>0, <2>1, <2>4, GotoType
    <3> QED BY <1>e, <2>1, <3>1
  <2>5. CASE Goto(r, "validate", 1, 1)
    <3>1. pc'[r] = "validate" /\ file'[r] = 1
      BY <1>0, <2>5, GotoType
    <3> QED BY <1>v, <2>1, <2>2, <3>1
  <2> QED BY <1>0, <2>1, <2>3, <2>4, <2>5, NextType
<1>4. CASE BackfillInsert(r)
  BY <1>4 DEF BackfillInsert, FirstRun
<1>5. CASE ValidateMigration(r)
  <2>1. Versions[file[r]] \notin recorded
    <3>1. pc[r] = "validate"
      BY <1>5 DEF ValidateMigration
    <3>2. recorded \subseteq {Versions[i] : i \in 1..(file[r] - 1)}
      BY <3>1 DEF FirstRun
    <3>3. \A i \in 1..(file[r] - 1) : i \in 1..7 /\ i # file[r]
      BY <1>0
    <3> QED BY <1>0, <3>2, <3>3, Files
  <2>2. pc[r] = "validate" /\ Goto(r, "apply", file[r], 1) /\ UNCHANGED <<schema, recorded>>
    BY <1>5, <2>1 DEF ValidateMigration, Skips
  <2>3. pc'[r] = "apply" /\ file'[r] = file[r] /\ stmt'[r] = 1
    BY <1>0, <2>2, GotoType
  <2>4. \A i \in 1..(file[r] - 1) : Made(i) /\ i \in 1..7
    BY <1>0, <2>2 DEF FirstRun
  <2> QED BY <1>0, <1>i, <1>m, <2>2, <2>3, <2>4 DEF FirstRun
<1>6. CASE ExecuteStatement(r)
  <2>1. /\ pc[r] = "apply" /\ stmt[r] \in 1..Size(file[r]) /\ Size(file[r]) \in 1..3
        /\ Create(Object(file[r], stmt[r])) /\ UNCHANGED recorded /\ NextStatement(r)
    BY <1>0, <1>6, <1>k, Sizes DEF ExecuteStatement, Execute, Statement, Located, Object
  <2>2. /\ \A i \in 1..(file[r] - 1) : Made(i) /\ i \in 1..7
        /\ recorded \subseteq {Versions[i] : i \in 1..(file[r] - 1)}
        /\ \A j \in 1..(stmt[r] - 1) : Exists(Object(file[r], j))
    BY <1>0, <2>1 DEF FirstRun
  <2>3. file[r] > 1 => Exists("sensor_readings")
    BY <1>0, <2>2, Sizes, FirstObject DEF Made
  <2>4. \A j \in 1..stmt[r] : schema'[Object(file[r], j)] # "absent"
    BY <2>1, <2>2, <2>3, StatementBuilds
  <2>5. CASE stmt[r] < Size(file[r]) /\ Goto(r, "apply", file[r], stmt[r] + 1)
    <3>1. stmt[r] + 1 \in 1..3
      BY <1>0, <2>1, <2>5
    <3>2. pc'[r] = "apply" /\ file'[r] = file[r] /\ stmt'[r] = stmt[r] + 1
      BY <1>0, <2>5, <3>1, GotoType
    <3>3. (stmt[r] + 1) - 1 = stmt[r]
      BY <1>0
    <3> QED BY <1>0, <1>i, <1>m, <2>1, <2>2, <2>4, <3>2, <3>3 DEF FirstRun, Exists, Object
  <2>6. CASE stmt[r] = Size(file[r]) /\ Goto(r, "record", file[r], 1)
    <3>1. pc'[r] = "record" /\ file'[r] = file[r]
      BY <1>0, <2>6, GotoType
    <3>2. Made(file[r])'
      BY <2>4, <2>6, <3>1 DEF Made, Exists, Size, Object
    <3> QED BY <1>0, <1>i, <1>m, <2>1, <2>2, <3>1, <3>2 DEF FirstRun
  <2> QED BY <1>0, <2>1, <2>5, <2>6, NextType
<1>7. CASE RecordMigration(r)
  <2>1. /\ pc[r] = "record" /\ NextFile(r) /\ UNCHANGED schema
        /\ recorded' \subseteq recorded \cup {Versions[file[r]]}
    BY <1>7 DEF RecordMigration, Insert
  <2>2. \A i \in 1..file[r] : i \in 1..7 /\ (i = file[r] \/ i \in 1..(file[r] - 1))
    BY <1>0
  <2>3. \A i \in 1..file[r] : Made(i)
    BY <2>1, <2>2 DEF FirstRun
  <2>4. recorded' \subseteq {Versions[i] : i \in 1..file[r]}
    <3>1. recorded \subseteq {Versions[i] : i \in 1..(file[r] - 1)}
      BY <2>1 DEF FirstRun
    <3>2. \A i \in 1..(file[r] - 1) : i \in 1..file[r]
      BY <1>0
    <3>3. file[r] \in 1..file[r]
      BY <1>0
    <3> QED BY <2>1, <3>1, <3>2, <3>3
  <2>5. CASE file[r] < 7 /\ Goto(r, "validate", file[r] + 1, 1)
    <3>1. file[r] + 1 \in 1..7 /\ (file[r] + 1) - 1 = file[r]
      BY <1>0, <2>5
    <3>2. pc'[r] = "validate" /\ file'[r] = file[r] + 1
      BY <1>0, <2>5, <3>1, GotoType
    <3>3. \A i \in 1..file[r] : Made(i)'
      BY <1>m, <2>2, <2>3
    <3> QED BY <1>v, <2>4, <3>1, <3>2, <3>3
  <2>6. CASE file[r] = 7
    BY <1>m, <2>3, <2>6 DEF AllMade
  <2> QED BY <1>0, <2>1, <2>5, <2>6, NextType
<1>8. CASE Exit(r)
  BY <1>8 DEF Exit, FirstRun
<1>9. CASE Crash(r) \/ Interrupt(r)
  BY <1>9, <1>k DEF Crash, Interrupt
<1>10. CASE QueryRunsOn(r) \/ FileRunsOn(r)
  BY <1>10, <1>k, OrphanSteps
<1> QED BY <1>1, <1>2, <1>3, <1>4, <1>5, <1>6, <1>7, <1>8, <1>9, <1>10 DEF RunnerNext, Script

LEMMA OrderlyRunner ==
    ASSUME TInv, Orderly, NEW r \in Runner, RunnerNext(r) PROVE Orderly'
<1> SUFFICES ASSUME OnlyQueriesFailed'
             PROVE  AllMade' \/ Empty' \/ \E q \in Runner : FirstRun(q)'
  BY DEF Orderly
<1>0. /\ SchemaGrows /\ Others(r) /\ OnlyQueriesFailed /\ TypeOK
  BY RunnerFrame DEF Frame, OnlyQueriesFailed, TInv
<1>1. CASE AllMade
  BY <1>0, <1>1, MadeStays DEF AllMade
<1>2. CASE Empty
  <2>1. pc[r] = "idle"
    BY <1>2 DEF Empty
  <2>2. /\ Goto(r, "init", 1, 1) /\ UNCHANGED <<schema, recorded>>
    BY <2>1 DEF RunnerNext, Script, Start, InitSchemaMigrations, Backfill, BackfillInsert,
                ValidateMigration, ExecuteStatement, RecordMigration, Exit, Crash,
                Interrupt, QueryRunsOn, FileRunsOn
  <2>3. pc'[r] = "init"
    BY <1>0, <2>2, GotoType
  <2>4. FirstRun(r)'
    BY <1>0, <1>2, <2>2, <2>3 DEF Empty, FirstRun, Others, Exists
  <2> QED BY <2>4
<1>3. ASSUME NEW q \in Runner, FirstRun(q) PROVE AllMade' \/ \E s \in Runner : FirstRun(s)'
  <2>1. CASE q = r
    BY <1>3, <2>1, FirstRunStep
  <2>2. CASE q # r
    <3>1. pc[r] = "idle" /\ pc[q] # "idle"
      BY <1>3, <2>2 DEF FirstRun
    <3>2. \E force \in BOOLEAN : Start(r, force)
      BY <3>1 DEF RunnerNext, Script, InitSchemaMigrations, Backfill, BackfillInsert,
                  ValidateMigration, ExecuteStatement, RecordMigration, Exit, Crash,
                  Interrupt, QueryRunsOn, FileRunsOn
    <3>3. "overlap" \in happened'
      BY <3>1, <3>2 DEF Start
    <3> QED BY <3>3 DEF OnlyQueriesFailed
  <2> QED BY <2>1, <2>2
<1> QED BY <1>0, <1>1, <1>2, <1>3 DEF Orderly

\* Without the table the bulk load changes nothing.
LEMMA LoaderNeedsTable ==
    ASSUME TInv, LoaderNext, ~Exists("sensor_readings")
    PROVE  schema' = schema \/ "drop" \in happened'
<1>1. phase # "create"
  BY DEF TInv, LoadLocated
<1> QED BY <1>1 DEF LoaderNext, StartLoad, DropSecondaryIndexes, LoadData, RecreateIndex,
                   VerifyIndexes, EndLoad, KillLoad

LEMMA OrderlyLoader ==
    ASSUME TInv, Orderly, LoaderNext, UNCHANGED runnerVars PROVE Orderly'
<1> SUFFICES ASSUME OnlyQueriesFailed'
             PROVE  AllMade' \/ Empty' \/ \E q \in Runner : FirstRun(q)'
  BY DEF Orderly
<1>0. /\ "drop" \notin happened' /\ SchemaGrows /\ OnlyQueriesFailed
      /\ UNCHANGED <<recorded, pc, file, stmt>>
  BY LoaderEffects DEF LoadFrame, OnlyQueriesFailed, runnerVars
<1>1. ASSUME \A o \in Objects : ~Exists(o) PROVE \A o \in Objects : ~Exists(o)'
  BY <1>0, <1>1, LoaderNeedsTable DEF Objects, Exists
<1>2. CASE AllMade
  BY <1>0, <1>2, MadeStays DEF AllMade
<1>3. CASE Empty
  BY <1>0, <1>1, <1>3 DEF Empty
<1>4. ASSUME NEW r \in Runner, FirstRun(r) PROVE FirstRun(r)'
  <2>1. file[r] \in 1..7 /\ (pc[r] = "apply" => stmt[r] \in 1..Size(file[r])) /\ Size(file[r]) \in 1..3
    BY Files, Sizes DEF TInv, TypeOK, RunnerTypeOK, Located
  <2>2. \A i \in 1..7 : Made(i) => Made(i)'
    BY <1>0, MadeStays
  <2>3. \A i \in 1..(file[r] - 1) : i \in 1..7
    BY <2>1
  <2>4. pc[r] = "apply" => \A j \in 1..(stmt[r] - 1) :
            Exists(Object(file[r], j)) => schema'[Object(file[r], j)] # "absent"
    BY <1>0, <2>1, Sizes DEF SchemaGrows, Exists
  <2>5. Made(file[r]) => Made(file[r])'
    <3>1. file'[r] = file[r]
      BY <1>0
    <3>2. \A i \in 1..7 : i = file[r] => (Made(i) => Made(file[r])')
      BY <2>2, <3>1 DEF Made, Size, Object, Exists
    <3> QED BY <2>1, <3>2
  <2> QED BY <1>0, <1>1, <1>4, <2>1, <2>2, <2>3, <2>4, <2>5 DEF FirstRun, Exists, Object
<1> QED BY <1>0, <1>2, <1>3, <1>4 DEF Orderly

LEMMA OrderlyInit == Init => Orderly
BY DEF Init, SchemaInit, RunnerInit, Orderly, Empty, Exists

LEMMA OrderlyStep == TInv /\ Orderly /\ [Migrate \/ Load]_vars => Orderly'
<1> SUFFICES ASSUME TInv, Orderly, [Migrate \/ Load]_vars PROVE Orderly'
  OBVIOUS
<1>1. CASE Migrate
  BY <1>1, OrderlyRunner DEF Migrate
<1>2. CASE Load
  BY <1>2, OrderlyLoader DEF Load
<1>3. CASE UNCHANGED vars
  BY <1>3 DEF vars, schemaVars, runnerVars, Orderly, OnlyQueriesFailed, AllMade, Empty, FirstRun,
              Made, Exists, Size, Object
<1> QED BY <1>1, <1>2, <1>3

(***************************************************************************)
(* schema_migrations tells the truth as long as only queries of the script *)
(* have failed: what a recorded migration creates is there                 *)
(* (record_migration, backfill_existing_migrations, db_query).             *)
(***************************************************************************)
THEOREM RecordsAreReal == Spec => []RecordedIsReal
<1>1. Init => TInv /\ Orderly
  BY TInit, OrderlyInit
<1>2. TInv /\ Orderly /\ [Migrate \/ Load]_vars => (TInv /\ Orderly)'
  BY TStep, OrderlyStep
<1>3. TInv /\ Orderly => RecordedIsReal
  BY OrderlyRecords
<1> QED BY <1>1, <1>2, <1>3, PTL DEF Spec

-----------------------------------------------------------------------------
(* A run that nothing disturbs leaves every file behind it on record, and,  *)
(* when it is forced, in place.                                             *)

Done(r, i) == Versions[i] \in recorded /\ (forced[r] = TRUE => Made(i))

Progress(r) ==
    r \in undisturbed =>
        /\ pc[r] # "init" => tracked = TRUE
        /\ pc[r] \in {"validate", "apply", "record"} => \A i \in 1..(file[r] - 1) : Done(r, i)
        /\ pc[r] = "complete" => \A i \in 1..7 : Done(r, i)
        /\ forced[r] = TRUE =>
              /\ pc[r] = "apply" => \A j \in 1..(stmt[r] - 1) : Exists(Object(file[r], j))
              /\ pc[r] = "record" => Made(file[r])

\* What others do does not disturb it.
LEMMA ProgressStays ==
    ASSUME TInv, NEW r \in Runner, Progress(r), SchemaGrows, recorded \subseteq recorded',
           tracked = TRUE => tracked' = TRUE,
           r \in undisturbed' => r \in undisturbed,
           pc'[r] = pc[r], file'[r] = file[r], stmt'[r] = stmt[r], forced'[r] = forced[r]
    PROVE  Progress(r)'
<1>1. /\ file[r] \in 1..7 /\ Size(file[r]) \in 1..3
      /\ pc[r] = "apply" => stmt[r] \in 1..Size(file[r])
  BY Files, Sizes DEF TInv, TypeOK, RunnerTypeOK, Located
<1>2. \A i \in 1..7 : Made(i) => Made(i)'
  BY MadeStays
<1>3. \A i \in 1..7 : Done(r, i) => Done(r, i)'
  BY <1>2 DEF Done
<1>4. \A i \in 1..(file[r] - 1) : i \in 1..7
  BY <1>1
<1>5. pc[r] = "apply" => \A j \in 1..(stmt[r] - 1) :
          Exists(Object(file[r], j)) => schema'[Object(file[r], j)] # "absent"
  BY <1>1, Sizes DEF SchemaGrows, Exists
<1>6. Made(file[r]) => Made(file[r])'
  <2>1. \A i \in 1..7 : i = file[r] => (Made(i) => Made(file[r])')
    BY <1>2 DEF Made, Size, Object, Exists
  <2> QED BY <1>1, <2>1
<1> QED BY <1>1, <1>3, <1>4, <1>5, <1>6 DEF Progress, Exists, Object

LEMMA ProgressStep ==
    ASSUME TInv, NEW r \in Runner, Progress(r), RunnerNext(r) PROVE Progress(r)'
<1> SUFFICES ASSUME r \in undisturbed'
             PROVE  Progress(r)'
  BY DEF Progress
<1>0. /\ TypeOK /\ SchemaGrows /\ file[r] \in 1..7 /\ stmt[r] \in 1..3 /\ Located(r)
      /\ recorded \subseteq recorded'
  BY RunnerFrame, Files DEF Frame, TInv, TypeOK, RunnerTypeOK
<1>k. \A kind : ~Fault(kind)
  BY DEF Fault
<1>m. \A i \in 1..7 : Made(i) => Made(i)'
  BY <1>0, MadeStays
<1>d. forced' = forced => \A i \in 1..7 : Done(r, i) => Done(r, i)'
  BY <1>0, <1>m DEF Done
<1>1. CASE \E force \in BOOLEAN : Start(r, force)
  <2>1. pc'[r] = "init"
    BY <1>0, <1>1, GotoType DEF Start
  <2> QED BY <2>1 DEF Progress
<1>2. CASE Exit(r)
  BY <1>2 DEF Exit
<1>3. CASE Crash(r) \/ Interrupt(r) \/ QueryRunsOn(r) \/ FileRunsOn(r)
  BY <1>3, <1>k, OrphanSteps DEF Crash, Interrupt
<1>4. CASE /\ InitSchemaMigrations(r) \/ Backfill(r) \/ BackfillInsert(r) \/ ValidateMigration(r)
              \/ ExecuteStatement(r) \/ RecordMigration(r)
  <2>0. forced' = forced /\ NoFault /\ r \in undisturbed
    BY <1>0, <1>4, <1>k DEF NoFault, InitSchemaMigrations, Backfill, BackfillInsert,
       ValidateMigration, ExecuteStatement, Execute, RecordMigration
  <2>t. pc[r] # "init" => tracked = TRUE
    BY <2>0 DEF Progress
  <2>1. CASE InitSchemaMigrations(r)
    <3>1. tracked' = TRUE /\ Goto(r, "backfill", 1, 1)
      BY <1>k, <2>1 DEF InitSchemaMigrations
    <3>2. pc'[r] = "backfill"
      BY <1>0, <3>1, GotoType
    <3> QED BY <3>1, <3>2 DEF Progress
  <2>2. CASE Backfill(r) \/ BackfillInsert(r)
    <3>1. tracked' = TRUE /\ file[r] \in 1..4
      BY <1>0, <2>2, <2>t DEF Backfill, BackfillInsert, Located
    <3>2. CASE Goto(r, "backfill_insert", file[r], 1)
      <4>1. pc'[r] = "backfill_insert"
        BY <1>0, <3>2, GotoType
      <4> QED BY <3>1, <4>1 DEF Progress
    <3>3. CASE file[r] < 4 /\ Goto(r, "backfill", file[r] + 1, 1)
      <4>1. pc'[r] = "backfill"
        BY <1>0, <3>3, GotoType
      <4> QED BY <3>1, <4>1 DEF Progress
    <3>4. CASE Goto(r, "validate", 1, 1)
      <4>1. pc'[r] = "validate" /\ file'[r] = 1
        BY <1>0, <3>4, GotoType
      <4> QED BY <3>1, <4>1 DEF Progress
    <3>5. NextEntry(r) \/ Goto(r, "backfill_insert", file[r], 1)
      BY <2>2 DEF Backfill, BackfillInsert
    <3> QED BY <1>0, <3>1, <3>2, <3>3, <3>4, <3>5, NextType
  \* The next file, once the one at hand is done.
  <2>n. ASSUME \A i \in 1..file[r] : Done(r, i)', NextFile(r), tracked' = TRUE
        PROVE  Progress(r)'
    <3>1. CASE file[r] < 7 /\ Goto(r, "validate", file[r] + 1, 1)
      <4>1. file[r] + 1 \in 1..7 /\ (file[r] + 1) - 1 = file[r]
        BY <1>0, <3>1
      <4>2. pc'[r] = "validate" /\ file'[r] = file[r] + 1
        BY <1>0, <3>1, <4>1, GotoType
      <4> QED BY <2>n, <4>1, <4>2 DEF Progress
    <3>2. CASE file[r] = 7 /\ Goto(r, "complete", 1, 1)
      <4>1. pc'[r] = "complete"
        BY <1>0, <3>2, GotoType
      <4> QED BY <2>n, <3>2, <4>1 DEF Progress
    <3> QED BY <1>0, <2>n, <3>1, <3>2, NextType
  <2>3. CASE ValidateMigration(r)
    <3>1. /\ pc[r] = "validate" /\ UNCHANGED <<schema, tracked, recorded>> /\ tracked' = TRUE
          /\ \A i \in 1..(file[r] - 1) : Done(r, i) /\ i \in 1..7
      BY <1>0, <2>0, <2>3, <2>t DEF ValidateMigration, Progress
    <3>2. CASE Skips(r) /\ NextFile(r)
      <4>1. Done(r, file[r])
        BY <3>2 DEF Skips, Done
      <4>2. \A i \in 1..file[r] : i \in 1..7 /\ (i = file[r] \/ i \in 1..(file[r] - 1))
        BY <1>0
      <4>3. \A i \in 1..file[r] : Done(r, i)'
        BY <1>d, <2>0, <3>1, <4>1, <4>2
      <4> QED BY <2>n, <3>1, <3>2, <4>3
    <3>3. CASE Goto(r, "apply", file[r], 1)
      <4>1. pc'[r] = "apply" /\ file'[r] = file[r] /\ stmt'[r] = 1
        BY <1>0, <3>3, GotoType
      <4> QED BY <1>d, <2>0, <3>1, <4>1 DEF Progress
    <3> QED BY <1>k, <2>3, <3>2, <3>3 DEF ValidateMigration
  <2>4. CASE ExecuteStatement(r)
    <3>1. /\ pc[r] = "apply" /\ stmt[r] \in 1..Size(file[r]) /\ Size(file[r]) \in 1..3
          /\ Create(Object(file[r], stmt[r])) /\ NextStatement(r) /\ tracked' = TRUE
      BY <1>0, <1>k, <2>0, <2>4, <2>t, Sizes
      DEF ExecuteStatement, Execute, Statement, Located, Object
    <3>2. /\ \A i \in 1..(file[r] - 1) : Done(r, i) /\ i \in 1..7
          /\ forced[r] = TRUE => \A j \in 1..(stmt[r] - 1) : Exists(Object(file[r], j))
      BY <1>0, <2>0, <3>1 DEF Progress
    <3>3. forced[r] = TRUE => (file[r] > 1 => Exists("sensor_readings"))
      BY <1>0, <3>2, Sizes, FirstObject DEF Done, Made
    <3>4. forced[r] = TRUE => \A j \in 1..stmt[r] : schema'[Object(file[r], j)] # "absent"
      BY <3>1, <3>2, <3>3, StatementBuilds
    <3>5. CASE stmt[r] < Size(file[r]) /\ Goto(r, "apply", file[r], stmt[r] + 1)
      <4>1. stmt[r] + 1 \in 1..3 /\ (stmt[r] + 1) - 1 = stmt[r]
        BY <1>0, <3>1, <3>5
      <4>2. pc'[r] = "apply" /\ file'[r] = file[r] /\ stmt'[r] = stmt[r] + 1
        BY <1>0, <3>5, <4>1, GotoType
      <4> QED BY <1>d, <2>0, <3>1, <3>2, <3>4, <4>1, <4>2 DEF Progress, Exists, Object
    <3>6. CASE stmt[r] = Size(file[r]) /\ Goto(r, "record", file[r], 1)
      <4>1. pc'[r] = "record" /\ file'[r] = file[r]
        BY <1>0, <3>6, GotoType
      <4>2. forced[r] = TRUE => Made(file[r])'
        BY <3>4, <3>6, <4>1 DEF Made, Exists, Size, Object
      <4> QED BY <1>d, <2>0, <3>1, <3>2, <4>1, <4>2 DEF Progress
    <3> QED BY <1>0, <3>1, <3>5, <3>6, NextType
  <2>5. CASE RecordMigration(r)
    <3>1. /\ pc[r] = "record" /\ NextFile(r) /\ UNCHANGED <<schema, tracked>> /\ tracked' = TRUE
          /\ Insert(Versions[file[r]])
      BY <1>k, <2>0, <2>5, <2>t DEF RecordMigration
    <3>2. /\ \A i \in 1..(file[r] - 1) : Done(r, i) /\ i \in 1..7
          /\ forced[r] = TRUE => Made(file[r])
      BY <1>0, <2>0, <3>1 DEF Progress
    <3>3. Versions[file[r]] \in recorded'
      BY <3>1 DEF Insert
    <3>4. \A i \in 1..7 : i = file[r] => Done(r, i)'
      BY <1>m, <2>0, <3>2, <3>3 DEF Done
    <3>5. \A i \in 1..file[r] : i \in 1..7 /\ (i = file[r] \/ i \in 1..(file[r] - 1))
      BY <1>0
    <3>6. \A i \in 1..file[r] : Done(r, i)'
      BY <1>d, <2>0, <3>2, <3>4, <3>5
    <3> QED BY <2>n, <3>1, <3>6
  <2> QED BY <1>4, <2>1, <2>2, <2>3, <2>4, <2>5
<1> QED BY <1>1, <1>2, <1>3, <1>4 DEF RunnerNext, Script

AllProgress == \A r \in Runner : Progress(r)

LEMMA AllProgressStep ==
    TInv /\ AllProgress /\ [Migrate \/ Load]_vars => AllProgress'
<1> SUFFICES ASSUME TInv, AllProgress, [Migrate \/ Load]_vars, NEW r \in Runner
             PROVE  Progress(r)'
  BY DEF AllProgress
<1>0. Progress(r) /\ Loader \notin Runner
  BY LifecycleAssumption DEF AllProgress
<1>1. CASE RunnerNext(r)
  BY <1>0, <1>1, ProgressStep
<1>2. ASSUME NEW s \in Runner, s # r, RunnerNext(s) PROVE Progress(r)'
  <2>1. Frame(s)
    BY <1>2, RunnerFrame
  <2> QED BY <1>0, <1>2, <2>1, ProgressStays DEF Frame, Others
<1>3. CASE Load
  <2>1. LoadFrame /\ UNCHANGED runnerVars
    BY <1>3, LoaderEffects DEF Load
  <2>2. CASE SchemaGrows /\ undisturbed' \subseteq undisturbed \cup {Loader}
    BY <1>0, <2>1, <2>2, ProgressStays DEF LoadFrame, runnerVars
  <2>3. CASE undisturbed' \subseteq {Loader}
    BY <1>0, <2>3 DEF Progress
  <2> QED BY <2>1, <2>2, <2>3 DEF LoadFrame
<1>4. CASE UNCHANGED vars
  <2>1. SchemaGrows
    BY <1>4 DEF vars, schemaVars, SchemaGrows, Exists
  <2> QED BY <1>0, <1>4, <2>1, ProgressStays DEF vars, schemaVars, runnerVars
<1> QED BY <1>1, <1>2, <1>3, <1>4 DEF Migrate

LEMMA ProgressCompletes ==
    ASSUME TInv, AllProgress, NEW r \in Runner, pc[r] = "complete", r \in undisturbed,
           forced[r] = TRUE \/ RecordsAreTrue
    PROVE  (\A o \in Objects : Exists(o)) /\ recorded = AllVersions
<1>1. \A i \in 1..7 : Done(r, i)
  BY DEF AllProgress, Progress
<1>2. \A i \in 1..7 : Made(i)
  <2>1. CASE forced[r] = TRUE
    BY <1>1, <2>1 DEF Done
  <2>2. CASE RecordsAreTrue
    BY <1>1, <2>2, BuiltByFile DEF Done, RecordsAreTrue, Made
  <2> QED BY <2>1, <2>2
<1>3. AllVersions \subseteq recorded
  BY <1>1, VersionsOf DEF Done
<1>4. recorded \subseteq AllVersions
  BY DEF TInv, TypeOK, RunnerTypeOK, AllVersions
<1> QED BY <1>2, <1>3, <1>4, AllContent

LEMMA ProgressInvariant == Spec => [](TInv /\ Orderly /\ AllProgress)
<1>1. Init => TInv /\ Orderly /\ AllProgress
  BY TInit, OrderlyInit DEF Init, SchemaInit, AllProgress, Progress
<1>2. TInv /\ Orderly /\ AllProgress /\ [Migrate \/ Load]_vars => (TInv /\ Orderly /\ AllProgress)'
  BY TStep, OrderlyStep, AllProgressStep
<1> QED BY <1>1, <1>2, PTL DEF Spec

(***************************************************************************)
(* --force repairs: after an undisturbed forced run every object exists,   *)
(* the unusable index included, and is on record, after any history of     *)
(* crashes, failed statements, lost records, partial backfills and         *)
(* interrupted loads (apply_migration).                                    *)
(***************************************************************************)
THEOREM ForceRepairs == Spec => []ForcedRunRepairs
<1>1. TInv /\ Orderly /\ AllProgress => ForcedRunRepairs
  <2>1. TInv => \A r \in Runner : forced[r] \in BOOLEAN
    BY DEF TInv, TypeOK, RunnerTypeOK
  <2> QED BY <2>1, ProgressCompletes DEF ForcedRunRepairs
<1> QED BY <1>1, ProgressInvariant, PTL

(***************************************************************************)
(* What failing queries lost, the next undisturbed run makes up for, with  *)
(* or without --force (is_migration_applied, record_migration).            *)
(***************************************************************************)
THEOREM QueriesHeal == Spec => []QueryFaultsHeal
<1>1. TInv /\ Orderly /\ AllProgress => QueryFaultsHeal
  BY ProgressCompletes, OrderlyRecords DEF QueryFaultsHeal, RunCompletes, RecordedIsReal
<1> QED BY <1>1, ProgressInvariant, PTL

-----------------------------------------------------------------------------
(* Files of one statement or one transaction, when statements do not fail:  *)
(* with the table in place a run builds what it comes to, and a record of   *)
(* 004 to 008, applied or backfilled, is written after the object is there. *)

TrueRecords ==
    /\ Versions[1] \in recorded => Exists("sensor_readings")
    /\ \A i \in 3..7 : Versions[i] \in recorded => Made(i)

Sound(r) ==
    /\ pc[r] = "backfill_insert" => Exists(Probe(Backfilled[file[r]]))
    /\ pc[r] \in {"validate", "apply", "record"} /\ file[r] > 1 => Exists("sensor_readings")
    /\ pc[r] = "apply" => \A j \in 1..(stmt[r] - 1) : Exists(Object(file[r], j))
    /\ pc[r] = "record" => Made(file[r])

LEMMA SoundStays ==
    ASSUME TInv, NEW r \in Runner, Sound(r), SchemaGrows,
           pc'[r] = pc[r], file'[r] = file[r], stmt'[r] = stmt[r]
    PROVE  Sound(r)'
<1>1. /\ file[r] \in 1..7 /\ Size(file[r]) \in 1..3 /\ "sensor_readings" \in Objects
      /\ pc[r] = "apply" => stmt[r] \in 1..Size(file[r])
      /\ pc[r] = "backfill_insert" => Probe(Backfilled[file[r]]) \in Objects
  BY Files, Sizes, ProbesAreObjects DEF TInv, TypeOK, RunnerTypeOK, Located, Objects
<1>2. pc[r] = "apply" => \A j \in 1..(stmt[r] - 1) :
          Exists(Object(file[r], j)) => schema'[Object(file[r], j)] # "absent"
  BY <1>1, Sizes DEF SchemaGrows, Exists
<1>3. Made(file[r]) => Made(file[r])'
  <2>1. \A i \in 1..7 : i = file[r] => (Made(i) => Made(file[r])')
    BY MadeStays DEF Made, Size, Object, Exists
  <2> QED BY <1>1, <2>1
<1>4. \A o \in Objects : schema[o] # "absent" => schema'[o] # "absent"
  BY DEF SchemaGrows, Exists
<1> QED BY <1>1, <1>2, <1>3, <1>4 DEF Sound, Exists, Object

LEMMA ProbeBuilds ==
    /\ Exists(Probe(Backfilled[1])) => Exists("sensor_readings")
    /\ \A k \in 3..4 : Exists(Probe(Backfilled[k])) => Made(k)
<1>1. /\ Probe(Backfilled[1]) = "sensor_readings" /\ Probe(Backfilled[3]) = "materialized_views"
      /\ Probe(Backfilled[4]) = "refresh_functions"
  BY DEF Probe, Backfilled
<1>2. BuiltBy(Versions[3]) = {"materialized_views"} /\ BuiltBy(Versions[4]) = {"refresh_functions"}
  BY Content DEF Versions
<1>3. \A k \in 3..4 : \A j \in 1..Size(k) : Object(k, j) \in BuiltBy(Versions[k])
  BY BuiltByFile
<1>4. Exists("materialized_views") => Made(3)
  BY <1>2, <1>3 DEF Made
<1>5. Exists("refresh_functions") => Made(4)
  BY <1>2, <1>3 DEF Made
<1>6. \A k \in 3..4 : k = 3 \/ k = 4
  OBVIOUS
<1> QED BY <1>1, <1>4, <1>5, <1>6

LEMMA SoundStep ==
    ASSUME TInv, TrueRecords, NEW r \in Runner, Sound(r), RunnerNext(r), ~Fault("statement")
    PROVE  TrueRecords' /\ Sound(r)'
<1>0. /\ TypeOK /\ SchemaGrows /\ file[r] \in 1..7 /\ stmt[r] \in 1..3 /\ Located(r)
      /\ "sensor_readings" \in Objects
  BY RunnerFrame, Files DEF Frame, TInv, TypeOK, RunnerTypeOK, Objects
<1>s. Exists("sensor_readings") => Exists("sensor_readings")'
  BY <1>0 DEF SchemaGrows
<1>m. \A i \in 1..7 : Made(i) => Made(i)'
  BY <1>0, MadeStays
<1>r. recorded' = recorded => TrueRecords'
  <2>1. ASSUME NEW i \in 3..7, Made(i) PROVE Made(i)'
    BY <1>m, <2>1
  <2> QED BY <1>s, <2>1 DEF TrueRecords
\* Labels of which nothing is claimed.
<1>l. pc'[r] \in {"idle", "init", "backfill", "complete"} => Sound(r)'
  BY DEF Sound
<1>v. pc'[r] = "validate" /\ (file'[r] > 1 => Exists("sensor_readings")) => Sound(r)'
  BY <1>s DEF Sound
<1>n. ASSUME NextFile(r), Exists("sensor_readings") PROVE Sound(r)'
  <2>1. CASE file[r] < 7 /\ Goto(r, "validate", file[r] + 1, 1)
    <3>1. file[r] + 1 \in 1..7
      BY <1>0, <2>1
    <3>2. pc'[r] = "validate"
      BY <1>0, <2>1, <3>1, GotoType
    <3> QED BY <1>n, <1>v, <3>2
  <2>2. CASE Goto(r, "complete", 1, 1)
    <3>1. pc'[r] = "complete"
      BY <1>0, <2>2, GotoType
    <3> QED BY <1>l, <3>1
  <2> QED BY <1>0, <1>n, <2>1, <2>2, NextType
\* A record of the file at hand, by the backfill or after its application.
<1>b. ASSUME pc[r] \in {"backfill_insert", "record"}, Insert(Versions[file[r]]) \/ UNCHANGED recorded
      PROVE  TrueRecords'
  <2>1. recorded' \subseteq recorded \cup {Versions[file[r]]}
    BY <1>b DEF Insert
  <2>2. file[r] = 1 => Exists("sensor_readings")
    <3>1. CASE pc[r] = "record" /\ file[r] = 1
      BY <3>1, Sizes, FirstObject DEF Sound, Made
    <3>2. CASE pc[r] = "backfill_insert" /\ file[r] = 1
      BY <3>2, ProbeBuilds DEF Sound
    <3> QED BY <1>b, <3>1, <3>2
  <2>3. file[r] \in 3..7 => Made(file[r])
    <3>1. CASE pc[r] = "record"
      BY <3>1 DEF Sound
    <3>2. CASE pc[r] = "backfill_insert"
      BY <1>0, <3>2, ProbeBuilds DEF Sound, Located
    <3> QED BY <1>b, <3>1, <3>2
  <2>4. Versions[1] \in recorded' => Exists("sensor_readings")
    BY <1>0, <2>1, <2>2, Files DEF TrueRecords
  <2>5. ASSUME NEW i \in 3..7, Versions[i] \in recorded' PROVE Made(i)
    <3>1. CASE Versions[i] \in recorded
      BY <3>1 DEF TrueRecords
    <3>2. CASE Versions[i] = Versions[file[r]]
      <4>1. i = file[r]
        BY <1>0, <3>2, Files
      <4> QED BY <2>3, <4>1
    <3> QED BY <2>1, <2>5, <3>1, <3>2
  <2>6. ASSUME NEW i \in 3..7, Made(i) PROVE Made(i)'
    BY <1>m, <2>6
  <2> QED BY <1>s, <2>4, <2>5, <2>6 DEF TrueRecords
\* A statement that is not the last one.
<1>a. ASSUME pc[r] = "apply", Execute(Statement(r))
      PROVE  /\ stmt[r] \in 1..Size(file[r]) /\ Size(file[r]) \in 1..3
             /\ file[r] > 1 => Exists("sensor_readings")
             /\ \A j \in 1..stmt[r] : schema'[Object(file[r], j)] # "absent"
             /\ stmt[r] < Size(file[r]) /\ NextStatement(r) => Sound(r)'
  <2>1. /\ stmt[r] \in 1..Size(file[r]) /\ Size(file[r]) \in 1..3
        /\ Create(Object(file[r], stmt[r]))
    BY <1>0, <1>a, Sizes DEF Execute, Statement, Located, Object
  <2>2. /\ file[r] > 1 => Exists("sensor_readings")
        /\ \A j \in 1..(stmt[r] - 1) : Exists(Object(file[r], j))
    BY <1>a DEF Sound
  <2>3. \A j \in 1..stmt[r] : schema'[Object(file[r], j)] # "absent"
    BY <1>a, <2>1, <2>2, StatementBuilds
  <2>4. ASSUME stmt[r] < Size(file[r]), NextStatement(r) PROVE Sound(r)'
    <3>1. Goto(r, "apply", file[r], stmt[r] + 1)
      BY <1>0, <2>1, <2>4, NextType
    <3>2. stmt[r] + 1 \in 1..3 /\ (stmt[r] + 1) - 1 = stmt[r]
      BY <1>0, <2>1, <2>4
    <3>3. pc'[r] = "apply" /\ file'[r] = file[r] /\ stmt'[r] = stmt[r] + 1
      BY <1>0, <3>1, <3>2, GotoType
    <3> QED BY <1>s, <2>2, <2>3, <3>2, <3>3 DEF Sound, Exists, Object
  <2> QED BY <2>1, <2>2, <2>3, <2>4
<1>e. ASSUME NextEntry(r), file[r] \in 1..4 PROVE Sound(r)'
  <2>1. CASE file[r] < 4 /\ Goto(r, "backfill", file[r] + 1, 1)
    <3>1. pc'[r] = "backfill"
      BY <1>0, <2>1, GotoType
    <3> QED BY <1>l, <3>1
  <2>2. CASE Goto(r, "validate", 1, 1)
    <3>1. pc'[r] = "validate" /\ file'[r] = 1
      BY <1>0, <2>2, GotoType
    <3> QED BY <1>v, <3>1
  <2> QED BY <1>e, <1>0, <2>1, <2>2, NextType
<1>1. CASE \E force \in BOOLEAN : Start(r, force)
  <2>1. pc'[r] = "init" /\ UNCHANGED recorded
    BY <1>0, <1>1, GotoType DEF Start
  <2> QED BY <1>l, <1>r, <2>1
<1>2. CASE InitSchemaMigrations(r)
  <2>1. pc'[r] = "backfill" /\ UNCHANGED recorded
    BY <1>0, <1>2, GotoType DEF InitSchemaMigrations
  <2> QED BY <1>l, <1>r, <2>1
<1>3. CASE Backfill(r)
  <2>1. UNCHANGED <<schema, recorded>> /\ file[r] \in 1..4
    BY <1>0, <1>3 DEF Backfill, Located
  <2>2. CASE Exists(Probe(Backfilled[file[r]])) /\ Goto(r, "backfill_insert", file[r], 1)
    <3>1. pc'[r] = "backfill_insert" /\ file'[r] = file[r]
      BY <1>0, <2>2, GotoType
    <3> QED BY <1>r, <2>1, <2>2, <3>1 DEF Sound, Exists
  <2>3. CASE NextEntry(r)
    BY <1>e, <1>r, <2>1, <2>3
  <2> QED BY <1>3, <2>2, <2>3 DEF Backfill
<1>4. CASE BackfillInsert(r)
  <2>1. /\ pc[r] = "backfill_insert" /\ file[r] \in 1..4 /\ NextEntry(r)
        /\ Insert(Versions[file[r]]) \/ UNCHANGED recorded
    BY <1>0, <1>4, Files DEF BackfillInsert, Located
  <2> QED BY <1>b, <1>e, <2>1
<1>5. CASE ValidateMigration(r)
  <2>1. pc[r] = "validate" /\ UNCHANGED <<schema, recorded>>
    BY <1>5 DEF ValidateMigration
  <2>2. CASE Skips(r) /\ NextFile(r)
    <3>1. file[r] = 1 => Exists("sensor_readings")
      BY <2>2 DEF Skips, TrueRecords
    <3>2. Exists("sensor_readings")
      BY <1>0, <2>1, <3>1 DEF Sound
    <3> QED BY <1>n, <1>r, <2>1, <2>2, <3>2
  <2>3. CASE Goto(r, "apply", file[r], 1)
    <3>1. pc'[r] = "apply" /\ file'[r] = file[r] /\ stmt'[r] = 1
      BY <1>0, <2>3, GotoType
    <3>2. Sound(r)'
      BY <1>s, <2>1, <3>1 DEF Sound
    <3> QED BY <1>r, <2>1, <3>2
  <2> QED BY <1>5, <2>2, <2>3 DEF ValidateMigration
<1>6. CASE ExecuteStatement(r)
  <2>1. pc[r] = "apply" /\ Execute(Statement(r)) /\ NextStatement(r) /\ UNCHANGED recorded
    BY <1>6 DEF ExecuteStatement
  <2>2. CASE stmt[r] < Size(file[r])
    BY <1>a, <1>r, <2>1, <2>2
  <2>3. CASE stmt[r] = Size(file[r]) /\ Goto(r, "record", file[r], 1)
    <3>1. pc'[r] = "record" /\ file'[r] = file[r]
      BY <1>0, <2>3, GotoType
    <3>2. Made(file[r])'
      BY <1>a, <2>1, <2>3, <3>1 DEF Made, Exists, Size, Object
    <3>3. Sound(r)'
      BY <1>a, <1>s, <2>1, <3>1, <3>2 DEF Sound
    <3> QED BY <1>r, <2>1, <3>3
  <2> QED BY <1>0, <1>a, <2>1, <2>2, <2>3, NextType
<1>7. CASE RecordMigration(r)
  <2>1. /\ pc[r] = "record" /\ NextFile(r)
        /\ Insert(Versions[file[r]]) \/ UNCHANGED recorded
    BY <1>7 DEF RecordMigration
  <2>2. Exists("sensor_readings")
    BY <1>0, <2>1, Sizes, FirstObject DEF Sound, Made
  <2> QED BY <1>b, <1>n, <2>1, <2>2
<1>8. CASE Exit(r) \/ Crash(r)
  <2>1. pc'[r] = "idle" /\ UNCHANGED recorded
    BY <1>0, <1>8, GotoType DEF Exit, Crash
  <2> QED BY <1>l, <1>r, <2>1
<1>9. CASE Interrupt(r)
  BY <1>0, <1>9, <1>r, SoundStays DEF Interrupt
<1>i. EndOrphan(r) => Sound(r)'
  BY <1>0, <1>l, GotoType DEF EndOrphan
<1>10. CASE QueryRunsOn(r)
  <2>1. CASE pc[r] = "init" /\ UNCHANGED recorded
    BY <1>10, <1>i, <1>r, <2>1 DEF QueryRunsOn
  <2>2. CASE pc[r] \in {"backfill_insert", "record"} /\ Insert(Versions[file[r]])
    BY <1>10, <1>b, <1>i, <2>2 DEF QueryRunsOn
  <2> QED BY <1>10, <2>1, <2>2 DEF QueryRunsOn
<1>11. CASE FileRunsOn(r)
  <2>1. pc[r] = "apply" /\ Execute(Statement(r)) /\ UNCHANGED recorded
    BY <1>11 DEF FileRunsOn
  <2>2. EndOrphan(r) \/ (stmt[r] < Size(file[r]) /\ NextStatement(r))
    BY <1>11, OrphanSteps
  <2> QED BY <1>a, <1>i, <1>r, <2>1, <2>2
<1> QED BY <1>1, <1>2, <1>3, <1>4, <1>5, <1>6, <1>7, <1>8, <1>9, <1>10, <1>11 DEF RunnerNext, Script

(***************************************************************************)
(* Without failing statements and bulk loads, what a file of one statement *)
(* or transaction creates is there once it is on record, whatever queries  *)
(* fail, wherever runs are killed or interrupted and however many overlap  *)
(* (backfill_existing_migrations, apply_migration, record_migration).      *)
(***************************************************************************)
THEOREM TransactionalRecords ==
    ASSUME "statement" \notin Faults
    PROVE  MigrationsOnly => []TransactionalRecordsAreReal
<1> DEFINE Inv == TInv /\ TrueRecords /\ \A r \in Runner : Sound(r)
<1>1. Init => Inv
  BY TInit DEF Init, RunnerInit, TrueRecords, Sound
<1>2. Inv /\ [Migrate]_vars => Inv'
  <2> SUFFICES ASSUME Inv, [Migrate]_vars PROVE Inv'
    OBVIOUS
  <2>1. TInv'
    BY TStep
  <2>2. ASSUME NEW r \in Runner, RunnerNext(r) PROVE TrueRecords' /\ \A q \in Runner : Sound(q)'
    <3>1. Frame(r) /\ ~Fault("statement")
      BY <2>2, RunnerFrame DEF Fault
    <3>2. ASSUME NEW q \in Runner, q # r PROVE Sound(q)'
      BY <3>1, <3>2, SoundStays DEF Frame, Others
    <3> QED BY <2>2, <3>1, <3>2, SoundStep
  <2>3. CASE UNCHANGED vars
    BY <2>1, <2>3 DEF vars, schemaVars, runnerVars, TrueRecords, Sound, Made, Exists, Size, Object
  <2> QED BY <2>1, <2>2, <2>3 DEF Migrate
<1>3. Inv => TransactionalRecordsAreReal
  <2> SUFFICES ASSUME Inv, NEW v \in recorded, v \in {"004", "005", "006", "007", "008"},
                      NEW o \in BuiltBy(v)
               PROVE  Exists(o)
    BY DEF TransactionalRecordsAreReal
  <2>1. /\ Versions[3] = "004" /\ Versions[4] = "005" /\ Versions[5] = "006"
        /\ Versions[6] = "007" /\ Versions[7] = "008"
    BY DEF Versions
  <2>2. PICK i \in 3..7 : v = Versions[i]
    BY <2>1
  <2>3. Made(i)
    BY <2>2 DEF TrueRecords
  <2> QED BY <2>2, <2>3, BuiltByFile DEF Made
<1> QED BY <1>1, <1>2, <1>3, PTL DEF MigrationsOnly

-----------------------------------------------------------------------------
(* Runs that follow one another, a psql left behind included, and may be    *)
(* killed, but not half way through a file: each file is there or has left  *)
(* no trace, except for the one a run is at, so that the backfill is right  *)
(* and every record is true.                                                *)

Untouched(i) == \A j \in 1..Size(i) : ~Exists(Object(i, j))
FileWhole(i) == Made(i) \/ Untouched(i) \/ \E r \in Runner : pc[r] = "apply" /\ file[r] = i

Alone == \A r, s \in Runner : pc[r] # "idle" /\ pc[s] # "idle" => r = s
RecordsWhole == \A i \in 1..7 : Versions[i] \in recorded => Made(i)

Whole ==
    /\ Alone /\ RecordsWhole
    /\ \A r \in Runner : Sound(r)
    /\ \A i \in 1..7 : FileWhole(i)

\* No object is in two files.
LEMMA ObjectsApart ==
    ASSUME NEW i \in 1..7, NEW k \in 1..7, i # k
    PROVE  \A j \in 1..Size(i), n \in 1..Size(k) : Object(i, j) # Object(k, n)
<1>1. /\ Versions[1] = "001" /\ Versions[2] = "002" /\ Versions[3] = "004"
      /\ Versions[4] = "005" /\ Versions[5] = "006" /\ Versions[6] = "007"
      /\ Versions[7] = "008"
  BY DEF Versions
<1>2. \A o : ~(o \in BuiltBy(Versions[i]) /\ o \in BuiltBy(Versions[k]))
  BY <1>1, Content
<1>3. /\ \A j \in 1..Size(i) : Object(i, j) \in BuiltBy(Versions[i])
      /\ \A n \in 1..Size(k) : Object(k, n) \in BuiltBy(Versions[k])
  BY BuiltByFile
<1> QED BY <1>2, <1>3

\* What the backfill looks for is in the file it stands for.
LEMMA ProbeInFile ==
    ASSUME NEW k \in 1..4, Exists(Probe(Backfilled[k])) PROVE ~Untouched(k)
<1>1. /\ Backfilled[1] = "001" /\ Backfilled[2] = "002"
      /\ Backfilled[3] = "004" /\ Backfilled[4] = "005"
  BY DEF Backfilled
<1>2. /\ Probe("001") = "sensor_readings" /\ Probe("002") = "timestamp_brin"
      /\ Probe("004") = "materialized_views" /\ Probe("005") = "refresh_functions"
  BY DEF Probe
<1>3. Probe(Backfilled[k]) \in BuiltBy(Backfilled[k])
  BY <1>1, <1>2, Content
<1>4. Backfilled[k] = Versions[k] /\ k \in 1..7
  BY Files
<1>5. PICK j \in 1..Size(k) : Probe(Backfilled[k]) = Object(k, j)
  BY <1>3, <1>4, BuiltByFile
<1> QED BY <1>5 DEF Untouched

LEMMA WholeTrue == RecordsWhole => TrueRecords
<1>1. Made(1) => Exists("sensor_readings")
  BY Sizes, FirstObject DEF Made
<1> QED BY <1>1 DEF RecordsWhole, TrueRecords

\* A statement leaves the other files as they are.
LEMMA OthersUntouched ==
    ASSUME NEW k \in 1..7, NEW n \in 1..Size(k), NEW i \in 1..7, i # k, Untouched(i),
           \A x \in Objects : x = Object(k, n) \/ schema'[x] = schema[x]
    PROVE  Untouched(i)'
<1>1. \A j \in 1..Size(i) : Object(i, j) \in Objects /\ Object(i, j) # Object(k, n)
  BY Sizes, ObjectsApart
<1> QED BY <1>1 DEF Untouched, Exists, Object, Size

\* A file of which a killed run leaves no part but the whole.
LEMMA CrashWhole ==
    ASSUME NEW k \in 1..7, ~HalfApplied(Versions[k], schema')
    PROVE  Made(k)' \/ Untouched(k)'
<1>1. \A j, n \in 1..Size(k) : ~(schema'[Object(k, j)] # "absent" /\ schema'[Object(k, n)] = "absent")
  BY BuiltByFile DEF HalfApplied
<1> QED BY <1>1 DEF Made, Untouched, Exists, Object, Size

\* The last statement of a file leaves it made.
LEMMA LastStatement ==
    ASSUME TInv, NEW r \in Runner, Sound(r), pc[r] = "apply", Create(Object(file[r], stmt[r])),
           stmt[r] = Size(file[r]), NEW k \in 1..7, k = file[r]
    PROVE  Made(k)'
<1>1. \A j \in 1..stmt[r] : schema'[Object(file[r], j)] # "absent"
  BY StatementBuilds DEF Sound
<1> QED BY <1>1 DEF Made, Exists, Object, Size

LEMMA FilesStayWhole ==
    ASSUME TInv, Alone, \A i \in 1..7 : FileWhole(i), NEW r \in Runner, Sound(r), RunnerNext(r),
           ~Fault("statement"), ~Fault("tear"), NEW i \in 1..7
    PROVE  FileWhole(i)'
<1>0. /\ TypeOK /\ SchemaTypeOK /\ SchemaGrows /\ Others(r) /\ file[r] \in 1..7 /\ stmt[r] \in 1..3
      /\ Located(r)
  BY RunnerFrame, Files DEF Frame, TInv, TypeOK, RunnerTypeOK
<1>1. CASE Made(i)
  BY <1>0, <1>1, MadeStays DEF FileWhole
<1>2. ASSUME NEW s \in Runner, s # r, pc[s] = "apply", file[s] = i PROVE FileWhole(i)'
  BY <1>0, <1>2 DEF FileWhole, Others
<1>3. CASE pc[r] # "apply"
  <2>1. schema' = schema
    BY <1>3 DEF RunnerNext, Script, Start, InitSchemaMigrations, Backfill, BackfillInsert,
                ValidateMigration, ExecuteStatement, RecordMigration, Exit, Crash,
                Interrupt, QueryRunsOn, FileRunsOn
  <2>2. Untouched(i) => Untouched(i)'
    BY <2>1 DEF Untouched, Exists, Object, Size
  <2> QED BY <1>1, <1>2, <1>3, <2>2 DEF FileWhole
<1>4. CASE pc[r] = "apply"
  <2> DEFINE o == Object(file[r], stmt[r])
  <2>0. o \in Objects /\ stmt[r] \in 1..Size(file[r])
    BY <1>0, <1>4, Sizes DEF Located
  <2>1. CASE Interrupt(r)
    BY <2>1, <1>1 DEF Interrupt, FileWhole, Untouched, Made, Exists, Object, Size
  <2>2. ASSUME ~Interrupt(r)
        PROVE  \/ (ExecuteStatement(r) \/ FileRunsOn(r)) /\ Create(o)
               \/ /\ Crash(r) /\ ~HalfApplied(Versions[file[r]], schema')
                  /\ Create(o) \/ FailToCreate(o, o = "device_covering")
    <3>1. CASE Crash(r)
      BY <1>4, <3>1 DEF Crash, CutOff, Statement, Object
    <3>2. CASE ExecuteStatement(r) \/ FileRunsOn(r)
      BY <3>2 DEF ExecuteStatement, FileRunsOn, Execute, Statement, Object
    <3>3. Crash(r) \/ ExecuteStatement(r) \/ FileRunsOn(r)
      BY <1>4, <2>2 DEF RunnerNext, Script, Start, InitSchemaMigrations, Backfill, BackfillInsert,
                        ValidateMigration, RecordMigration, Exit, QueryRunsOn
    <3> QED BY <3>1, <3>2, <3>3
  <2>3. ASSUME ~Interrupt(r) PROVE \A x \in Objects : x = o \/ schema'[x] = schema[x]
    <3>1. Create(o) \/ FailToCreate(o, o = "device_covering")
      BY <2>2, <2>3
    <3> QED BY <1>0, <2>0, <3>1, CreateType DEF FailToCreate, SchemaTypeOK
  <2>4. CASE i # file[r] /\ ~Interrupt(r)
    <3>1. Untouched(i) => Untouched(i)'
      BY <1>0, <2>0, <2>3, <2>4, OthersUntouched
    <3> QED BY <1>1, <1>2, <2>4, <3>1 DEF FileWhole
  <2>5. CASE i = file[r] /\ Create(o) /\ (ExecuteStatement(r) \/ FileRunsOn(r))
    <3>1. CASE stmt[r] = Size(file[r])
      <4>1. Made(i)'
        BY <1>4, <2>5, <3>1, LastStatement
      <4> QED BY <4>1 DEF FileWhole
    <3>2. CASE stmt[r] < Size(file[r])
      <4>1. NextStatement(r)
        BY <2>5, <3>2 DEF ExecuteStatement, FileRunsOn, Size
      <4>2. Goto(r, "apply", file[r], stmt[r] + 1) /\ stmt[r] + 1 \in 1..3
        BY <1>0, <2>0, <3>2, <4>1, NextType, Sizes
      <4>3. pc'[r] = "apply" /\ file'[r] = file[r]
        BY <1>0, <4>2, GotoType
      <4> QED BY <2>5, <4>3 DEF FileWhole
    <3>3. Size(file[r]) \in 1..3
      BY <1>0, Sizes
    <3> QED BY <2>0, <3>1, <3>2, <3>3
  <2>6. CASE i = file[r] /\ ~HalfApplied(Versions[file[r]], schema')
    BY <2>6, CrashWhole DEF FileWhole
  <2> QED BY <2>1, <2>2, <2>4, <2>5, <2>6
<1> QED BY <1>3, <1>4

\* What a run puts on record is there.
LEMMA RecordsStayWhole ==
    ASSUME TInv, Whole, NEW r \in Runner, RunnerNext(r) PROVE RecordsWhole'
<1>0. /\ SchemaGrows /\ file[r] \in 1..7 /\ Located(r) /\ Sound(r)
  BY RunnerFrame, Files DEF Frame, TInv, TypeOK, RunnerTypeOK, Whole
<1>m. \A i \in 1..7 : Made(i) => Made(i)'
  BY <1>0, MadeStays
<1>1. CASE recorded' = recorded
  BY <1>1, <1>m DEF Whole, RecordsWhole
<1>2. ASSUME NEW k \in 1..7, recorded' \subseteq recorded \cup {Versions[k]}, Made(k)
      PROVE  RecordsWhole'
  <2> SUFFICES ASSUME NEW i \in 1..7, Versions[i] \in recorded' PROVE Made(i)'
    BY DEF RecordsWhole
  <2>1. Versions[i] \in recorded \/ i = k
    BY <1>2, Files
  <2> QED BY <1>2, <1>m, <2>1 DEF Whole, RecordsWhole
<1>3. ASSUME pc[r] = "backfill_insert", Insert(Versions[file[r]]) PROVE RecordsWhole'
  <2>1. file[r] \in 1..4 /\ recorded' \subseteq recorded \cup {Versions[file[r]]}
    BY <1>0, <1>3 DEF Located, Insert
  <2>2. ~Untouched(file[r])
    BY <1>0, <1>3, <2>1, ProbeInFile DEF Sound
  <2>3. \A s \in Runner : pc[s] # "apply"
    BY <1>3 DEF Whole, Alone
  <2>4. FileWhole(file[r])
    BY <1>0 DEF Whole
  <2>5. Made(file[r])
    BY <2>2, <2>3, <2>4 DEF FileWhole
  <2> QED BY <1>0, <1>2, <2>1, <2>5
<1>4. ASSUME pc[r] = "record", Insert(Versions[file[r]]) PROVE RecordsWhole'
  <2>1. Made(file[r]) /\ recorded' \subseteq recorded \cup {Versions[file[r]]}
    BY <1>0, <1>4 DEF Insert, Sound
  <2> QED BY <1>0, <1>2, <2>1
<1>5. CASE BackfillInsert(r)
  BY <1>0, <1>1, <1>3, <1>5, Files DEF BackfillInsert, Located
<1>6. CASE RecordMigration(r)
  BY <1>1, <1>4, <1>6 DEF RecordMigration
<1>7. CASE QueryRunsOn(r)
  BY <1>1, <1>3, <1>4, <1>7 DEF QueryRunsOn
<1> QED BY <1>1, <1>5, <1>6, <1>7 DEF RunnerNext, Script, Start, InitSchemaMigrations, Backfill,
           ValidateMigration, ExecuteStatement, Exit, Crash, Interrupt, FileRunsOn

LEMMA WholeStep ==
    ASSUME TInv, Whole, NEW r \in Runner, RunnerNext(r), NothingTorn' PROVE Whole'
<1>0. Frame(r) /\ ~Fault("statement") /\ ~Fault("tear")
  BY RunnerFrame DEF NothingTorn, Fault
<1>1. Alone'
  <2>1. CASE pc[r] # "idle"
    BY <1>0, <2>1 DEF Whole, Alone, Frame, Others
  <2>2. CASE pc[r] = "idle"
    <3>1. \E force \in BOOLEAN : Start(r, force)
      BY <2>2 DEF RunnerNext, Script, InitSchemaMigrations, Backfill, BackfillInsert,
                  ValidateMigration, ExecuteStatement, RecordMigration, Exit, Crash,
                  Interrupt, QueryRunsOn, FileRunsOn
    <3>2. \A s \in Runner : pc[s] = "idle"
      BY <3>1 DEF Start, NothingTorn
    <3> QED BY <1>0, <3>2 DEF Alone, Frame, Others
  <2> QED BY <2>1, <2>2
<1>2. \A q \in Runner : Sound(q)'
  <2>1. ASSUME NEW q \in Runner, q # r PROVE Sound(q)'
    BY <1>0, <2>1, SoundStays DEF Whole, Frame, Others
  <2>2. Sound(r)'
    BY <1>0, SoundStep, WholeTrue DEF Whole
  <2> QED BY <2>1, <2>2
<1>3. \A i \in 1..7 : FileWhole(i)'
  BY <1>0, <1>2, FilesStayWhole DEF Whole
<1> QED BY <1>1, <1>2, <1>3, RecordsStayWhole DEF Whole

(***************************************************************************)
(* On a database that is never bulk-loaded, queries may fail and runs may  *)
(* be killed or interrupted, each next one starting when the psql of an    *)
(* interrupted one is through: as long as no file is left half applied,    *)
(* records stay true, and the next run that nothing disturbs leaves every  *)
(* object there and on record (backfill_existing_migrations,               *)
(* apply_migration, record_migration, db_execute_file).                    *)
(***************************************************************************)
THEOREM CrashesDoHeal == MigrationsOnly => []CrashesHeal
<1> DEFINE Inv == TInv /\ AllProgress /\ (NothingTorn => Whole)
<1>1. Init => Inv
  <2>1. Init => Whole
    <3> SUFFICES ASSUME Init PROVE Whole
      OBVIOUS
    <3>1. recorded = {} /\ \A r \in Runner : pc[r] = "idle"
      BY DEF Init, RunnerInit
    <3>2. \A i \in 1..7 : Untouched(i)
      BY Sizes DEF Init, SchemaInit, Untouched, Exists
    <3> QED BY <3>1, <3>2 DEF Whole, Alone, RecordsWhole, Sound, FileWhole
  <2> QED BY <2>1, TInit DEF Init, SchemaInit, AllProgress, Progress
<1>2. Inv /\ [Migrate]_vars => Inv'
  <2> SUFFICES ASSUME Inv, [Migrate]_vars PROVE Inv'
    OBVIOUS
  <2>1. TInv' /\ AllProgress'
    BY TStep, AllProgressStep
  <2>2. ASSUME NEW r \in Runner, RunnerNext(r) PROVE (NothingTorn => Whole)'
    <3>1. happened \subseteq happened'
      BY <2>2, RunnerFrame DEF Frame
    <3> QED BY <2>2, <3>1, WholeStep DEF NothingTorn
  <2>3. CASE UNCHANGED vars
    <3>1. (NothingTorn => Whole)'
      BY <2>3 DEF vars, schemaVars, runnerVars, NothingTorn, Whole, Alone, RecordsWhole, Sound,
                  FileWhole, Untouched, Made, Exists, Object, Size
    <3> QED BY <2>1, <3>1
  <2> QED BY <2>1, <2>2, <2>3 DEF Migrate
<1>3. Inv => CrashesHeal
  <2> SUFFICES ASSUME Inv, NothingTorn PROVE RecordsAreTrue /\ RunCompletes
    BY DEF CrashesHeal
  <2>1. RecordsAreTrue
    <3> SUFFICES ASSUME NEW v \in recorded PROVE \A o \in BuiltBy(v) : Exists(o)
      BY DEF RecordsAreTrue
    <3>1. PICK i \in 1..7 : v = Versions[i]
      BY Files DEF TInv, TypeOK, RunnerTypeOK
    <3> QED BY <3>1, BuiltByFile DEF Whole, RecordsWhole, Made
  <2> QED BY <2>1, ProgressCompletes DEF RunCompletes
<1> QED BY <1>1, <1>2, <1>3, PTL DEF MigrationsOnly
=============================================================================
