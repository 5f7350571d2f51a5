# Verification of highth

highth serves sensor readings over HTTP: a Go API (`src/cmd/api`, `src/internal`) that
reads PostgreSQL through a Redis cache, SQL migrations with a shell script that applies
them, and Python scripts that load data, taking the indexes down and up again on the way.
This directory holds TLA+ models of the parts whose behaviour depends on the order of
things (caching, retries, timeouts, shutdown, crashes of the maintenance scripts), the TLC
configurations that check them on small instances, and TLAPS proofs of the properties that
matter most for every instance.

All paths below are relative to the repository's root, `src/`.

## 1. The system

| component | state it keeps | operations | interacts with |
|---|---|---|---|
| sensor service, `internal/service` | none of its own | `GetSensorReadings`, `GetSensorReadingByID`, `GetStats`, `Ping`, `PingWithLatency` | repository and cache, called one after the other by one goroutine per request |
| Redis cache, `internal/cache` | entries with an expiry, in Redis; `enabled`, fixed at start | `Get`, `Set`, `SetWithTTL`, `Close`, `Ping`; `Delete` and `FlushAll` have no caller | shared by all goroutines and outlives the process |
| repository, `internal/repository` | pgx pool | `Query` (builds SQL), `GetByID`, `GetStatsFromMV`, `Ping`, `Close` | PostgreSQL, which writers change at any time |
| handlers, `internal/handler` | none | parse and check parameters, call the service, map results and errors to statuses | service; health checks ping both backends |
| middleware, `internal/middleware` and chi | metrics counters, the in-flight gauge, per-request response writers | logger, recoverer, CORS, timeout, gzip, metrics, nested in this order | every request passes through it down and up |
| server, `cmd/api/main.go` | connections, the signal, open clients | start, serve, graceful or forced shutdown, deferred closes | all of the above |
| migration runner, `scripts/run_migrations.sh` | table `schema_migrations` | track, backfill, skip, apply, record; `--force`, `--dry-run` | the schema |
| migrations, `scripts/schema/migrations` | the schema's objects | seven SQL files, three of them one transaction or one statement | applied by the runner |
| bulk loader, `scripts/generate_data_bulk.py` | indexes dropped or not | drop, COPY, rebuild, verify; `--skip-index-drop`, `--skip-index-create` | the schema, which the runner changes too |
| index verification, `scripts/verify_indexes.py` | none | compares `pg_indexes` with a list | called by the loader |
| fast generator, `scripts/generate_data_fast.py` | rows | inserts in batches, each committed | races with the read path |
| view refresh, `scripts/refresh_materialized_views.sh`, functions of 005 | three materialized views | refresh concurrently, one view after another, all or by type; `--status` | PostgreSQL's lock on a view; read by `GetStatsFromMV` |
| configuration, model types, benchmarks, deployment | values, data types, reports | read once, or offline | see `PROJECT.json` |

What is hard about it:

* **The read path.** Goroutines that missed on the same key race to fill it, each with rows
  read at a different moment; a SET that timed out at the client may still run, later or
  twice; entries survive a restart of the API; errors of the cache are swallowed; requests
  are told apart by a key that is not built from everything the query is built from.
* **The server.** Five timeouts (header, context, query, write, shutdown) and Redis's own
  have to fit inside one another; middlewares act in deferred calls whose order decides
  which status a client sees; a signal can come at any moment of any request.
* **Maintenance.** `psql` goes on after a failed statement and exits 0; `db_query` turns
  errors into empty answers; the backfill guesses what was applied; a killed
  `CREATE INDEX CONCURRENTLY` leaves an index that exists and is useless; the loader's drop
  commits before its load. Two of these scripts may run at once, and either may be killed.
* **The views.** A `REFRESH` fixes its snapshot before it has the view's lock, a Ctrl+C kills the
  script and not the statement it started in the container, bash ignores `set -e` where the
  script relies on it, and an answer of `/api/v1/stats` is put together from two statements.

What makes each component correct:

* read path: an answer is the exact result of its request on one committed state of the
  table that was current not long ago; every request is answered;
* handlers: 400 goes to what breaks a documented rule and to nothing else (as far as that is
  true), and a 200 answers the question the query string asked;
* repository: the SQL and the argument list mean the filters the caller gave;
* keys: different requests have different keys (as far as that is true);
* server: nobody whose request was read goes without an answer; no client is closed while
  in use; metrics agree with what happened; a signal ends the process;
* maintenance: what is on record exists; an undisturbed run, whatever was before, leaves
  everything in place, and a bulk load leaves every index usable;
* views: a run that lost nothing leaves its views no older than its start, totals never go
  back, and the two numbers of an answer fit one another.

## 2. The modules

Each line names what the module models; `PROJECT.json`, "map", names the lines of every
definition.

The read path:

* `SensorRepository` - `Query` as the SQL it builds (conditions with placeholder numbers and
  an argument list, kept apart as in the code) and what PostgreSQL answers to it, with
  ties in `ORDER BY timestamp DESC LIMIT` resolved in every possible way; `GetByID`.
  `Matches` says what a caller means, without SQL.
* `ReadResults` - the history of the table as the log of its commits, and the answers.
  Nothing under `cmd/`, `internal/` or `scripts/` updates or deletes a reading, so a state of
  the table is a prefix of the log.
* `CacheKeys` - the keys as sequences of segments. `Unix()` drops the fraction of a second; a
  reading type of digits only is the same segment as a Unix time.
* `BoundedStaleness` - the abstract specification: what the API promises, without a cache.
  Each answer is the result on a state that was current at most `Bound` before the request: the life of an
  entry and what may delay it, or, with `REDIS_TTL=0`, when Redis never drops one, the whole clock.
* `SensorService` - the program: one step per call of the service on Redis or PostgreSQL.
  `pc` is where a goroutine is between two calls, `got` the rows it holds, `redis` the
  entries, `wire` the SETs the client gave up on or repeated. `Receive` is the validation,
  `CacheHit`/`CacheMiss` is `RedisCache.Get` (any error is a miss), `QueryRuns` the moment PostgreSQL
  takes its snapshot, `QueryReturns`/`QueryFails` the return of `Query` or `GetByID`,
  `SetDone`/`SetFails` `RedisCache.Set`. `Deliver`, `Lose`, `Evict`, `Commit`, `Tick` and `Restart` are the surroundings.
  The fields `req`, `snap` and `taken` of stored rows are history and guide no action.
* `ReadingsEndpoint` - `SensorHandler.GetSensorReadings` around the service: `Get` is the parsing and
  every check (`Accepted`) up to the call (`Parsed`), `Reply` the status and rows sent. A parameter is a
  text, told by what Go's parsers make of it: `strconv` and `time.Parse` take all of it, `fmt.Sscanf` the
  number it starts with. `Documented` says which query strings break no rule of `README.md` and `docs/api-spec.md`,
  without the code; `LimitMisread` which of the others the handler lets through.

The server:

* `RequestPipeline` - a request below its handler: the sequence of backend calls of each
  endpoint (`AfterSuccess`, `AfterFailure`), how long each can take (`CallDeadline`), the pool, and
  the way back through metrics, gzip, timeout and recoverer (`Leave`), a panic included.
* `GracefulServer` - the abstract specification: what a client and an operator may count on of a server process,
  without its middlewares, pool or shutdown protocol. A request taken is answered within `Longest`; after the
  order to leave none is taken later than `Linger`, and the process is gone by `Grace`, owing no answer.
* `ApiServer` - connections, the signal, `http.Server.Shutdown` (`Poll`), `os.Exit` (`Kill`), the
  deferred closes, and the clock, composed with `RequestPipeline`. As in `net/http`, a new
  connection holds a shutdown up until its header timeout, an idle one is closed.

Maintenance:

* `DatabaseSchema` - the objects migrations create and what CREATE and DROP do to them; an
  object is absent, invalid (an unusable index) or valid. `Fault` counts the faults: a failing query, a failing
  statement, an interrupted script, a killed `psql` ("crash"), and one that leaves a file half applied ("tear"). `CutOff`
  is a statement whose client is gone: the server gives it up or completes it.
* `MigrationRunner` - `run_migrations.sh` statement by statement, several runs at a time. `Interrupt` is a Ctrl+C: `docker
  exec` ends and the `psql` it started in the container is left behind (`orphan`), to finish its query
  (`QueryRunsOn`) or its file (`FileRunsOn`), of which no record is made. `Crash` kills `psql` itself.
* `BulkLoader` - `generate_data_bulk.py` phase by phase and index by index, with both flags.
* `IndexLifecycle` - the two on one database. `happened` and `undisturbed` are history: the kinds of
  faults so far, drops and overlapping runs included, and the runs that neither a fault nor a DROP has touched.
* `StatsView` - the refresh script block by block (`Block`, `Summary`, `Exit`, `Interrupt`), the statements it and others wait
  for (`Begin`, `Install`, `Fails`), `refresh_global_stats_incremental`, and `GetStatsFromMV` statement by statement.
  `sensor_readings` only grows, so the contents of a view are told by the number of commits they were
  computed from. `began`, `lost`, `raced`, `lone`, `unsettled`, `highest` and `floor` are history.

`MCSensorService`, `MCReadingsEndpoint`, `MCApiServer` and `MCStatsView` instantiate for TLC. The proof modules are
`SensorRepositoryProofs`, `CacheKeysProofs`, `SensorServiceProofs`, `SensorServiceRefinement`, `ReadingsEndpointProofs`,
`ApiServerProofs`, `IndexLifecycleProofs` and `StatsViewProofs`.
Definitions marked `(mutant)` are wrong variants of the definition below them, used to
show that the checked properties depend on it; no specification refers to them.

## 3. What is checked

| run | instance | what it shows |
|---|---|---|
| `service_promise` | two goroutines, one key, four ticks, one lingering SET | entries are genuine and gone in time (`CacheSound`), so is everything in flight (`InFlightSound`), and the program implements `BoundedStaleness` (`PromiseKept`) although an older result can overwrite a newer one |
| `readings_endpoint` | one goroutine, thirteen query strings: two with every filter that end half a second apart and have one key, two without a range, an id, eight that are refused; two limits that are no integers | 400 goes only to what breaks a documented rule, and to all that does but for a misread limit, and rows answer the question (`AnsweredAsDocumented`), answers for an id are exact at any moment (`ByIdExact`), answers for a device are right up to requests with the same key (`KeptUpToKey`), and match the question if it names no time range and no type of digits only (`RangelessRowsMatch`), every question is answered (`Answered`) |
| `key_collision` | two goroutines, a request with only `from` and one with only `to`, at the same time | violated: see section 6 |
| `api_server` | two connections, all endpoints, a pool of one | nobody is cut off (`NoneCut`), no client closed under a handler (`BackendsOpen`), the gauge and the counter are right (`GaugeExact`, `CountedAsAnswered`), no request is worked on for longer than its timeout and a Redis call (`WorkEnds`), a panic is 500 to clients without gzip (`PlainPanicIs500`), and the process implements `GracefulServer` (`ServesGracefully`) |
| `server_drains` | two connections, gzip | a signal ends the process (`Drains`) |
| `gzip_panic` | as above | violated: see section 6 |
| `migration_faults` | two overlapping runs, two faults: failing queries, killed `psql`s, interrupted scripts whose `psql` runs on | runs one after another may be killed or interrupted: as long as no file is left half applied and no run starts while a `psql` is at work, `schema_migrations` stays true and the next undisturbed run completes (`CrashesHeal`); files that are one transaction stay truthful in any overlap of runs (`TransactionalRecordsAreReal`); after an undisturbed `--force` run every object exists and is on record (`ForcedRunRepairs`) |
| `index_repair` | a run and a bulk load, two faults of any kind | as long as only queries fail, what is on record exists (`RecordedIsReal`) and the next run completes (`QueryFaultsHeal`); `ForcedRunRepairs` with a loader in between and statements that fail: an index may exist and be unusable; a full undisturbed load leaves every index valid (`LoadRepairs`) |
| `interrupted_migration`, `load_advice` | one fault | violated: see section 6 |
| `stats_view` | one run, one session without a script, one reader, two devices | a run freshens what its type names (`RunFreshens`), totals never go back (`TotalsNeverGoBack`), an answer's two numbers fit (`StatsCoherent`) |
| `failed_refresh` | one run | violated: see section 6 |

Bounds, all named in the modules or the configurations:

* `MaxTime` is at least `Deadline + WireDelay + TTL` plus one tick where staleness is checked,
  so that an entry can outlive everything it may outlive and be caught doing so, and more than
  `HeaderTimeout + RequestTimeout + RedisTimeout` in `ApiServer`, so that a shutdown can run out of time. In
  `readings_endpoint` one tick is enough for a deadline and for an entry to expire: staleness is
  `service_promise`'s question.
* Two rows suffice for a newer row to appear between a query and its answer, and for a
  filter to keep one and drop the other; two goroutines for a race on a key; two rows of
  different age, the older committed last, for commit order to differ from time order.
* `MaxWire` = 1: one write under way at a time can already follow any number of others.
* `MaxFaults` is 2: one fault to leave damage behind and one more for the repair itself, or an interruption
  and the end of the `psql` it left. The theorems hold for any number.
* In `stats_view` one script can be followed by another while the statement of the first runs on in
  the `Detached` session, which also calls the function of 005: two statements on one view. Two arrivals of
  different devices and types tell a count by device from a count by type.
* Times are small numbers with the order of the real ones; the theorems hold for all of them.

Where a run is declared symmetric, goroutines or connections are interchangeable in
every definition and no liveness is checked. Deadlock is checked everywhere.

Fairness. `ReadingsEndpoint!EndpointSpec` asks for weak fairness of each goroutine's steps: the Go scheduler
is fair and each call returns, because `Query` and `GetByID` set a 5 s timeout and go-redis has
dial, read and write timeouts. Nothing is asked of Redis, of PostgreSQL or of the network, so a
request may be answered with an error only, and nothing of clients. `ApiServer!FairSpec` asks for the same of each
connection, for a silent new connection to be dropped (`ReadHeaderTimeout`) and for main to go on.

## 4. What is proved

TLAPS checks every proof, for all values of the constants under the assumptions named in
the modules: numbers are naturals, there is a request, the set of connections is finite
(`SubSecAssumption`, `ServiceAssumption`, `PipelineAssumption`, `ServerAssumption`); parameters are texts and those the
handler accepts are requests (`EndpointAssumption`); the loader is not a run (`LifecycleAssumption`); a session left behind
is not a script and arrivals are finitely many (`StatsAssumption`). Every invariant a passing run checks is a
theorem; `PROJECT.json` lists which.

* `SensorRepositoryProofs!BuildQueryCorrect`: for all sixteen combinations of filters the SQL and its
  arguments select what the filters describe. The lemma behind it says that adding a
  condition shifts no placeholder already given out.
* `CacheKeysProofs`: `CollidingKeys` says exactly which requests share a key when no reading type is a number:
  those for one device, limit and type whose ranges have as many bounds, in the same seconds. So requests with the
  same key are equal if their times are whole seconds and `to` comes only with `from` (`DistinctKeys`), and
  a request without a range has its key to itself unless its own type is a number (`RangelessKeys`). Each condition is needed.
* `SensorServiceProofs`: `TypeCorrect`, `CacheIsSound`, `InFlightIsSound`. The inductive invariant is `TypeOK`,
  `CacheSound`, `HeldSound` and `WireSound` together: what is true of an entry has to be true before of
  the SET that wrote it, wherever that was, and of the rows the goroutine held. Two
  facts carry the proof: a prefix of the log is untouched by a commit (`GenuineAfterCommit`),
  and a SET leaves before the request's deadline and arrives at most `WireDelay` later, so that
  `exp <= taken + Deadline + WireDelay + TTL`.
* `SensorServiceRefinement`: `RefinesUpToKey` for all requests and `KeepsPromise` for requests with different
  keys: the program implements `BoundedStaleness` under the mapping `phase <- Phase`. Initial states map to
  initial states; each step maps to a step (the answers to `Answer`) or a stutter. A TTL of 0 is
  covered: no age is promised then, but all the rest is.
* `ReadingsEndpointProofs`: `ByIdIsExact`, `AnswersAsDocumented`, and `EndpointRunsService`, by which what is proved of
  `SensorService` holds behind the endpoint (`EndpointKeepsUpToKey` is one use of it). `RangelessAnswersMatch` and
  `DistinctAnswersMatch` carry the lemmas about keys over to answers: a question without a range, and for no reading type of
  digits only, is answered with matching rows whatever others ask; every question is, if all times are whole seconds, `to` comes
  only with `from`, and no type is of digits only. `AnswersInv` adds to the service's invariant that the ids of the
  log are distinct and that each answer is right for its request (`AnswerSound`); `EndpointInv` adds
  what the client asked (`Conversation`). `ChecksComplete` is the heart: handler and service together
  let through what breaks no rule and misread limits, and nothing else.
* `ApiServerProofs`: `TypeCorrect`, `GaugeIsExact`, `BackendsStayOpen`, `NobodyIsCut`, `CountsAgree`, `WorkIsBounded`,
  `PlainPanicsAnswered500` and `RefinesGracefulServer`. The invariant adds to types and
  gauge where the server is when clients are open (`ServerSound`) and how old a call, a new
  connection and a request begun after the signal can be (`TimeSound`). `NobodyIsCut` is the
  inequality the timeouts have to satisfy, for all timeouts. For `CountsAgree`, what is counted
  and what is sent are compared connection by connection (`Tallied`). `RefinesGracefulServer` maps every step
  to one of `GracefulServer` or a stutter under `life <- Life`, `stage <- Stage`, ...; it and `NobodyIsCut` are about deployments
  whose shutdown deadline outlasts what came before the signal (`RoomToFinish`).
* `IndexLifecycleProofs`: seven theorems, for any number of runs and faults. `TransactionalRecords` and `CrashesDoHeal` are about
  `MigrationsOnly`, the others about `Spec`. Types come first, with the place a run
  can be at in each file (`Located`). `LoadMakesUsable` follows from the indexes a load has already rebuilt
  (`LoadSound`); `ForceRepairs` from the files an undisturbed run has left on record and, when forced, in place (`Progress`);
  nothing but a DROP takes objects away, and a DROP ends
  `undisturbed`. `Orderly` says that as long as only queries failed the schema is
  empty, or what one lone first run has made so far, or complete; `TrueRecords` with `Sound` say for the files
  that are one transaction that a run records what is there. For `CrashesDoHeal`, as long as no file was torn, runs follow
  one another, each when the `psql` of the one before is gone (`Alone`), each file is complete or has left no trace but for the
  one a run, or the `psql` it left behind, is applying (`FileWhole`), and so the backfill, which looks at one object, is right about all of them (`RecordsWhole`).
* `StatsViewProofs`: `TypeCorrect`, `RunsFreshen`, `TotalsGrow`, `AnswersCohere`. A script waits for a statement of its own (`SessionSound`).
  A statement is `lone` while no other is at work on its view; a lone one is not older than the view it replaces, and
  a view without a lone statement is raced as long as it has any (`StatementSound`). The fact the rest is stated with is `Reaches(v, n)`: the view holds the
  first n commits, or is raced, and no lone statement brings it behind them. Once true it stays true (`ReachesStays`), of the start
  of a run for the blocks it has left behind (`BlocksBehindFresh`), of the total a reader holds (`ReaderSound`) and of the largest
  ever told (`HighestReached`). Counting lemmas compare devices with (device, type) pairs.

Model-checked only: liveness (`Answered`, `Drains`), which with ENABLED is out of the prover's reach, and
the runs that end in a violation.

## 5. Abstractions

* Rows are ids with a device, a type and a time. The JSON round trip through Redis keeps what
  the API renders (`metadata` is omitted when empty on both ways), so an entry holds rows. The
  order of rows within an answer is not modelled, only which rows it holds.
* `WireDelay`, how long an abandoned SET can still arrive, is an assumption about the network.
* An answer served from the cache carries `Cache-Control: max-age=30`; what clients and
  proxies keep beyond that is outside. So are answers of a bound that is not monotonic:
  within `Bound`, a later answer may be older than an earlier one, as `service_promise` allows.
* In `ApiServer` a handler's own computation takes no time, the requests of a connection follow
  one another, and a call ends by its deadline. go-redis checks the context before
  it sends but not while it reads, so a Redis call may outlast the deadline by `RedisTimeout`.
* In `IndexLifecycle` a statement that commits on its own is one step, 004 and 005 are one transaction
  each, and the loader's drops are one. Rows are not modelled; a view or function is one object.
* In `MigrationRunner` the `psql` an interrupted script leaves behind goes through the whole file: the files are small enough to be
  handed over before the first statement ends. A file cut short is `Interrupt` followed by `Crash`, and so is a statement that the server
  completes although its `psql` is gone. A run that starts while such a `psql` is at work counts as an overlap, for which
  `CrashesHeal` promises nothing: what it backfills may still be half applied, as in `interrupted_migration`.
* In `StatsView` a REFRESH takes its snapshot and then waits for the lock, as PostgreSQL does.
  Two that meet on one view leave it `raced`: the older snapshot may be the last one installed. It stays so until a
  statement that had the view to itself (`lone`) replaces it, and `RunFreshens` says nothing of the view that long; `TotalsNeverGoBack` and the lower
  bound of `StatsCoherent` say nothing of a request during which `mv_global_stats` is raced (`unsettled`).
  Pages sampled by `TABLESAMPLE` are any subset of the rows. Interrupting the script
  ends `docker exec`; the `psql` it started in the container, and its statement, run on.
* `psql` exiting 0 after a failed statement (no `ON_ERROR_STOP`) is part of the model:
  `RecordedIsReal` and `QueryFaultsHeal` speak of failing queries only and `CrashesHeal` of queries, crashes and
  interruptions, and they would fail at once with failing statements.

## 6. Where code and documents disagree

* `key_collision`: of a request with only `from=T` and one with only `to=T`, whichever comes second is answered with the cached
  rows of the other, from outside its range (`internal/service/sensor_service.go:189`). Fractions of a second and reading types of digits collide too.
* `gzip_panic`: a panic is answered 200 to clients that accept gzip (`internal/middleware/compression.go:72`).
* `interrupted_migration`: when `psql` is killed inside 001 or 002, the next run takes the file for applied and
  completes without the rest of it (`scripts/run_migrations.sh:111`). A file torn in this way is the only harm that killed and
  interrupted runs do to those that start after them and their `psql` (`CrashesDoHeal`).
* `failed_refresh`: `refresh_mv` is called as the condition of an `if`, where `set -e` is off; a failed REFRESH is
  announced as done and the script exits 0 (`scripts/refresh_materialized_views.sh:267`).
* `load_advice`: the loader advises to run the migrations when indexes are missing; recorded
  migrations are skipped, and nothing is recreated (`scripts/generate_data_bulk.py:402`). `--force` does it.

Met on the way, and not given a run: `limit=abc` is answered 200 with up to 10 rows and `limit=50abc` with up to 50
(`internal/handler/sensor_handler.go:206`), where `README.md:951` and `docs/api-spec.md:573-578` want a 400, which is why
`AnsweredAsDocumented` excepts `LimitMisread`; a device is reported as not found when only the `reading_type` filter made the result
empty (`internal/service/sensor_service.go:85`), where `docs/api-spec.md:316` says that it has no readings; a hit
can be older than the TTL, which counts from the SET (`sensor_service.go:96`); `total_devices` is counted in a 0.5 % sample of the
pages; `CACHE_ENABLED` is read and ignored by `service.New`; a Redis that does not answer at start is given up
for the life of the process, and `/health` then skips it and says healthy, where `docs/implementation/plan.md:405`
wants "alert via health check"; by default Shutdown's 30 s equal `REQUEST_TIMEOUT`, so `RoomToFinish`, on which `NoneCut` and `ServesGracefully` depend, does not hold;
`DATABASE_UNAVAILABLE` and `CACHE_UNAVAILABLE` of the API documentation are never sent; the hourly and daily functions
of 005 DELETE from a materialized view, which PostgreSQL refuses.

## 7. Not modelled

* Configuration: read once, without an order of things in which it could go wrong. Its values are
  the constants of the models, and the theorems hold for all of them; how a text becomes a number, a malformed one
  the default, and `int32()` of a pool size another number, is left out. So is a start that fails: the process
  exits before it serves. A start without Redis is modelled (`enabled`).
* Model types, benchmarks, load tests, dashboards and deployment change no state of the system.
* Logging, headers, bodies, durations and sizes; the pprof server; `GetRowCount`, `GetDeviceCount`, `Stats`, `Delete`
  and `FlushAll`, which have no caller; the random rows of the generators; `--dry-run` and `--status`, which
  change nothing.

## 8. Plan

Done: 1. `SensorRepository`, `ReadResults`, `CacheKeys`, `SensorService` with `BoundedStaleness`, and their proofs.
2. `DatabaseSchema`, `MigrationRunner`, `BulkLoader`, `IndexLifecycle`, and their proofs. 3. `RequestPipeline`, `ApiServer`, and their
proofs. 4. `ReadingsEndpoint` and `StatsView`, and their proofs. 5. `GracefulServer`, and the proof that the server process
implements it; crashes of migrations that heal; views that recover from a race.

Left, in this order:

1. A composition in which the pool's limit and the deadlines of `ApiServer` drive `SensorService`'s failures, shown to
   refine it.
2. Liveness of the refresh script: that a run ends when its statements do.
3. A start of the process from its configuration, with Redis and PostgreSQL going away and coming back, and
   what the health checks say of it.
