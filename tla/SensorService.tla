--------------------------- MODULE SensorService ---------------------------
(***************************************************************************)
(* internal/service/sensor_service.go over internal/cache/redis_cache.go   *)
(* and internal/repository/sensor_repo.go: the cache-aside read path, one  *)
(* goroutine per request, all of them sharing Redis and PostgreSQL with    *)
(* writers that insert readings at any moment.                             *)
(*                                                                         *)
(* A request moves through its calls one at a time (pc): the GET on Redis, *)
(* the query, the rows on their way back, the SET on Redis.  Every call    *)
(* can fail at any time; calls made after the request's deadline always    *)
(* do.  A SET the client gave up on may still reach Redis, and one that    *)
(* was retried may reach it twice: `wire` holds such writes.               *)
(*                                                                         *)
(* Fields named snap, taken and req inside `got`, `redis` and `wire` are   *)
(* history: which commit prefix the rows were read from, when, and for     *)
(* which request.  No action looks at them.                                *)
(***************************************************************************)
EXTENDS CacheKeys

CONSTANTS Proc,          \* request goroutines
          Requests,      \* what clients send
          DeviceIDs,     \* well-formed device ids
          ReadingTypes,  \* well-formed reading types
          RowPool,       \* rows the generators and writers can insert
          TTL,           \* REDIS_TTL; 0 is "no expiry" to Redis
          Deadline,      \* the Timeout middleware's context deadline
          WireDelay,     \* how long an abandoned SET can stay under way
          MaxWire,       \* bound: abandoned SETs under way at a time
          MaxTime,       \* bound on the clock
          NoEntry        \* an absent key

ASSUME ServiceAssumption ==
    /\ TTL \in Nat /\ Deadline \in Nat /\ WireDelay \in Nat /\ MaxWire \in Nat
    /\ MaxTime \in Nat
    /\ Requests # {}

VARIABLES db,            \* sensor_readings: the committed rows, [row, at]
          now,
          enabled,       \* RedisCache.enabled, fixed when the process starts
          pc,            \* where each goroutine is
          req, start, out,
          got,           \* the rows the query returned: [rows, snap, taken]
          redis,         \* key -> entry [rows, exp, req, snap, taken]
          wire           \* SETs under way: [key, rows, sent, req, snap, taken]

env == <<db, now, enabled>>
vars == <<db, now, enabled, pc, req, start, out, got, redis, wire>>

-----------------------------------------------------------------------------
AnyRequest == CHOOSE r \in Requests : TRUE
Keys == {Key(r) : r \in Requests}
NothingGot == [rows |-> {}, snap |-> 0, taken |-> 0]

IsValidDeviceID(d) == d \in DeviceIDs
IsValidReadingType(t) == t \in ReadingTypes

Valid(r) ==
    IF r.kind = "id" THEN r.id >= 1
    ELSE /\ IsValidDeviceID(r.device)
         /\ r.limit \in 1..500
         /\ r.rtype # NoType => IsValidReadingType(r.rtype)

\* (mutant) SETs and queries go out whatever the request's deadline says.
NeverExpired(p) == TRUE

\* The request's context is not yet past its deadline.
Alive(p) == now < start[p] + Deadline

\* (mutant) Entries are written without a TTL.
LivesForever(e) == e # NoEntry

\* Redis has not expired the entry.
Live(e) == e # NoEntry /\ (TTL = 0 \/ now < e.exp)

Respond(p, o) ==
    /\ pc' = [pc EXCEPT ![p] = "done"]
    /\ out' = [out EXCEPT ![p] = o]
    /\ got' = [got EXCEPT ![p] = NothingGot]

Goto(p, label) == pc' = [pc EXCEPT ![p] = label]

-----------------------------------------------------------------------------
Init ==
    /\ db = << >> /\ now = 0 /\ enabled \in BOOLEAN
    /\ pc = [p \in Proc |-> "idle"]
    /\ req = [p \in Proc |-> AnyRequest]
    /\ start = [p \in Proc |-> 0]
    /\ out = [p \in Proc |-> NoAnswer]
    /\ got = [p \in Proc |-> NothingGot]
    /\ redis = [k \in Keys |-> NoEntry]
    /\ wire = {}

\* The request reaches the service.  A parameter that fails validation ends it.
Receive(p, r) ==
    /\ pc[p] = "idle"
    /\ req' = [req EXCEPT ![p] = r]
    /\ start' = [start EXCEPT ![p] = now]
    /\ \/ ~Valid(r) /\ Respond(p, Failed("INVALID_PARAMETER"))
       \/ /\ Valid(r) /\ Goto(p, IF enabled THEN "lookup" ELSE "query")
          /\ UNCHANGED <<out, got>>
    /\ UNCHANGED <<env, redis, wire>>

\* The client reads the reply under its own socket timeouts, not under the
\* request's deadline: a hit may come after it.
CacheHit(p) ==
    /\ pc[p] = "lookup"
    /\ Live(redis[Key(req[p])])
    /\ Respond(p, OK("HIT", redis[Key(req[p])].rows))
    /\ UNCHANGED <<env, req, start, redis, wire>>

\* No such key, or any error at all: both are a miss.
CacheMiss(p) ==
    /\ pc[p] = "lookup"
    /\ Goto(p, "query")
    /\ UNCHANGED <<env, req, start, out, got, redis, wire>>

\* PostgreSQL evaluates the query on the state of this moment.
QueryRuns(p) ==
    /\ pc[p] = "query" /\ Alive(p)
    /\ Goto(p, "rows")
    /\ UNCHANGED <<env, req, start, out, redis, wire>>
    /\ \E rows \in Results(req[p], Rows(db, Len(db))) :
          got' = [got EXCEPT ![p] = [rows |-> rows, snap |-> Len(db), taken |-> now]]

\* The rows arrive.
QueryReturns(p) ==
    /\ pc[p] = "rows" /\ Alive(p)
    /\ LET rows == got[p].rows
       IN  \/ /\ rows = {}
              /\ Respond(p, IF Unfiltered(req[p]) THEN NotFound(req[p]) ELSE OK("MISS", {}))
           \/ /\ rows # {} /\ ~enabled
              /\ Respond(p, OK("MISS", rows))
           \/ /\ rows # {} /\ enabled
              /\ Goto(p, "store") /\ UNCHANGED <<out, got>>
    /\ UNCHANGED <<env, req, start, redis, wire>>

\* (mutant) The query waits for its rows past every deadline.
QueryNeverGivesUp(p) ==
    /\ pc[p] \in {"query", "rows"} /\ Alive(p)
    /\ Respond(p, Failed("INTERNAL_ERROR"))
    /\ UNCHANGED <<env, req, start, redis, wire>>

\* The 5 s query timeout, a full pool, a lost connection.
QueryFails(p) ==
    /\ pc[p] \in {"query", "rows"}
    /\ Respond(p, Failed("INTERNAL_ERROR"))
    /\ UNCHANGED <<env, req, start, redis, wire>>

\* The SET this goroutine sends.
Write(p) == [key |-> Key(req[p]), rows |-> got[p].rows, sent |-> now,
             req |-> req[p], snap |-> got[p].snap, taken |-> got[p].taken]

\* (mutant) The expiry is computed backwards.
StoredExpired(w) == [rows |-> w.rows, exp |-> now - TTL,
                     req |-> w.req, snap |-> w.snap, taken |-> w.taken]

Stored(w) == [rows |-> w.rows, exp |-> now + TTL,
              req |-> w.req, snap |-> w.snap, taken |-> w.taken]

MayLinger(w) == wire' = wire \/ (Cardinality(wire) < MaxWire /\ wire' = wire \cup {w})

\* The SET succeeds, at the first attempt or at a retry.
SetDone(p) ==
    /\ pc[p] = "store" /\ Alive(p)
    /\ redis' = [redis EXCEPT ![Key(req[p])] = Stored(Write(p))]
    /\ MayLinger(Write(p))
    /\ Respond(p, OK("MISS", got[p].rows))
    /\ UNCHANGED <<env, req, start>>

\* The SET returns an error, which is ignored.  If it was sent at all it may
\* still be under way.
SetFails(p) ==
    /\ pc[p] = "store"
    /\ IF Alive(p) THEN MayLinger(Write(p)) ELSE wire' = wire
    /\ Respond(p, OK("MISS", got[p].rows))
    /\ UNCHANGED <<env, req, start, redis>>

\* The client has its answer; the goroutine ends.
Collect(p) ==
    /\ pc[p] = "done"
    /\ pc' = [pc EXCEPT ![p] = "idle"]
    /\ req' = [req EXCEPT ![p] = AnyRequest]
    /\ start' = [start EXCEPT ![p] = 0]
    /\ out' = [out EXCEPT ![p] = NoAnswer]
    /\ UNCHANGED <<env, got, redis, wire>>

-----------------------------------------------------------------------------
(* The surroundings.                                                        *)

\* A SET under way reaches Redis, or is lost with its connection.
Deliver(w) ==
    /\ redis' = [redis EXCEPT ![w.key] = Stored(w)]
    /\ wire' = wire \ {w}
    /\ UNCHANGED <<env, pc, req, start, out, got>>

Lose(w) == wire' = wire \ {w} /\ UNCHANGED <<env, pc, req, start, out, got, redis>>

\* allkeys-lru eviction, FLUSHALL by an operator, or Redis losing its data.
Evict(k) ==
    /\ redis[k] # NoEntry
    /\ redis' = [redis EXCEPT ![k] = NoEntry]
    /\ UNCHANGED <<env, pc, req, start, out, got, wire>>

\* A writer commits a reading.  Ids come from a sequence, so they are unique,
\* but commits need not follow id order, nor timestamps commit order.
Commit(row) ==
    /\ \A i \in DOMAIN db : db[i].row.id # row.id
    /\ db' = Append(db, [row |-> row, at |-> now])
    /\ UNCHANGED <<now, enabled, pc, req, start, out, got, redis, wire>>

Tick ==
    /\ now < MaxTime
    /\ \A w \in wire : now < w.sent + WireDelay
    /\ now' = now + 1
    /\ UNCHANGED <<db, enabled, pc, req, start, out, got, redis, wire>>

\* The API process dies and comes back; cache.New decides anew whether the
\* cache is on (main falls back to a disabled one when Redis does not answer).
\* Redis keeps its entries, and writes already sent still arrive.
Restart ==
    /\ enabled' \in BOOLEAN
    /\ pc' = [p \in Proc |-> "idle"]
    /\ req' = [p \in Proc |-> AnyRequest]
    /\ start' = [p \in Proc |-> 0]
    /\ out' = [p \in Proc |-> NoAnswer]
    /\ got' = [p \in Proc |-> NothingGot]
    /\ UNCHANGED <<db, now, redis, wire>>

-----------------------------------------------------------------------------
Step(p) ==
    \/ CacheMiss(p) \/ CacheHit(p)
    \/ QueryFails(p) \/ QueryRuns(p) \/ QueryReturns(p)
    \/ SetFails(p) \/ SetDone(p)

Next ==
    \/ \E p \in Proc : Step(p) \/ Collect(p) \/ \E r \in Requests : Receive(p, r)
    \/ \E w \in wire : Deliver(w) \/ Lose(w)
    \/ \E k \in Keys : Evict(k)
    \/ \E row \in RowPool : Commit(row)
    \/ Tick \/ Restart

Spec == Init /\ [][Next]_vars

-----------------------------------------------------------------------------
(* Correctness.                                                             *)

\* The longest an answer can lag behind the table: a query read just before
\* its request's deadline started to run, a SET held up, and the entry's life.
\* Without a TTL an answer can be as old as the table.
Bound == IF TTL = 0 THEN MaxTime ELSE Deadline + WireDelay + TTL

Busy == {"lookup", "query", "rows", "store"}
Statuses == {"NONE", "OK", "READING_NOT_FOUND", "DEVICE_NOT_FOUND", "INTERNAL_ERROR",
             "INVALID_PARAMETER"}
Entry == [rows : SUBSET RowPool, exp : Nat, req : Requests, snap : Nat, taken : Nat]

TypeOK ==
    /\ db \in Seq([row : RowPool, at : Nat])
    /\ now \in 0..MaxTime /\ enabled \in BOOLEAN
    /\ pc \in [Proc -> Busy \cup {"idle", "done"}]
    /\ req \in [Proc -> Requests]
    /\ start \in [Proc -> Nat]
    /\ out \in [Proc -> [status : Statuses, cache : {"HIT", "MISS", ""}, rows : SUBSET RowPool]]
    /\ got \in [Proc -> [rows : SUBSET RowPool, snap : Nat, taken : Nat]]
    /\ redis \in [Keys -> Entry \cup {NoEntry}]
    /\ wire \subseteq [key : Keys, rows : SUBSET RowPool, sent : Nat, req : Requests,
                       snap : Nat, taken : Nat]

\* Rows held somewhere outside PostgreSQL are the result of a valid request on
\* one state of the table, a state that was current when they were read.
Genuine(log, t, rows, r, snap, taken) ==
    /\ Valid(r)
    /\ snap \in 0..Len(log) /\ taken <= t
    /\ rows \in Results(r, Rows(log, snap))
    /\ CurrentSince(log, snap, taken)

(***************************************************************************)
(* Every entry of Redis is the non-empty, genuine result of a request with *)
(* that very key, and it will be gone Bound after its rows were read,      *)
(* however late its SET ran and whatever overwrote it before.              *)
(***************************************************************************)
CacheSound ==
    \A k \in Keys : redis[k] # NoEntry =>
        LET e == redis[k]
        IN  /\ Key(e.req) = k
            /\ e.rows # {}
            /\ Genuine(db, now, e.rows, e.req, e.snap, e.taken)
            /\ e.exp <= e.taken + Bound

(***************************************************************************)
(* The same of rows a goroutine holds between its calls and of SETs still  *)
(* under way: what CacheSound needs to be inductive.  A SET is never sent  *)
(* later than Deadline after the query read its rows.                      *)
(***************************************************************************)
HeldSound ==
    \A p \in Proc :
        /\ start[p] <= now
        /\ pc[p] \in Busy => Valid(req[p])
        /\ pc[p] \in {"rows", "store"} =>
              /\ Genuine(db, now, got[p].rows, req[p], got[p].snap, got[p].taken)
              /\ start[p] <= got[p].taken
        /\ pc[p] = "store" => got[p].rows # {}

WireSound ==
    \A w \in wire :
        /\ w.key = Key(w.req)
        /\ w.rows # {}
        /\ Genuine(db, now, w.rows, w.req, w.snap, w.taken)
        /\ w.sent < w.taken + Deadline
        /\ now <= w.sent + WireDelay

InFlightSound == HeldSound /\ WireSound

(***************************************************************************)
(* A 200 answer to a lookup by id, cached or not, is the one row with that *)
(* id, and a lookup that found none was not answered 200: primary-key      *)
(* entries never collide with those of devices and never go stale.         *)
(***************************************************************************)
ByIdExact ==
    \A p \in Proc : out[p].status = "OK" /\ req[p].kind = "id" =>
        /\ out[p].rows = GetByID(req[p].id, Rows(db, Len(db)))
        /\ Cardinality(out[p].rows) = 1

(***************************************************************************)
(* Every row of a 200 answer to a question without a time range, cached or *)
(* not, is of its device and of its type: the only questions Redis mixes   *)
(* up are those with a time range and those for a type of digits only.     *)
(***************************************************************************)
RangelessRowsMatch ==
    \A p \in Proc : out[p].status = "OK" /\ Rangeless(req[p]) =>
        \A row \in out[p].rows : Matches(row, req[p])

(***************************************************************************)
(* The promise to clients (BoundedStaleness): every answer is the exact    *)
(* result of the request on a state of the table current at most Bound     *)
(* before the request, a MISS and a 404 on one current while it ran.       *)
(***************************************************************************)
Phase == [p \in Proc |-> IF pc[p] \in Busy THEN "busy" ELSE pc[p]]
ValidRequests == {r \in Requests : Valid(r)}
Itself == {<<r, r>> : r \in Requests}
SameKey == {rs \in Requests \X Requests : Key(rs[1]) = Key(rs[2])}

Promise == INSTANCE BoundedStaleness WITH phase <- Phase, Alias <- Itself
PromiseKept == Promise!Spec

(***************************************************************************)
(* What holds of every set of requests: the same, except that a HIT may be *)
(* the result of another request that has the same key.                    *)
(***************************************************************************)
UpToKey == INSTANCE BoundedStaleness WITH phase <- Phase, Alias <- SameKey
KeptUpToKey == UpToKey!Spec

-----------------------------------------------------------------------------
(* What a document says, and the code does not do.                          *)

(***************************************************************************)
(* Every row of a 200 answer satisfies the filters of its request: `from`  *)
(* and `to` bound the time range (docs/api-spec.md), and a cache key is    *)
(* "consistent" (the comment of cacheKey).  A request with only `from` and *)
(* one with only `to` share a key when the two times agree.                *)
(***************************************************************************)
OnlyMatchingRows ==
    \A p \in Proc : out[p].status = "OK" /\ req[p].kind = "readings" =>
        \A row \in out[p].rows : Matches(row, req[p])
=============================================================================
