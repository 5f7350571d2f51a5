-------------------------- MODULE RequestPipeline --------------------------
(***************************************************************************)
(* One request on its way through the middleware of cmd/api/main.go, the   *)
(* handler and its calls on Redis and PostgreSQL, and back.                *)
(*                                                                         *)
(* A handler is a sequence of calls on the backends and then one answer,   *)
(* or a panic.  The calls take time, bounded as the code bounds them; what *)
(* lies between them takes none.  PostgreSQL calls first wait for one of   *)
(* the pool's connections, and give it back when they end.                 *)
(***************************************************************************)
EXTENDS Integers, FiniteSets

CONSTANTS Conn,           \* connections of clients
          Kinds,          \* requests they send: [endpoint, gzip]
          PoolSize,       \* DB_MAX_CONNECTIONS
          RequestTimeout, \* REQUEST_TIMEOUT: the context's deadline
          QueryTimeout,   \* the timeout of Query and GetByID
          RedisTimeout,   \* the longest a Redis call takes, retries included
          WriteTimeout    \* http.Server.WriteTimeout

ASSUME PipelineAssumption ==
    /\ IsFiniteSet(Conn)
    /\ {PoolSize, RequestTimeout, QueryTimeout, RedisTimeout, WriteTimeout} \subseteq Nat
    /\ Kinds \subseteq [endpoint : {"readings", "stats", "health", "live", "options"},
                        gzip : BOOLEAN]
    /\ Kinds # {}

VARIABLES now,
          at,             \* the call the request on a connection is in, or "answered", ...
          kind, began,    \* the request and when its header had been read
          since,          \* when the connection got where it is
          held,           \* connections whose request holds a connection of the pool
          status,         \* the status line sent, "none" before that
          counted,        \* the status http_requests_total counted it under
          panicked,       \* history: the handler panicked
          inFlight        \* the gauge http_requests_in_flight

requestVars == <<at, kind, began, since, held, status, counted, panicked, inFlight>>

-----------------------------------------------------------------------------
RedisCalls == {"lookup", "store", "ping_cache", "ping_cache_only"}
PoolCalls == {"query", "total", "devices", "fallback", "ping"}
Calls == RedisCalls \cup PoolCalls
Statuses == {"200", "204", "400", "404", "500", "503", "504"}

\* What a handler starts with: a call or an answer.
First ==
    [readings |-> {"lookup", "400"}, stats |-> {"total"}, health |-> {"ping"}, live |-> {"200"}]

\* What follows a call that succeeded, ...
AfterSuccess ==
    [lookup   |-> {"200", "query"},  query |-> {"200", "404", "store"},  store |-> {"200"},
     total    |-> {"devices"},       devices |-> {"200"},                fallback |-> {"200"},
     ping     |-> {"ping_cache"},    ping_cache |-> {"200"},  ping_cache_only |-> {"503"}]

\* ... and one that failed.
AfterFailure ==
    [lookup   |-> {"query"},         query |-> {"500"},       store |-> {"200"},
     total    |-> {"500"},           devices |-> {"fallback"}, fallback |-> {"500"},
     ping     |-> {"ping_cache_only"}, ping_cache |-> {"503"}, ping_cache_only |-> {"503"}]

\* (mutant) Every call gets the whole request timeout for itself.
EachCallTimes(c) == since[c] + RequestTimeout

\* The deadline of the request's context.
ContextDeadline(c) == began[c] + RequestTimeout

Earlier(s, t) == IF s < t THEN s ELSE t

\* When the call a request is in ends at the latest.  go-redis looks at the
\* context before it sends, not while it waits for a reply.
CallDeadline(c) ==
    IF at[c] \in RedisCalls
    THEN IF since[c] < ContextDeadline(c) THEN since[c] + RedisTimeout ELSE since[c]
    ELSE IF at[c] = "query" THEN Earlier(since[c] + QueryTimeout, ContextDeadline(c))
                            ELSE ContextDeadline(c)

-----------------------------------------------------------------------------
(* The way back: what each middleware does to the status the handler wrote, *)
(* "none" if it panicked first.  Only the first status counts.              *)

\* (mutant) The middleware wraps the answers to every client.
GzipClosedForAll(c, s) == IF s = "none" THEN "200" ELSE s

\* GzipMiddleware: closing the gzip writer sends its trailer, and with it a 200.
GzipClosed(c, s) == IF s = "none" /\ kind[c].gzip THEN "200" ELSE s

\* middleware.Timeout, deferred like the others.
TimedOut(c, s) == IF s = "none" /\ now >= ContextDeadline(c) THEN "504" ELSE s

\* middleware.Recoverer.
Recovered(s) == IF s = "none" THEN "500" ELSE s

\* (mutant) The wrapper does not see WriteHeader, and reports its default.
RecordedDefault(s) == IF s = "none" THEN s ELSE "200"

\* MetricsMiddleware: RecordRequest is not deferred, so a panic goes uncounted.
Recorded(s) == s

\* (mutant) DecInFlight is not deferred either.
ReleasedOnReturn(s) == IF s = "none" THEN inFlight ELSE inFlight - 1

\* (mutant) DecInFlight is both deferred and called on return.
ReleasedTwice(s) == IF s = "none" THEN inFlight - 1 ELSE inFlight - 2

\* DecInFlight is.
Released(s) == inFlight - 1

\* The handler is done: it wrote s, or panicked.  After the write timeout
\* nothing reaches the client any more.
Leave(c, s) ==
    /\ counted' = [counted EXCEPT ![c] = Recorded(s)]
    /\ inFlight' = Released(s)
    /\ status' = [status EXCEPT ![c] = Recovered(TimedOut(c, GzipClosed(c, s)))]
    /\ at' = [at EXCEPT ![c] = IF now < began[c] + WriteTimeout THEN "answered" ELSE "cut"]
    /\ held' = held \ {c}
    /\ UNCHANGED <<since>>

Go(c, step) ==
    IF step \in Statuses
    THEN Leave(c, step)
    ELSE /\ at' = [at EXCEPT ![c] = step]
         /\ since' = [since EXCEPT ![c] = now]
         /\ held' = held \ {c}
         /\ UNCHANGED <<status, counted, inFlight>>

-----------------------------------------------------------------------------
\* A call gets a connection of the pool.
Acquire(c) ==
    /\ at[c] \in PoolCalls /\ c \notin held
    /\ Cardinality(held) < PoolSize
    /\ now < CallDeadline(c)
    /\ held' = held \cup {c}
    /\ UNCHANGED <<at, kind, began, since, status, counted, panicked, inFlight>>

Succeed(c) ==
    /\ at[c] \in Calls
    /\ at[c] \in PoolCalls => c \in held /\ now < CallDeadline(c)
    /\ at[c] \in RedisCalls => since[c] < ContextDeadline(c)
    /\ \E step \in AfterSuccess[at[c]] : Go(c, step)
    /\ UNCHANGED <<kind, began, panicked>>

\* Any error, the wait for a connection that took too long included.
Fail(c) ==
    /\ at[c] \in Calls
    /\ \E step \in AfterFailure[at[c]] : Go(c, step)
    /\ UNCHANGED <<kind, began, panicked>>

Panic(c) ==
    /\ at[c] \in Calls
    /\ panicked' = [panicked EXCEPT ![c] = TRUE]
    /\ Leave(c, "none")
    /\ UNCHANGED <<kind, began>>

Handle(c) == Acquire(c) \/ Succeed(c) \/ Fail(c) \/ Panic(c)
=============================================================================
