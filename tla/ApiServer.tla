----------------------------- MODULE ApiServer -----------------------------
(***************************************************************************)
(* The server process of cmd/api/main.go: it accepts connections, serves   *)
(* their requests, and on SIGTERM drains them: http.Server.Shutdown closes *)
(* the listener and whatever is idle, and waits for the rest.  If that     *)
(* takes longer than Grace the process exits at once; otherwise main       *)
(* returns and its deferred calls close Redis and then the pool.           *)
(*                                                                         *)
(* Time passes only when nothing is overdue: a call ends by its deadline,  *)
(* a silent new connection is dropped, a Shutdown that began closes what   *)
(* is idle, and one that takes too long is given up, when they are due.    *)
(***************************************************************************)
EXTENDS RequestPipeline

CONSTANTS HeaderTimeout,  \* http.Server.ReadHeaderTimeout
          Grace,          \* the deadline main gives Shutdown
          MaxTime         \* bound on the clock

ASSUME ServerAssumption == {HeaderTimeout, Grace, MaxTime} \subseteq Nat

VARIABLES server,         \* "serving", "draining", "closing", "stopped" or "killed"
          signalled,      \* when the signal came
          backends        \* the clients that are open: "redis", "pool"

serverVars == <<server, signalled, backends>>
vars == <<now, requestVars, serverVars>>

-----------------------------------------------------------------------------
NoKind == CHOOSE k \in Kinds : TRUE

Init ==
    /\ now = 0
    /\ server = "serving" /\ signalled = 0 /\ backends = {"redis", "pool"}
    /\ at = [c \in Conn |-> "closed"]
    /\ kind = [c \in Conn |-> NoKind]
    /\ began = [c \in Conn |-> 0]
    /\ since = [c \in Conn |-> 0]
    /\ held = {}
    /\ status = [c \in Conn |-> "none"]
    /\ counted = [c \in Conn |-> "none"]
    /\ panicked = [c \in Conn |-> FALSE]
    /\ inFlight = 0

Running == server \in {"serving", "draining", "closing"}

Accept(c) ==
    /\ server = "serving" /\ at[c] = "closed"
    /\ at' = [at EXCEPT ![c] = "new"]
    /\ since' = [since EXCEPT ![c] = now]
    /\ UNCHANGED <<now, kind, began, held, status, counted, panicked, inFlight, serverVars>>

\* The header of a request has been read.  A preflight is answered by
\* CORSMiddleware; anything else goes down to its handler.
Request(c, k) ==
    /\ at[c] \in {"new", "idle"} /\ Running
    /\ kind' = [kind EXCEPT ![c] = k]
    /\ began' = [began EXCEPT ![c] = now]
    /\ \/ /\ k.endpoint = "options"
          /\ at' = [at EXCEPT ![c] = "answered"]
          /\ status' = [status EXCEPT ![c] = "204"]
          /\ UNCHANGED <<since, counted, inFlight>>
       \/ /\ k.endpoint # "options"
          /\ \E step \in First[k.endpoint] :
                \/ /\ step \in Calls
                   /\ at' = [at EXCEPT ![c] = step]
                   /\ since' = [since EXCEPT ![c] = now]
                   /\ inFlight' = inFlight + 1
                   /\ UNCHANGED <<status, counted>>
                \/ /\ step \in Statuses
                   /\ at' = [at EXCEPT ![c] = "answered"]
                   /\ status' = [status EXCEPT ![c] = step]
                   /\ counted' = [counted EXCEPT ![c] = Recorded(step)]
                   /\ UNCHANGED <<since, inFlight>>
    /\ UNCHANGED <<now, held, panicked, serverVars>>

Work(c) == Handle(c) /\ UNCHANGED <<now, serverVars>>

\* The connection is kept for another request, unless the server is shutting
\* down or the answer did not get through.
Finish(c) ==
    /\ at[c] \in {"answered", "cut"} /\ Running
    /\ at' = [at EXCEPT ![c] =
                 IF at[c] = "answered" /\ server = "serving" THEN "idle" ELSE "closed"]
    /\ kind' = [kind EXCEPT ![c] = NoKind]
    /\ began' = [began EXCEPT ![c] = 0]
    /\ since' = [since EXCEPT ![c] = 0]
    /\ status' = [status EXCEPT ![c] = "none"]
    /\ counted' = [counted EXCEPT ![c] = "none"]
    /\ panicked' = [panicked EXCEPT ![c] = FALSE]
    /\ UNCHANGED <<now, held, inFlight, serverVars>>

\* The client goes away between requests, or sends no header in time.
Drop(c) ==
    /\ at[c] \in {"new", "idle"} /\ Running
    /\ at' = [at EXCEPT ![c] = "closed"]
    /\ since' = [since EXCEPT ![c] = 0]
    /\ UNCHANGED <<now, kind, began, held, status, counted, panicked, inFlight, serverVars>>

-----------------------------------------------------------------------------
Signal ==
    /\ server = "serving"
    /\ server' = "draining" /\ signalled' = now
    /\ UNCHANGED <<now, requestVars, backends>>

Quiet == \A c \in Conn : at[c] \in {"idle", "closed"}

\* (mutant) main does not wait for Shutdown to return.
PollOnce ==
    /\ server = "draining"
    /\ at' = [c \in Conn |-> IF at[c] = "idle" THEN "closed" ELSE at[c]]
    /\ server' = "closing"
    /\ UNCHANGED <<now, kind, began, since, held, status, counted, panicked, inFlight,
                   signalled, backends>>

\* (mutant) Connections between two requests are left open, and waited for.
PollKeepsIdle ==
    /\ server = "draining"
    /\ \A c \in Conn : at[c] = "closed"
    /\ server' = "closing"
    /\ UNCHANGED <<now, requestVars, signalled, backends>>

\* One round of Shutdown: close what is idle, return when nothing else is left.
\* A new connection does not count as idle before its header timeout.
Poll ==
    /\ server = "draining"
    /\ at' = [c \in Conn |-> IF at[c] = "idle" THEN "closed" ELSE at[c]]
    /\ server' = IF Quiet THEN "closing" ELSE "draining"
    /\ UNCHANGED <<now, kind, began, since, held, status, counted, panicked, inFlight,
                   signalled, backends>>

\* (mutant) Shutdown is given the context that the signal has ended.
KillAtOnce ==
    /\ server = "draining"
    /\ server' = "killed"
    /\ at' = [c \in Conn |-> IF at[c] \in Calls THEN "cut" ELSE at[c]]
    /\ UNCHANGED <<now, kind, began, since, held, status, counted, panicked, inFlight,
                   signalled, backends>>

\* Shutdown's context ends: os.Exit(1), and no deferred call runs.
Kill ==
    /\ server = "draining" /\ now >= signalled + Grace
    /\ server' = "killed"
    /\ at' = [c \in Conn |-> IF at[c] \in Calls THEN "cut" ELSE at[c]]
    /\ UNCHANGED <<now, kind, began, since, held, status, counted, panicked, inFlight,
                   signalled, backends>>

\* The deferred calls of main, last first.
CloseBackends ==
    /\ server = "closing"
    /\ \/ "redis" \in backends /\ backends' = backends \ {"redis"} /\ server' = server
       \/ backends = {"pool"} /\ backends' = {} /\ server' = "stopped"
    /\ UNCHANGED <<now, requestVars, signalled>>

\* The process is gone.
Gone == server \in {"stopped", "killed"} /\ UNCHANGED vars

Tick ==
    /\ now < MaxTime /\ Running
    /\ \A c \in Conn :
          /\ at[c] \in Calls => now < CallDeadline(c)
          /\ at[c] = "new" => now < since[c] + HeaderTimeout
    /\ server = "draining" => now < signalled + Grace /\ \A c \in Conn : at[c] # "idle"
    /\ now' = now + 1
    /\ UNCHANGED <<requestVars, serverVars>>

-----------------------------------------------------------------------------
Serve(c) == Work(c) \/ Finish(c)
ShutDown == Poll \/ Kill \/ CloseBackends

Next ==
    \/ \E c \in Conn :
          \/ Accept(c) \/ \E k \in Kinds : Request(c, k)
          \/ Serve(c) \/ Drop(c)
    \/ Signal \/ ShutDown \/ Gone \/ Tick

Spec == Init /\ [][Next]_vars

\* Goroutines run, every call returns, a new connection sends its header or is
\* dropped, and main goes on shutting down.
FairSpec ==
    /\ Spec
    /\ \A c \in Conn : WF_vars(Serve(c)) /\ WF_vars(at[c] = "new" /\ Drop(c))
    /\ WF_vars(ShutDown)

-----------------------------------------------------------------------------
(* Correctness.                                                             *)

TypeOK ==
    /\ now \in 0..MaxTime
    /\ at \in [Conn -> Calls \cup {"closed", "new", "idle", "answered", "cut"}]
    /\ kind \in [Conn -> Kinds]
    /\ began \in [Conn -> Nat] /\ since \in [Conn -> Nat]
    /\ held \subseteq Conn /\ Cardinality(held) <= PoolSize
    /\ status \in [Conn -> Statuses \cup {"none"}]
    /\ counted \in [Conn -> Statuses \cup {"none"}]
    /\ panicked \in [Conn -> BOOLEAN]
    /\ inFlight \in Nat
    /\ server \in {"serving", "draining", "closing", "stopped", "killed"}
    /\ signalled \in Nat
    /\ backends \subseteq {"redis", "pool"}

(***************************************************************************)
(* No request whose header was read is left without an answer, neither by  *)
(* the server's write timeout nor by a shutdown that ran out of time, as   *)
(* long as the timeouts leave room for one another: a request can come as  *)
(* late as a header timeout after the signal, run until its context's      *)
(* deadline and then still wait for one Redis call.  The defaults do not   *)
(* leave that room: REQUEST_TIMEOUT is 30 s and Shutdown gets 30 s.        *)
(***************************************************************************)
RoomToFinish ==
    /\ RequestTimeout > 0
    /\ RequestTimeout + RedisTimeout < WriteTimeout
    /\ HeaderTimeout + RequestTimeout + RedisTimeout < Grace

NoneCut == RoomToFinish => \A c \in Conn : at[c] # "cut"

(***************************************************************************)
(* The deferred calls close no client a handler still uses: Shutdown has   *)
(* returned only once every handler has, and when it gives up they do not  *)
(* run at all.                                                             *)
(***************************************************************************)
BackendsOpen ==
    \A c \in Conn :
        /\ at[c] \in RedisCalls => "redis" \in backends
        /\ at[c] \in PoolCalls => "pool" \in backends

(***************************************************************************)
(* http_requests_in_flight is the number of requests being handled, panics *)
(* and timeouts notwithstanding.                                           *)
(***************************************************************************)
Handled == {c \in Conn : at[c] \in Calls}

GaugeExact == Running => inFlight = Cardinality(Handled)

(***************************************************************************)
(* A request that reached its handler is counted under the status its      *)
(* client saw, unless the handler panicked.                                *)
(***************************************************************************)
CountedAsAnswered ==
    \A c \in Conn :
        at[c] = "answered" /\ ~panicked[c] /\ kind[c].endpoint # "options" =>
            counted[c] = status[c]

\* A signal ends the process, whatever its requests are waiting for.
Drains == server = "draining" ~> server \in {"stopped", "killed"}

(***************************************************************************)
(* A request is worked on for no longer than REQUEST_TIMEOUT and one Redis *)
(* call, however many calls it makes and however long it waits for one of  *)
(* the pool's connections: the calls share the deadline of one context.    *)
(***************************************************************************)
WorkEnds ==
    \A c \in Conn : at[c] \in Calls => now <= began[c] + RequestTimeout + RedisTimeout

(***************************************************************************)
(* A handler that panics in time is answered 500, by the Recoverer, when   *)
(* its client does not take gzip: the part of "INTERNAL_ERROR | 500 |      *)
(* Unexpected server error" (docs/api-spec.md) that the code keeps.        *)
(***************************************************************************)
PlainPanicIs500 ==
    \A c \in Conn :
        at[c] = "answered" /\ panicked[c] /\ ~kind[c].gzip /\ now < ContextDeadline(c) =>
            status[c] = "500"

(***************************************************************************)
(* With room between the timeouts the process is a graceful server: every  *)
(* request it takes is answered, in time, and when told to leave it leaves *)
(* in time and owes nobody an answer.                                      *)
(***************************************************************************)
Life ==
    IF server = "serving" THEN "up" ELSE IF server = "draining" THEN "leaving" ELSE "gone"

Stage ==
    [c \in Conn |->
        IF at[c] \in Calls THEN "taken" ELSE IF at[c] = "answered" THEN "answered" ELSE "none"]

Taken == [c \in Conn |-> IF at[c] \in Calls THEN began[c] ELSE 0]

Graceful ==
    INSTANCE GracefulServer WITH
        Longest <- RequestTimeout + RedisTimeout, Linger <- HeaderTimeout,
        life <- Life, ordered <- signalled, stage <- Stage, taken <- Taken

ServesGracefully == Graceful!Spec

-----------------------------------------------------------------------------
(***************************************************************************)
(* "INTERNAL_ERROR | 500 | Unexpected server error" (docs/api-spec.md): a  *)
(* request whose handler panics in time is answered 500 by the Recoverer.  *)
(* To a client that accepts gzip a 200 has gone out by then.               *)
(***************************************************************************)
PanicIsInternalError ==
    \A c \in Conn :
        at[c] = "answered" /\ panicked[c] /\ now < ContextDeadline(c) => status[c] = "500"
=============================================================================
