-------------------------- MODULE ApiServerProofs --------------------------
(***************************************************************************)
(* Proofs about ApiServer, for any number of connections, any requests and *)
(* any timeouts.                                                           *)
(***************************************************************************)
EXTENDS ApiServer, FiniteSetTheorems, TLAPS

(***************************************************************************)
(* What the steps of a handler lead to.                                    *)
(***************************************************************************)
LEMMA Steps ==
    /\ \A call \in Calls : /\ AfterSuccess[call] \subseteq Calls \cup Statuses
                           /\ AfterFailure[call] \subseteq Calls \cup Statuses
    /\ \A k \in Kinds : k.endpoint # "options" => First[k.endpoint] \subseteq Calls \cup Statuses
<1>1. \A call \in Calls : AfterSuccess[call] \subseteq Calls \cup Statuses
  BY DEF Calls, RedisCalls, PoolCalls, Statuses, AfterSuccess
<1>2. \A call \in Calls : AfterFailure[call] \subseteq Calls \cup Statuses
  BY DEF Calls, RedisCalls, PoolCalls, Statuses, AfterFailure
<1>3. \A k \in Kinds : k.endpoint # "options" => First[k.endpoint] \subseteq Calls \cup Statuses
  BY PipelineAssumption DEF Calls, RedisCalls, PoolCalls, Statuses, First
<1> QED BY <1>1, <1>2, <1>3

\* A connection is in a call, answered, or neither, never two of them.
LEMMA Places ==
    Calls \cap (Statuses \cup {"closed", "new", "idle", "answered", "cut", "none"}) = {}
BY DEF Calls, RedisCalls, PoolCalls, Statuses

LEMMA NoKindIsOne == NoKind \in Kinds
BY PipelineAssumption DEF NoKind

(***************************************************************************)
(* The inductive invariant.  BackendsOpen and NoneCut depend on when the   *)
(* server is where, and on how old what it waits for can be.               *)
(***************************************************************************)
ServerSound ==
    /\ server \in {"serving", "draining", "killed"} => backends = {"redis", "pool"}
    /\ server = "killed" => \A c \in Conn : at[c] \notin Calls
    /\ server \in {"closing", "stopped"} => \A c \in Conn : at[c] = "closed"

\* A call has been going on since `since`, and cannot outlast the deadline of
\* its request by more than a Redis call.
CallOnTime(c) ==
    at[c] \in Calls =>
        /\ began[c] <= since[c] /\ since[c] <= now
        /\ now <= began[c] + RequestTimeout + RedisTimeout

NewOnTime(c) == at[c] = "new" => since[c] <= now /\ now <= since[c] + HeaderTimeout

\* After the signal nothing starts later than a header timeout.
StartedInTime(c) ==
    server = "draining" =>
        /\ at[c] = "new" => since[c] <= signalled
        /\ at[c] = "idle" => now = signalled
        /\ at[c] \in Calls => began[c] <= signalled + HeaderTimeout

TimeSound ==
    /\ server # "serving" => signalled <= now
    /\ \A c \in Conn : CallOnTime(c) /\ NewOnTime(c) /\ StartedInTime(c)

IInv == TypeOK /\ GaugeExact /\ ServerSound /\ TimeSound

(***************************************************************************)
(* What a step of a handler does, whichever it is: it waits on, it goes on *)
(* to another call, or it leaves with an answer.                           *)
(***************************************************************************)
Waits(c) == at' = at /\ since' = since /\ inFlight' = inFlight

GoesOn(c) ==
    /\ \E call \in Calls : at' = [at EXCEPT ![c] = call]
    /\ since' = [since EXCEPT ![c] = now]
    /\ inFlight' = inFlight

Leaves(c) ==
    /\ at' = [at EXCEPT ![c] = IF now < began[c] + WriteTimeout THEN "answered" ELSE "cut"]
    /\ since' = since
    /\ inFlight' = inFlight - 1

\* Connections of the pool, and the answers, stay what they are.
Typed ==
    /\ held \subseteq Conn /\ Cardinality(held) <= PoolSize
    /\ status \in [Conn -> Statuses \cup {"none"}]
    /\ counted \in [Conn -> Statuses \cup {"none"}]
    /\ panicked \in [Conn -> BOOLEAN]

LEMMA GiveBack ==
    ASSUME TypeOK, NEW c \in Conn
    PROVE  held \ {c} \subseteq Conn /\ Cardinality(held \ {c}) <= PoolSize
<1>1. IsFiniteSet(held)
  BY PipelineAssumption, FS_Subset DEF TypeOK
<1>2. Cardinality(held \ {c}) <= Cardinality(held)
  BY <1>1, FS_Subset
<1>3. Cardinality(held) \in Nat /\ Cardinality(held \ {c}) \in Nat /\ PoolSize \in Nat
  BY <1>1, FS_Subset, FS_CardinalityType, PipelineAssumption
<1> QED BY <1>2, <1>3 DEF TypeOK

LEMMA LeaveEffect ==
    ASSUME TypeOK, NEW c \in Conn, NEW s \in Statuses \cup {"none"}, Leave(c, s),
           panicked' \in [Conn -> BOOLEAN]
    PROVE  Leaves(c) /\ Typed'
<1>1. Recovered(TimedOut(c, GzipClosed(c, s))) \in Statuses
  BY DEF Recovered, TimedOut, GzipClosed, Statuses
<1>2. Leaves(c)
  BY DEF Leave, Leaves, Released
<1>3. /\ status' \in [Conn -> Statuses \cup {"none"}]
      /\ counted' \in [Conn -> Statuses \cup {"none"}]
  BY <1>1 DEF TypeOK, Leave, Recorded
<1>4. held' \subseteq Conn /\ Cardinality(held') <= PoolSize
  BY GiveBack DEF Leave
<1> QED BY <1>2, <1>3, <1>4 DEF Typed

LEMMA GoEffect ==
    ASSUME TypeOK, NEW c \in Conn, NEW step \in Calls \cup Statuses, Go(c, step),
           UNCHANGED panicked
    PROVE  (GoesOn(c) \/ Leaves(c)) /\ Typed'
<1>1. CASE step \in Statuses
  BY <1>1, LeaveEffect DEF Go, TypeOK
<1>2. CASE step \notin Statuses
  <2>1. GoesOn(c)
    BY <1>2 DEF Go, GoesOn
  <2>2. held' \subseteq Conn /\ Cardinality(held') <= PoolSize
    BY <1>2, GiveBack DEF Go
  <2> QED BY <1>2, <2>1, <2>2 DEF Go, TypeOK, Typed
<1> QED BY <1>1, <1>2

LEMMA WorkEffect ==
    ASSUME TypeOK, NEW c \in Conn, Work(c)
    PROVE  /\ at[c] \in Calls
           /\ Waits(c) \/ GoesOn(c) \/ Leaves(c)
           /\ Typed'
           /\ UNCHANGED <<now, kind, began, serverVars>>
<1>1. CASE Acquire(c)
  <2>1. IsFiniteSet(held) /\ Cardinality(held) \in Nat
    BY PipelineAssumption, FS_Subset, FS_CardinalityType DEF TypeOK
  <2>2. Cardinality(held \cup {c}) = Cardinality(held) + 1
    BY <1>1, <2>1, FS_AddElement DEF Acquire
  <2>3. Cardinality(held') <= PoolSize
    BY <1>1, <2>1, <2>2, PipelineAssumption DEF Acquire
  <2> QED BY <1>1, <2>3 DEF Acquire, Work, TypeOK, Typed, Waits, Calls
<1>2. CASE Succeed(c)
  <2>1. PICK step \in AfterSuccess[at[c]] : Go(c, step)
    BY <1>2 DEF Succeed
  <2>2. at[c] \in Calls /\ step \in Calls \cup Statuses
    BY <1>2, <2>1, Steps DEF Succeed
  <2> QED BY <1>2, <2>1, <2>2, GoEffect DEF Succeed, Work
<1>3. CASE Fail(c)
  <2>1. PICK step \in AfterFailure[at[c]] : Go(c, step)
    BY <1>3 DEF Fail
  <2>2. at[c] \in Calls /\ step \in Calls \cup Statuses
    BY <1>3, <2>1, Steps DEF Fail
  <2> QED BY <1>3, <2>1, <2>2, GoEffect DEF Fail, Work
<1>4. CASE Panic(c)
  <2>1. panicked' \in [Conn -> BOOLEAN]
    BY <1>4 DEF Panic, TypeOK
  <2> QED BY <1>4, <2>1, LeaveEffect DEF Panic, Work
<1> QED BY <1>1, <1>2, <1>3, <1>4 DEF Work, Handle

(***************************************************************************)
(* Type correctness, except that the gauge never drops below zero.         *)
(***************************************************************************)
GaugelessTypeOK ==
    /\ now \in 0..MaxTime
    /\ at \in [Conn -> Calls \cup {"closed", "new", "idle", "answered", "cut"}]
    /\ kind \in [Conn -> Kinds]
    /\ began \in [Conn -> Nat] /\ since \in [Conn -> Nat]
    /\ Typed
    /\ server \in {"serving", "draining", "closing", "stopped", "killed"}
    /\ signalled \in Nat
    /\ backends \subseteq {"redis", "pool"}

LEMMA TypeStep == TypeOK /\ [Next]_vars => GaugelessTypeOK'
<1> SUFFICES ASSUME TypeOK, [Next]_vars PROVE GaugelessTypeOK'
  OBVIOUS
<1> USE DEF GaugelessTypeOK, Typed, TypeOK
<1>1. ASSUME NEW c \in Conn, Accept(c) PROVE GaugelessTypeOK'
  BY <1>1 DEF Accept, serverVars
<1>2. ASSUME NEW c \in Conn, NEW k \in Kinds, Request(c, k) PROVE GaugelessTypeOK'
  <2>1. /\ at' \in [Conn -> Calls \cup {"closed", "new", "idle", "answered", "cut"}]
        /\ status' \in [Conn -> Statuses \cup {"none"}]
        /\ counted' \in [Conn -> Statuses \cup {"none"}]
        /\ since' \in [Conn -> Nat]
    <3>1. CASE k.endpoint = "options"
      BY <1>2, <3>1 DEF Request, Statuses
    <3>2. CASE k.endpoint # "options"
      <4>1. PICK step \in First[k.endpoint] :
               \/ /\ step \in Calls
                  /\ at' = [at EXCEPT ![c] = step]
                  /\ since' = [since EXCEPT ![c] = now]
                  /\ UNCHANGED <<status, counted>>
               \/ /\ step \in Statuses
                  /\ at' = [at EXCEPT ![c] = "answered"]
                  /\ status' = [status EXCEPT ![c] = step]
                  /\ counted' = [counted EXCEPT ![c] = Recorded(step)]
                  /\ UNCHANGED since
        BY <1>2, <3>2 DEF Request
      <4> QED BY <4>1 DEF Recorded
    <3> QED BY <3>1, <3>2
  <2> QED BY <1>2, <2>1 DEF Request, serverVars
<1>3. ASSUME NEW c \in Conn, Work(c) PROVE GaugelessTypeOK'
  <2>1. /\ at' \in [Conn -> Calls \cup {"closed", "new", "idle", "answered", "cut"}]
        /\ since' \in [Conn -> Nat]
    BY <1>3, WorkEffect DEF Waits, GoesOn, Leaves
  <2> QED BY <1>3, <2>1, WorkEffect DEF serverVars
<1>4. ASSUME NEW c \in Conn, Finish(c) PROVE GaugelessTypeOK'
  BY <1>4, NoKindIsOne DEF Finish, serverVars
<1>5. ASSUME NEW c \in Conn, Drop(c) PROVE GaugelessTypeOK'
  BY <1>5 DEF Drop, serverVars
<1>6. CASE Signal
  BY <1>6 DEF Signal, requestVars
<1>7. CASE Poll
  BY <1>7 DEF Poll
<1>8. CASE Kill
  BY <1>8 DEF Kill
<1>9. CASE CloseBackends
  BY <1>9 DEF CloseBackends, requestVars
<1>10. CASE Tick
  BY <1>10, ServerAssumption DEF Tick, requestVars, serverVars
<1>11. CASE UNCHANGED vars
  BY <1>11 DEF vars, requestVars, serverVars
<1> QED BY <1>1, <1>2, <1>3, <1>4, <1>5, <1>6, <1>7, <1>8, <1>9, <1>10, <1>11
        DEF Next, Serve, ShutDown, Gone

(***************************************************************************)
(* The gauge.                                                              *)
(***************************************************************************)
LEMMA HandledFinite ==
    IsFiniteSet(Handled) /\ Cardinality(Handled) \in Nat
BY PipelineAssumption, FS_Subset, FS_CardinalityType DEF Handled

\* Nothing is in a call in a process that is gone.
LEMMA CallsRun ==
    ASSUME TypeOK, ServerSound, NEW c \in Conn, at[c] \in Calls
    PROVE  Running
BY Places DEF TypeOK, ServerSound, Running

LEMMA GaugeSame ==
    ASSUME GaugeExact, inFlight \in Nat, Handled' = Handled, inFlight' = inFlight,
           Running' => Running
    PROVE  inFlight' \in Nat /\ GaugeExact'
BY DEF GaugeExact

LEMMA GaugeStep == IInv /\ [Next]_vars => inFlight' \in Nat /\ GaugeExact'
<1> DEFINE Goal == inFlight' \in Nat /\ GaugeExact'
<1> SUFFICES ASSUME IInv, [Next]_vars PROVE Goal
  OBVIOUS
<1>0. TypeOK /\ GaugeExact /\ ServerSound /\ inFlight \in Nat
  BY DEF IInv, TypeOK
<1>1. ASSUME NEW c \in Conn, Accept(c) PROVE Goal
  <2>1. Handled' = Handled
    BY <1>0, <1>1, Places DEF Accept, Handled, TypeOK
  <2> QED BY <1>0, <1>1, <2>1, GaugeSame DEF Accept, serverVars, Running
<1>2. ASSUME NEW c \in Conn, NEW k \in Kinds, Request(c, k) PROVE Goal
  <2>0. Running /\ Running' /\ c \notin Handled
    BY <1>2, Places DEF Request, serverVars, Running, Handled
  <2>1. CASE at' = [at EXCEPT ![c] = "answered"] /\ inFlight' = inFlight
    <3>1. Handled' = Handled
      BY <1>0, <2>0, <2>1, Places DEF Handled, TypeOK
    <3> QED BY <1>0, <2>0, <2>1, <3>1, GaugeSame
  <2>2. CASE \E call \in Calls : at' = [at EXCEPT ![c] = call] /\ inFlight' = inFlight + 1
    <3>1. Handled' = Handled \cup {c}
      BY <1>0, <2>2 DEF Handled, TypeOK
    <3>2. Cardinality(Handled') = Cardinality(Handled) + 1
      BY <2>0, <3>1, HandledFinite, FS_AddElement
    <3> QED BY <1>0, <2>0, <2>2, <3>2, HandledFinite DEF GaugeExact
  <2> QED BY <1>2, <2>1, <2>2 DEF Request
<1>3. ASSUME NEW c \in Conn, Work(c) PROVE Goal
  <2>0. Running /\ Running' /\ c \in Handled
    BY <1>0, <1>3, WorkEffect, CallsRun DEF serverVars, Running, Handled
  <2>1. CASE Waits(c)
    BY <1>0, <2>0, <2>1, GaugeSame DEF Waits, Handled
  <2>2. CASE GoesOn(c)
    <3>1. Handled' = Handled
      BY <1>0, <2>0, <2>2 DEF GoesOn, Handled, TypeOK
    <3> QED BY <1>0, <2>0, <2>2, <3>1, GaugeSame DEF GoesOn
  <2>3. CASE Leaves(c)
    <3>1. Handled' = Handled \ {c}
      BY <1>0, <2>3, Places DEF Leaves, Handled, TypeOK
    <3>2. Cardinality(Handled') = Cardinality(Handled) - 1
      BY <2>0, <3>1, HandledFinite, FS_RemoveElement
    <3>3. Cardinality(Handled') \in Nat
      BY <3>1, HandledFinite, FS_Subset, FS_CardinalityType
    <3> QED BY <1>0, <2>0, <2>3, <3>2, <3>3 DEF Leaves, GaugeExact
  <2> QED BY <1>0, <1>3, <2>1, <2>2, <2>3, WorkEffect
<1>4. ASSUME NEW c \in Conn, Finish(c) PROVE Goal
  <2>1. Handled' = Handled
    BY <1>0, <1>4, Places DEF Finish, Handled, TypeOK
  <2> QED BY <1>0, <1>4, <2>1, GaugeSame DEF Finish, serverVars, Running
<1>5. ASSUME NEW c \in Conn, Drop(c) PROVE Goal
  <2>1. Handled' = Handled
    BY <1>0, <1>5, Places DEF Drop, Handled, TypeOK
  <2> QED BY <1>0, <1>5, <2>1, GaugeSame DEF Drop, serverVars, Running
<1>6. CASE Signal
  BY <1>0, <1>6, GaugeSame DEF Signal, requestVars, Running, Handled
<1>7. CASE Poll
  <2>1. Handled' = Handled
    BY <1>0, <1>7, Places DEF Poll, Handled, TypeOK
  <2> QED BY <1>0, <1>7, <2>1, GaugeSame DEF Poll, Running
<1>8. CASE Kill
  BY <1>0, <1>8 DEF Kill, Running, GaugeExact
<1>9. CASE CloseBackends
  BY <1>0, <1>9, GaugeSame DEF CloseBackends, requestVars, Running, Handled
<1>10. CASE Tick
  BY <1>0, <1>10, GaugeSame DEF Tick, requestVars, serverVars, Running, Handled
<1>11. CASE UNCHANGED vars
  BY <1>0, <1>11, GaugeSame DEF vars, requestVars, serverVars, Running, Handled
<1> QED BY <1>1, <1>2, <1>3, <1>4, <1>5, <1>6, <1>7, <1>8, <1>9, <1>10, <1>11
        DEF Next, Serve, ShutDown, Gone

(***************************************************************************)
(* Shutdown: Poll lets main go on only when every connection is closed, so *)
(* nothing is in a call when the deferred calls close the clients.         *)
(***************************************************************************)
LEMMA ServerStep == TypeOK /\ ServerSound /\ [Next]_vars => ServerSound'
<1> SUFFICES ASSUME TypeOK, ServerSound, [Next]_vars PROVE ServerSound'
  OBVIOUS
<1> USE DEF ServerSound
<1>1. ASSUME NEW c \in Conn, Accept(c) PROVE ServerSound'
  BY <1>1 DEF Accept, serverVars
<1>2. ASSUME NEW c \in Conn, NEW k \in Kinds, Request(c, k) PROVE ServerSound'
  <2>1. server \in {"serving", "draining"}
    BY <1>2 DEF Request, Running
  <2> QED BY <1>2, <2>1 DEF Request, serverVars
<1>3. ASSUME NEW c \in Conn, Work(c) PROVE ServerSound'
  <2>1. server \in {"serving", "draining"}
    BY <1>3, WorkEffect, Places DEF TypeOK
  <2> QED BY <1>3, <2>1, WorkEffect DEF serverVars
<1>4. ASSUME NEW c \in Conn, Finish(c) PROVE ServerSound'
  <2>1. server \in {"serving", "draining"}
    BY <1>4 DEF Finish, Running
  <2> QED BY <1>4, <2>1 DEF Finish, serverVars
<1>5. ASSUME NEW c \in Conn, Drop(c) PROVE ServerSound'
  <2>1. server \in {"serving", "draining"}
    BY <1>5 DEF Drop, Running
  <2> QED BY <1>5, <2>1 DEF Drop, serverVars
<1>6. CASE Signal
  BY <1>6 DEF Signal
<1>7. CASE Poll
  <2>1. CASE Quiet
    <3>1. \A c \in Conn : at'[c] = "closed"
      BY <1>7, <2>1 DEF Poll, Quiet, TypeOK
    <3> QED BY <1>7, <2>1, <3>1 DEF Poll
  <2>2. CASE ~Quiet
    BY <1>7, <2>2 DEF Poll
  <2> QED BY <2>1, <2>2
<1>8. CASE Kill
  BY <1>8, Places DEF Kill, TypeOK
<1>9. CASE CloseBackends
  BY <1>9 DEF CloseBackends, requestVars
<1>10. CASE Tick
  BY <1>10 DEF Tick, requestVars, serverVars
<1>11. CASE UNCHANGED vars
  BY <1>11 DEF vars, requestVars, serverVars
<1> QED BY <1>1, <1>2, <1>3, <1>4, <1>5, <1>6, <1>7, <1>8, <1>9, <1>10, <1>11
        DEF Next, Serve, ShutDown, Gone

(***************************************************************************)
(* Time.  A call whose deadline has not come cannot have outlived its      *)
(* request's deadline by more than a Redis call.                           *)
(***************************************************************************)
LEMMA DeadlineBound ==
    ASSUME TypeOK, NEW c \in Conn, at[c] \in Calls, CallOnTime(c), now < CallDeadline(c)
    PROVE  now + 1 <= began[c] + RequestTimeout + RedisTimeout
<1>1. /\ {RequestTimeout, RedisTimeout, QueryTimeout, now, began[c], since[c]} \subseteq Nat
      /\ since[c] <= now
  BY PipelineAssumption, ServerAssumption DEF TypeOK, CallOnTime
<1> QED BY <1>1 DEF CallDeadline, ContextDeadline, Earlier

LEMMA TimeStep == IInv /\ [Next]_vars => TimeSound'
<1> SUFFICES ASSUME IInv, [Next]_vars PROVE TimeSound'
  OBVIOUS
<1>0. /\ TypeOK /\ TimeSound /\ ServerSound
      /\ {now, signalled, RequestTimeout, RedisTimeout, HeaderTimeout} \subseteq Nat
      /\ \A c \in Conn : began[c] \in Nat /\ since[c] \in Nat
  BY PipelineAssumption, ServerAssumption DEF IInv, TypeOK
<1> USE DEF TimeSound, CallOnTime, NewOnTime, StartedInTime
<1>1. ASSUME NEW c \in Conn, Accept(c) PROVE TimeSound'
  BY <1>0, <1>1, Places DEF Accept, serverVars, TypeOK
<1>2. ASSUME NEW c \in Conn, NEW k \in Kinds, Request(c, k) PROVE TimeSound'
  <2>1. server = "draining" => now <= signalled + HeaderTimeout
    BY <1>0, <1>2 DEF Request
  <2>2. \/ at' = [at EXCEPT ![c] = "answered"]
        \/ \E call \in Calls : at' = [at EXCEPT ![c] = call] /\ since' = [since EXCEPT ![c] = now]
    BY <1>2 DEF Request
  <2>3. \A d \in Conn \ {c} : at'[d] = at[d] /\ began'[d] = began[d] /\ since'[d] = since[d]
    BY <1>0, <1>2 DEF Request, TypeOK
  <2>4. /\ UNCHANGED <<now, serverVars>>
        /\ began'[c] = now
        /\ \/ at'[c] = "answered"
           \/ at'[c] \in Calls /\ since'[c] = now
    BY <1>0, <1>2, <2>2 DEF Request, TypeOK
  <2>5. (CallOnTime(c) /\ NewOnTime(c) /\ StartedInTime(c))'
    BY <1>0, <2>1, <2>4, Places DEF serverVars
  <2>6. \A d \in Conn \ {c} : (CallOnTime(d) /\ NewOnTime(d) /\ StartedInTime(d))'
    BY <1>0, <2>3, <2>4 DEF serverVars
  <2> QED BY <1>0, <2>4, <2>5, <2>6 DEF serverVars
<1>3. ASSUME NEW c \in Conn, Work(c) PROVE TimeSound'
  <2>1. /\ at[c] \in Calls /\ UNCHANGED <<now, began, serverVars>>
        /\ Waits(c) \/ GoesOn(c) \/ Leaves(c)
    BY <1>0, <1>3, WorkEffect
  <2>2. \A d \in Conn \ {c} : at'[d] = at[d] /\ since'[d] = since[d]
    BY <1>0, <2>1 DEF Waits, GoesOn, Leaves, TypeOK
  <2>3. \/ at'[c] \in {"answered", "cut"}
        \/ at'[c] \in Calls /\ since'[c] = now
        \/ at'[c] = at[c] /\ since'[c] = since[c]
    BY <1>0, <2>1 DEF Waits, GoesOn, Leaves, TypeOK
  <2>4. (CallOnTime(c) /\ NewOnTime(c) /\ StartedInTime(c))'
    BY <1>0, <2>1, <2>3, Places DEF serverVars
  <2>5. \A d \in Conn \ {c} : (CallOnTime(d) /\ NewOnTime(d) /\ StartedInTime(d))'
    BY <1>0, <2>1, <2>2 DEF serverVars
  <2> QED BY <1>0, <2>1, <2>4, <2>5 DEF serverVars
<1>4. ASSUME NEW c \in Conn, Finish(c) PROVE TimeSound'
  BY <1>0, <1>4, Places DEF Finish, serverVars, TypeOK
<1>5. ASSUME NEW c \in Conn, Drop(c) PROVE TimeSound'
  BY <1>0, <1>5, Places DEF Drop, serverVars, TypeOK
<1>6. CASE Signal
  BY <1>0, <1>6, Places DEF Signal, requestVars
<1>7. CASE Poll
  BY <1>0, <1>7, Places DEF Poll, TypeOK
<1>8. CASE Kill
  BY <1>0, <1>8, Places DEF Kill, TypeOK
<1>9. CASE CloseBackends
  BY <1>0, <1>9 DEF CloseBackends, requestVars
<1>10. CASE Tick
  <2>1. \A c \in Conn : at[c] \in Calls => now + 1 <= began[c] + RequestTimeout + RedisTimeout
    BY <1>0, <1>10, DeadlineBound DEF Tick
  <2> QED BY <1>0, <1>10, <2>1 DEF Tick, requestVars, serverVars
<1>11. CASE UNCHANGED vars
  BY <1>0, <1>11 DEF vars, requestVars, serverVars
<1> QED BY <1>1, <1>2, <1>3, <1>4, <1>5, <1>6, <1>7, <1>8, <1>9, <1>10, <1>11
        DEF Next, Serve, ShutDown, Gone

LEMMA InitIInv == Init => IInv
<1> SUFFICES ASSUME Init PROVE IInv
  OBVIOUS
<1>1. TypeOK
  <2>1. Cardinality({}) = 0
    BY FS_EmptySet
  <2> QED BY <2>1, NoKindIsOne, PipelineAssumption, ServerAssumption DEF Init, TypeOK
<1>2. GaugeExact
  <2>1. Handled = {}
    BY Places DEF Init, Handled
  <2> QED BY <2>1, FS_EmptySet DEF Init, GaugeExact
<1>3. ServerSound
  BY DEF Init, ServerSound
<1>4. TimeSound
  BY Places DEF Init, TimeSound, CallOnTime, NewOnTime, StartedInTime
<1> QED BY <1>1, <1>2, <1>3, <1>4 DEF IInv

LEMMA IInvStep == IInv /\ [Next]_vars => IInv'
<1> SUFFICES ASSUME IInv, [Next]_vars PROVE IInv'
  OBVIOUS
<1>1. TypeOK'
  BY TypeStep, GaugeStep DEF IInv, GaugelessTypeOK, Typed, TypeOK
<1> QED BY <1>1, GaugeStep, ServerStep, TimeStep DEF IInv

THEOREM InvariantHolds == Spec => []IInv
BY InitIInv, IInvStep, PTL DEF Spec

(***************************************************************************)
(* Every variable has its type: in particular the gauge is never negative, *)
(* and the pool never gives out more connections than it has.              *)
(***************************************************************************)
THEOREM TypeCorrect == Spec => []TypeOK
<1>1. IInv => TypeOK
  BY DEF IInv
<1> QED BY <1>1, InvariantHolds, PTL

(***************************************************************************)
(* The in-flight gauge counts the requests being handled, whatever panics. *)
(***************************************************************************)
THEOREM GaugeIsExact == Spec => []GaugeExact
<1>1. IInv => GaugeExact
  BY DEF IInv
<1> QED BY <1>1, InvariantHolds, PTL

(***************************************************************************)
(* main closes Redis and the pool only when no handler can use them.       *)
(***************************************************************************)
THEOREM BackendsStayOpen == Spec => []BackendsOpen
<1>1. IInv => BackendsOpen
  BY Places DEF IInv, TypeOK, ServerSound, BackendsOpen, Calls
<1> QED BY <1>1, InvariantHolds, PTL

(***************************************************************************)
(* With room between the timeouts no request is left without an answer.    *)
(***************************************************************************)
\* Shutdown's deadline comes when every call has ended.
LEMMA KillFindsNoCalls ==
    ASSUME RoomToFinish, IInv, Kill, NEW c \in Conn PROVE at[c] \notin Calls
<1>0. /\ TypeOK /\ TimeSound
      /\ {now, signalled, RequestTimeout, RedisTimeout, HeaderTimeout, Grace} \subseteq Nat
      /\ began[c] \in Nat
  BY PipelineAssumption, ServerAssumption DEF IInv, TypeOK
<1> SUFFICES ASSUME at[c] \in Calls PROVE FALSE
  OBVIOUS
<1>1. now <= began[c] + RequestTimeout + RedisTimeout
  BY <1>0 DEF TimeSound, CallOnTime
<1>2. began[c] <= signalled + HeaderTimeout
  BY <1>0 DEF TimeSound, StartedInTime, Kill
<1> QED BY <1>0, <1>1, <1>2 DEF Kill, RoomToFinish

LEMMA NoneCutStep == NoneCut /\ IInv /\ [Next]_vars => NoneCut'
<1> SUFFICES ASSUME RoomToFinish, NoneCut, IInv, [Next]_vars
             PROVE  \A c \in Conn : at'[c] # "cut"
  BY DEF NoneCut, RoomToFinish
<1>0. /\ TypeOK /\ TimeSound
      /\ \A c \in Conn : at[c] # "cut"
      /\ {now, signalled, RequestTimeout, RedisTimeout, HeaderTimeout, WriteTimeout, Grace}
             \subseteq Nat
      /\ \A c \in Conn : began[c] \in Nat
  BY PipelineAssumption, ServerAssumption DEF IInv, TypeOK, NoneCut
<1> USE Places
<1>1. ASSUME NEW c \in Conn, Accept(c) PROVE \A d \in Conn : at'[d] # "cut"
  BY <1>0, <1>1 DEF Accept, TypeOK
<1>2. ASSUME NEW c \in Conn, NEW k \in Kinds, Request(c, k)
      PROVE  \A d \in Conn : at'[d] # "cut"
  <2>1. \/ at' = [at EXCEPT ![c] = "answered"]
        \/ \E call \in Calls : at' = [at EXCEPT ![c] = call]
    BY <1>2 DEF Request
  <2> QED BY <1>0, <2>1 DEF TypeOK
<1>3. ASSUME NEW c \in Conn, Work(c) PROVE \A d \in Conn : at'[d] # "cut"
  <2>1. at[c] \in Calls /\ (Waits(c) \/ GoesOn(c) \/ Leaves(c))
    BY <1>0, <1>3, WorkEffect
  <2>2. now < began[c] + WriteTimeout
    BY <1>0, <2>1 DEF TimeSound, CallOnTime, RoomToFinish
  <2> QED BY <1>0, <2>1, <2>2 DEF Waits, GoesOn, Leaves, TypeOK
<1>4. ASSUME NEW c \in Conn, Finish(c) PROVE \A d \in Conn : at'[d] # "cut"
  BY <1>0, <1>4 DEF Finish, TypeOK
<1>5. ASSUME NEW c \in Conn, Drop(c) PROVE \A d \in Conn : at'[d] # "cut"
  BY <1>0, <1>5 DEF Drop, TypeOK
<1>6. CASE Poll
  BY <1>0, <1>6 DEF Poll, TypeOK
<1>7. CASE Kill
  <2>1. \A c \in Conn : at[c] \notin Calls
    BY <1>7, KillFindsNoCalls
  <2> QED BY <1>0, <1>7, <2>1 DEF Kill
<1>8. CASE Signal \/ CloseBackends \/ Tick \/ UNCHANGED vars
  BY <1>0, <1>8 DEF Signal, CloseBackends, Tick, vars, requestVars
<1> QED BY <1>1, <1>2, <1>3, <1>4, <1>5, <1>6, <1>7, <1>8 DEF Next, Serve, ShutDown, Gone

THEOREM NobodyIsCut == Spec => []NoneCut
<1>1. Init => NoneCut
  BY DEF Init, NoneCut
<1> QED BY <1>1, NoneCutStep, InvariantHolds, PTL DEF Spec

-----------------------------------------------------------------------------
(* The way back of an answer: a status the handler wrote goes through every *)
(* middleware unchanged, to the counter and to the client.                  *)

\* CountedAsAnswered, of one connection.
Tallied(c) ==
    at[c] = "answered" /\ ~panicked[c] /\ kind[c].endpoint # "options" => counted[c] = status[c]

LEMMA LeaveCounts ==
    ASSUME TypeOK, NEW c \in Conn, NEW s \in Statuses, Leave(c, s)
    PROVE  counted'[c] = status'[c]
<1>1. s # "none"
  BY DEF Statuses
<1>2. Recovered(TimedOut(c, GzipClosed(c, s))) = s
  BY <1>1 DEF Recovered, TimedOut, GzipClosed
<1> QED BY <1>2 DEF Leave, Recorded, TypeOK

\* A step on another connection does not touch it.
LEMMA TalliedStays ==
    ASSUME NEW c \in Conn, Tallied(c), at'[c] = at[c] \/ at'[c] # "answered",
           panicked'[c] = panicked[c], kind'[c] = kind[c], counted'[c] = counted[c],
           status'[c] = status[c]
    PROVE  Tallied(c)'
BY DEF Tallied

LEMMA GoTallied ==
    ASSUME TypeOK, NEW c \in Conn, NEW step \in Calls \cup Statuses, Go(c, step)
    PROVE  Tallied(c)'
<1>1. CASE step \in Statuses
  <2>1. Leave(c, step)
    BY <1>1 DEF Go
  <2> QED BY <1>1, <2>1, LeaveCounts DEF Tallied
<1>2. CASE step \in Calls
  <2>1. at'[c] = step
    BY <1>2, Places DEF Go, TypeOK
  <2> QED BY <1>2, <2>1, Places DEF Tallied
<1> QED BY <1>1, <1>2

LEMMA TalliedWork ==
    ASSUME TypeOK, NEW c \in Conn, Tallied(c), Work(c) PROVE Tallied(c)'
<1>1. CASE Acquire(c)
  BY <1>1, TalliedStays DEF Acquire
<1>2. CASE Succeed(c)
  <2>1. PICK step \in AfterSuccess[at[c]] : Go(c, step)
    BY <1>2 DEF Succeed
  <2> QED BY <1>2, <2>1, Steps, GoTallied DEF Succeed
<1>3. CASE Fail(c)
  <2>1. PICK step \in AfterFailure[at[c]] : Go(c, step)
    BY <1>3 DEF Fail
  <2> QED BY <1>3, <2>1, Steps, GoTallied DEF Fail
<1>4. CASE Panic(c)
  <2>1. panicked'[c] = TRUE
    BY <1>4 DEF Panic, TypeOK
  <2> QED BY <2>1 DEF Tallied
<1> QED BY <1>1, <1>2, <1>3, <1>4 DEF Work, Handle

LEMMA WorkElsewhere ==
    ASSUME TypeOK, NEW c \in Conn, NEW d \in Conn, d # c, Work(d), Tallied(c)
    PROVE  Tallied(c)'
<1>1. /\ at'[c] = at[c] /\ counted'[c] = counted[c] /\ status'[c] = status[c]
      /\ panicked'[c] = panicked[c] /\ kind' = kind
  BY DEF Work, Handle, Acquire, Succeed, Fail, Panic, Go, Leave, TypeOK
<1> QED BY <1>1, TalliedStays

LEMMA TalliedStep ==
    ASSUME TypeOK, NEW c \in Conn, Tallied(c), [Next]_vars PROVE Tallied(c)'
<1>1. ASSUME NEW d \in Conn, Accept(d) \/ Drop(d) PROVE Tallied(c)'
  <2>1. at'[c] = at[c] \/ at'[c] # "answered"
    BY <1>1 DEF Accept, Drop, TypeOK
  <2> QED BY <1>1, <2>1, TalliedStays DEF Accept, Drop
<1>2. ASSUME NEW d \in Conn, NEW k \in Kinds, Request(d, k) PROVE Tallied(c)'
  <2>1. CASE d = c
    <3>1. kind'[c] = k
      BY <1>2, <2>1 DEF Request, TypeOK
    <3>2. CASE k.endpoint = "options"
      BY <3>1, <3>2 DEF Tallied
    <3>3. ASSUME NEW step \in Calls, at' = [at EXCEPT ![c] = step] PROVE Tallied(c)'
      <4>1. at'[c] = step
        BY <3>3 DEF TypeOK
      <4> QED BY <4>1, Places DEF Tallied
    <3>4. ASSUME NEW step \in Statuses, status' = [status EXCEPT ![c] = step],
                 counted' = [counted EXCEPT ![c] = Recorded(step)]
          PROVE  Tallied(c)'
      BY <3>4 DEF Recorded, Tallied, TypeOK
    <3> QED BY <1>2, <2>1, <3>2, <3>3, <3>4 DEF Request
  <2>2. CASE d # c
    <3>1. at'[c] = at[c] /\ kind'[c] = kind[c] /\ status'[c] = status[c] /\ counted'[c] = counted[c]
      BY <1>2, <2>2 DEF Request, TypeOK
    <3> QED BY <1>2, <3>1, TalliedStays DEF Request
  <2> QED BY <2>1, <2>2
<1>3. ASSUME NEW d \in Conn, Work(d) PROVE Tallied(c)'
  BY <1>3, TalliedWork, WorkElsewhere
<1>4. ASSUME NEW d \in Conn, Finish(d) PROVE Tallied(c)'
  <2>1. CASE d = c
    <3>1. at'[c] # "answered"
      BY <1>4, <2>1 DEF Finish, TypeOK
    <3> QED BY <3>1 DEF Tallied
  <2>2. CASE d # c
    BY <1>4, <2>2, TalliedStays DEF Finish, TypeOK
  <2> QED BY <2>1, <2>2
<1>5. CASE Poll \/ Kill
  <2>1. at'[c] = at[c] \/ at'[c] # "answered"
    BY <1>5 DEF Poll, Kill, TypeOK
  <2> QED BY <1>5, <2>1, TalliedStays DEF Poll, Kill
<1>6. CASE UNCHANGED requestVars
  BY <1>6, TalliedStays DEF requestVars
<1>7. Signal \/ CloseBackends \/ Gone \/ Tick \/ UNCHANGED vars => UNCHANGED requestVars
  BY DEF Signal, CloseBackends, Gone, Tick, vars
<1> QED BY <1>1, <1>2, <1>3, <1>4, <1>5, <1>6, <1>7 DEF Next, Serve, ShutDown

(***************************************************************************)
(* A request that reached its handler is counted under the status its      *)
(* client saw, unless the handler panicked (MetricsMiddleware, Recoverer,  *)
(* middleware.Timeout, GzipMiddleware).                                    *)
(***************************************************************************)
THEOREM CountsAgree == Spec => []CountedAsAnswered
<1> DEFINE AllTallied == \A c \in Conn : Tallied(c)
<1>1. Init => AllTallied
  BY DEF Init, Tallied
<1>2. TypeOK /\ AllTallied /\ [Next]_vars => AllTallied'
  BY TalliedStep
<1>3. AllTallied <=> CountedAsAnswered
  BY DEF Tallied, CountedAsAnswered
<1> HIDE DEF AllTallied
<1> QED BY <1>1, <1>2, <1>3, TypeCorrect, PTL DEF Spec

-----------------------------------------------------------------------------
(* What a client may count on.                                              *)

(***************************************************************************)
(* A request is worked on no longer than REQUEST_TIMEOUT and a Redis call, *)
(* whatever the timeouts are and however many wait for the pool.           *)
(***************************************************************************)
THEOREM WorkIsBounded == Spec => []WorkEnds
<1>1. IInv => WorkEnds
  BY DEF IInv, TimeSound, CallOnTime, WorkEnds
<1> QED BY <1>1, InvariantHolds, PTL

\* PlainPanicIs500, of one connection.
Recovers(c) ==
    at[c] = "answered" /\ panicked[c] /\ ~kind[c].gzip /\ now < ContextDeadline(c) =>
        status[c] = "500"

\* A request in a call has not panicked; one that panicked was not answered
\* before.
Fresh(c) == at[c] \notin {"answered", "cut"} => ~panicked[c]

LEMMA RecoversStays ==
    ASSUME TypeOK, NEW c \in Conn, Recovers(c), Fresh(c),
           at'[c] = at[c] \/ at'[c] # "answered", at[c] \in {"answered", "cut"} => at'[c] = at[c],
           panicked'[c] = panicked[c], kind'[c] = kind[c], status'[c] = status[c],
           began'[c] = began[c], now' \in Nat, now <= now'
    PROVE  Recovers(c)' /\ Fresh(c)'
<1>1. Fresh(c)'
  BY DEF Fresh
<1>2. ContextDeadline(c)' = ContextDeadline(c)
  BY DEF ContextDeadline
<1>3. now \in Nat /\ ContextDeadline(c) \in Nat
  BY PipelineAssumption, ServerAssumption DEF TypeOK, ContextDeadline
<1>4. now' < ContextDeadline(c)' => now < ContextDeadline(c)
  BY <1>2, <1>3
<1> QED BY <1>1, <1>4 DEF Recovers

\* A request that did not panic so far has nothing to recover from.
LEMMA NothingToRecover ==
    ASSUME NEW c \in Conn, panicked'[c] = FALSE PROVE Recovers(c)' /\ Fresh(c)'
BY DEF Recovers, Fresh

LEMMA PanicRecovers ==
    ASSUME TypeOK, NEW c \in Conn, Panic(c), now' = now PROVE Recovers(c)' /\ Fresh(c)'
<1>1. at'[c] \in {"answered", "cut"}
  BY DEF Panic, Leave, TypeOK
<1>2. ~kind[c].gzip /\ now < ContextDeadline(c) =>
          Recovered(TimedOut(c, GzipClosed(c, "none"))) = "500"
  <2>1. now \in Nat /\ ContextDeadline(c) \in Nat
    BY PipelineAssumption, ServerAssumption DEF TypeOK, ContextDeadline
  <2> QED BY <2>1 DEF Recovered, TimedOut, GzipClosed
<1>3. status'[c] = Recovered(TimedOut(c, GzipClosed(c, "none")))
  BY DEF Panic, Leave, TypeOK
<1>4. kind' = kind /\ ContextDeadline(c)' = ContextDeadline(c)
  BY DEF Panic, ContextDeadline
<1> QED BY <1>1, <1>2, <1>3, <1>4 DEF Recovers, Fresh

LEMMA RecoversWork ==
    ASSUME TypeOK, NEW c \in Conn, Recovers(c), Fresh(c), Work(c)
    PROVE  Recovers(c)' /\ Fresh(c)'
<1>1. at[c] \in Calls /\ panicked[c] = FALSE
  BY WorkEffect, Places DEF Fresh, TypeOK
<1>2. CASE Panic(c)
  BY <1>2, PanicRecovers DEF Work
<1>3. CASE Acquire(c) \/ Succeed(c) \/ Fail(c)
  <2>1. panicked' = panicked
    BY <1>3 DEF Acquire, Succeed, Fail
  <2> QED BY <1>1, <2>1, NothingToRecover
<1> QED BY <1>2, <1>3 DEF Work, Handle

LEMMA RecoversStep ==
    ASSUME TypeOK, TypeOK', NEW c \in Conn, Recovers(c), Fresh(c), [Next]_vars
    PROVE  Recovers(c)' /\ Fresh(c)'
<1>0. now \in Nat /\ now' \in Nat
  BY ServerAssumption DEF TypeOK
<1>1. ASSUME NEW d \in Conn, Accept(d) \/ Drop(d) PROVE Recovers(c)' /\ Fresh(c)'
  <2>1. /\ at'[c] = at[c] \/ at'[c] \in {"new", "closed"}
        /\ at[c] \in {"answered", "cut"} => at'[c] = at[c]
    BY <1>1 DEF Accept, Drop, TypeOK
  <2> QED BY <1>0, <1>1, <2>1, RecoversStays DEF Accept, Drop
<1>2. ASSUME NEW d \in Conn, NEW k \in Kinds, Request(d, k) PROVE Recovers(c)' /\ Fresh(c)'
  <2>1. CASE d = c
    <3>1. panicked'[c] = FALSE
      BY <1>2, <2>1 DEF Request, Fresh, TypeOK
    <3> QED BY <3>1, NothingToRecover
  <2>2. CASE d # c
    <3>1. /\ at'[c] = at[c] /\ kind'[c] = kind[c] /\ began'[c] = began[c]
          /\ status'[c] = status[c]
      BY <1>2, <2>2 DEF Request, TypeOK
    <3> QED BY <1>0, <1>2, <3>1, RecoversStays DEF Request
  <2> QED BY <2>1, <2>2
<1>3. ASSUME NEW d \in Conn, Work(d) PROVE Recovers(c)' /\ Fresh(c)'
  <2>1. CASE d = c
    BY <1>3, <2>1, RecoversWork
  <2>2. CASE d # c
    <3>1. /\ at'[c] = at[c] /\ status'[c] = status[c] /\ panicked'[c] = panicked[c]
          /\ kind' = kind /\ began' = began /\ now' = now
      BY <1>3, <2>2 DEF Work, Handle, Acquire, Succeed, Fail, Panic, Go, Leave, TypeOK
    <3> QED BY <1>0, <3>1, RecoversStays
  <2> QED BY <2>1, <2>2
<1>4. ASSUME NEW d \in Conn, Finish(d) PROVE Recovers(c)' /\ Fresh(c)'
  <2>1. CASE d = c
    <3>1. panicked'[c] = FALSE
      BY <1>4, <2>1 DEF Finish, TypeOK
    <3> QED BY <3>1, NothingToRecover
  <2>2. CASE d # c
    <3>1. at'[c] = at[c] /\ kind'[c] = kind[c] /\ now' = now
      BY <1>4, <2>2 DEF Finish, TypeOK
    <3>2. panicked'[c] = panicked[c]
      BY <1>4, <2>2 DEF Finish, TypeOK
    <3>3. began'[c] = began[c] /\ status'[c] = status[c]
      BY <1>4, <2>2 DEF Finish, TypeOK
    <3> QED BY <1>0, <3>1, <3>2, <3>3, RecoversStays
  <2> QED BY <2>1, <2>2
<1>5. CASE Poll \/ Kill
  <2>1. /\ at'[c] = at[c] \/ at'[c] \in {"closed", "cut"}
        /\ at[c] \in {"answered", "cut"} => at'[c] = at[c]
    BY <1>5, Places DEF Poll, Kill, TypeOK
  <2>2. UNCHANGED <<now, kind, began, status, panicked>>
    BY <1>5 DEF Poll, Kill
  <2> QED BY <1>0, <2>1, <2>2, RecoversStays
<1>6. CASE UNCHANGED requestVars /\ now <= now'
  BY <1>0, <1>6, RecoversStays DEF requestVars
<1>7. Signal \/ CloseBackends \/ Gone \/ Tick \/ UNCHANGED vars
          => UNCHANGED requestVars /\ now <= now'
  BY <1>0 DEF Signal, CloseBackends, Gone, Tick, vars
<1> QED BY <1>1, <1>2, <1>3, <1>4, <1>5, <1>6, <1>7 DEF Next, Serve, ShutDown

(***************************************************************************)
(* A handler's panic is the documented INTERNAL_ERROR to every client that *)
(* does not take gzip (PanicIsInternalError, which asks it for all, fails  *)
(* only for those that do).                                                *)
(***************************************************************************)
THEOREM PlainPanicsAnswered500 == Spec => []PlainPanicIs500
<1> DEFINE AllRecover == \A c \in Conn : Recovers(c) /\ Fresh(c)
<1>1. Init => AllRecover
  BY DEF Init, Recovers, Fresh
<1>2. TypeOK /\ TypeOK' /\ AllRecover /\ [Next]_vars => AllRecover'
  BY RecoversStep
<1>3. AllRecover => PlainPanicIs500
  BY DEF Recovers, PlainPanicIs500
<1> HIDE DEF AllRecover
<1> QED BY <1>1, <1>2, <1>3, TypeCorrect, PTL DEF Spec

-----------------------------------------------------------------------------
(* The process is a GracefulServer: with room between the timeouts each of  *)
(* its steps is one of that specification's, or none.                       *)

Simulates == [Graceful!Next]_Graceful!vars

\* A step that changes nothing the abstract server shows.
LEMMA Unseen ==
    ASSUME UNCHANGED <<now, signalled>>, Life' = Life, Stage' = Stage, Taken' = Taken
    PROVE  Simulates
BY DEF Simulates, Graceful!vars

\* Connections in the same place, with the same request, look the same.
LEMMA SameStage ==
    ASSUME \A c \in Conn : \/ at'[c] = at[c]
                           \/ {at[c], at'[c]} \subseteq Calls
                           \/ {at[c], at'[c]} \cap (Calls \cup {"answered"}) = {},
           \A c \in Conn : at[c] \in Calls => began'[c] = began[c]
    PROVE  Stage' = Stage /\ Taken' = Taken
<1>1. \A c \in Conn : at'[c] \in Calls <=> at[c] \in Calls
  OBVIOUS
<1>2. \A c \in Conn : at'[c] = "answered" <=> at[c] = "answered"
  BY Places
<1> QED BY <1>1, <1>2 DEF Stage, Taken

LEMMA StageStep ==
    ASSUME NEW c \in Conn, NEW b, NEW t,
           \A d \in Conn \ {c} : at'[d] = at[d] /\ (at[d] \in Calls => began'[d] = began[d]),
           b = IF at'[c] \in Calls THEN "taken"
               ELSE IF at'[c] = "answered" THEN "answered" ELSE "none",
           t = IF at'[c] \in Calls THEN began'[c] ELSE 0
    PROVE  Stage' = [Stage EXCEPT ![c] = b] /\ Taken' = [Taken EXCEPT ![c] = t]
BY DEF Stage, Taken

\* What the abstract server shows of a connection.
LEMMA StageOf ==
    ASSUME TypeOK, NEW c \in Conn
    PROVE  /\ at[c] \in Calls => Stage[c] = "taken" /\ Taken[c] = began[c]
           /\ at[c] = "answered" => Stage[c] = "answered" /\ Taken[c] = 0
           /\ at[c] \notin Calls \cup {"answered"} => Stage[c] = "none" /\ Taken[c] = 0
           /\ Stage[c] = "taken" <=> at[c] \in Calls
           /\ Taken \in [Conn -> Nat]
BY Places DEF Stage, Taken, TypeOK

LEMMA RequestRefined ==
    ASSUME IInv, NEW c \in Conn, NEW k \in Kinds, Request(c, k) PROVE Simulates
<1>0. /\ TypeOK /\ ServerSound /\ TimeSound
      /\ {now, signalled, since[c], HeaderTimeout} \subseteq Nat
  BY ServerAssumption DEF IInv, TypeOK
<1>1. Graceful!MayTake
  <2>1. server \in {"serving", "draining"}
    BY <1>0 DEF Request, Running, ServerSound
  <2>2. server = "draining" => now <= signalled + HeaderTimeout
    BY <1>0 DEF Request, TimeSound, NewOnTime, StartedInTime
  <2> QED BY <2>1, <2>2 DEF Graceful!MayTake, Life
<1>2. Stage[c] = "none" /\ Taken[c] = 0
  BY <1>0, StageOf, Places DEF Request
<1>3. /\ UNCHANGED <<now, signalled>> /\ Life' = Life
      /\ \A d \in Conn \ {c} : at'[d] = at[d] /\ began'[d] = began[d]
      /\ began'[c] = now
  BY <1>0 DEF Request, serverVars, Life, TypeOK
<1>4. CASE at'[c] \in Calls
  <2>1. /\ Stage' = [Stage EXCEPT ![c] = "taken"]
        /\ Taken' = [Taken EXCEPT ![c] = now]
    BY <1>3, <1>4, StageStep
  <2>2. Graceful!Take(c)
    BY <1>1, <1>2, <1>3, <2>1 DEF Graceful!Take
  <2> QED BY <2>2 DEF Simulates, Graceful!Next
<1>5. CASE at'[c] = "answered"
  <2>1. /\ Stage' = [Stage EXCEPT ![c] = "answered"]
        /\ Taken' = [Taken EXCEPT ![c] = 0]
    BY <1>3, <1>5, Places, StageStep
  <2>2. Taken' = Taken
    BY <1>0, <1>2, <2>1, StageOf
  <2>3. Graceful!AnswerAtOnce(c)
    BY <1>1, <1>2, <1>3, <2>1, <2>2 DEF Graceful!AnswerAtOnce
  <2> QED BY <2>3 DEF Simulates, Graceful!Next
<1>6. at'[c] \in Calls \/ at'[c] = "answered"
  <2>1. \/ at' = [at EXCEPT ![c] = "answered"]
        \/ \E call \in Calls : at' = [at EXCEPT ![c] = call]
    BY DEF Request
  <2> QED BY <1>0, <2>1 DEF TypeOK
<1> QED BY <1>4, <1>5, <1>6

LEMMA WorkRefined ==
    ASSUME RoomToFinish, IInv, NEW c \in Conn, Work(c) PROVE Simulates
<1>0. TypeOK /\ ServerSound /\ TimeSound
  BY DEF IInv
<1>1. /\ at[c] \in Calls /\ (Waits(c) \/ GoesOn(c) \/ Leaves(c))
      /\ UNCHANGED <<now, began, signalled>> /\ Life' = Life
  BY <1>0, WorkEffect DEF serverVars, Life
<1>2. CASE Waits(c) \/ GoesOn(c)
  <2>1. \A d \in Conn : at'[d] = at[d] \/ {at[d], at'[d]} \subseteq Calls
    BY <1>0, <1>1, <1>2 DEF Waits, GoesOn, TypeOK
  <2>2. Stage' = Stage /\ Taken' = Taken
    BY <1>1, <2>1, SameStage
  <2> QED BY <1>1, <2>2, Unseen
<1>3. CASE Leaves(c)
  <2>1. now < began[c] + WriteTimeout
    <3>1. {now, RequestTimeout, RedisTimeout, WriteTimeout} \subseteq Nat /\ began[c] \in Nat
      BY <1>0, PipelineAssumption, ServerAssumption DEF TypeOK
    <3> QED BY <1>0, <1>1, <3>1 DEF TimeSound, CallOnTime, RoomToFinish
  <2>2. at'[c] = "answered" /\ \A d \in Conn \ {c} : at'[d] = at[d]
    BY <1>0, <1>3, <2>1 DEF Leaves, TypeOK
  <2>3. /\ Stage' = [Stage EXCEPT ![c] = "answered"]
        /\ Taken' = [Taken EXCEPT ![c] = 0]
    BY <1>1, <2>2, Places, StageStep
  <2>4. Life # "gone" /\ Stage[c] = "taken"
    BY <1>0, <1>1, StageOf, Places DEF Life, ServerSound, TypeOK
  <2>5. Graceful!Answer(c)
    BY <1>1, <2>3, <2>4 DEF Graceful!Answer
  <2> QED BY <2>5 DEF Simulates, Graceful!Next
<1> QED BY <1>1, <1>2, <1>3

LEMMA FinishRefined ==
    ASSUME RoomToFinish, IInv, NoneCut, NEW c \in Conn, Finish(c) PROVE Simulates
<1>0. TypeOK /\ at[c] = "answered"
  BY DEF IInv, NoneCut, Finish
<1>1. /\ at'[c] \in {"idle", "closed"}
      /\ \A d \in Conn \ {c} : at'[d] = at[d] /\ began'[d] = began[d]
      /\ UNCHANGED <<now, signalled>> /\ Life' = Life
  BY <1>0 DEF Finish, serverVars, Life, TypeOK
<1>2. /\ Stage' = [Stage EXCEPT ![c] = "none"]
      /\ Taken' = [Taken EXCEPT ![c] = 0]
  BY <1>1, Places, StageStep
<1>3. Stage[c] = "answered" /\ Taken' = Taken
  BY <1>0, <1>2, StageOf
<1>4. Graceful!Free(c)
  BY <1>1, <1>2, <1>3 DEF Graceful!Free
<1> QED BY <1>4 DEF Simulates, Graceful!Next

LEMMA PollRefined ==
    ASSUME IInv, Poll PROVE Simulates
<1>0. TypeOK
  BY DEF IInv
<1>1. \A c \in Conn : at'[c] = at[c] \/ (at[c] = "idle" /\ at'[c] = "closed")
  BY <1>0 DEF Poll, TypeOK
<1>2. Stage' = Stage /\ Taken' = Taken
  BY <1>1, Places, SameStage DEF Poll
<1>3. CASE Quiet
  <2>1. \A c \in Conn : Stage[c] # "taken"
    BY <1>0, <1>3, StageOf, Places DEF Quiet
  <2>2. Graceful!Go
    BY <1>2, <1>3, <2>1 DEF Poll, Graceful!Go, Life
  <2> QED BY <2>2 DEF Simulates, Graceful!Next
<1>4. CASE ~Quiet
  BY <1>2, <1>4, Unseen DEF Poll, Life
<1> QED BY <1>3, <1>4

LEMMA KillRefined ==
    ASSUME RoomToFinish, IInv, Kill PROVE Simulates
<1>0. TypeOK
  BY DEF IInv
<1>1. \A c \in Conn : at[c] \notin Calls
  BY KillFindsNoCalls
<1>2. \A c \in Conn : at'[c] = at[c]
  BY <1>0, <1>1 DEF Kill, TypeOK
<1>3. Stage' = Stage /\ Taken' = Taken
  BY <1>1, <1>2, SameStage
<1>4. \A c \in Conn : Stage[c] # "taken"
  BY <1>0, <1>1, StageOf
<1>5. Graceful!Go
  BY <1>3, <1>4 DEF Kill, Graceful!Go, Life
<1> QED BY <1>5 DEF Simulates, Graceful!Next

LEMMA TickRefined ==
    ASSUME IInv, Tick PROVE Simulates
<1>0. TypeOK /\ TimeSound
  BY DEF IInv
<1>1. Stage' = Stage /\ Taken' = Taken /\ Life' = Life /\ signalled' = signalled
  BY DEF Tick, requestVars, serverVars, Stage, Taken, Life
<1>2. \A c \in Conn : Stage[c] = "taken" => now < Taken[c] + (RequestTimeout + RedisTimeout)
  <2> SUFFICES ASSUME NEW c \in Conn, at[c] \in Calls
               PROVE  now < began[c] + (RequestTimeout + RedisTimeout)
    BY <1>0, StageOf
  <2>1. now + 1 <= began[c] + RequestTimeout + RedisTimeout
    BY <1>0, DeadlineBound DEF Tick, TimeSound
  <2>2. {now, began[c], RequestTimeout, RedisTimeout} \subseteq Nat
    BY <1>0, PipelineAssumption, ServerAssumption DEF TypeOK
  <2> QED BY <2>1, <2>2
<1>3. Life = "leaving" => now < signalled + Grace
  BY DEF Tick, Life
<1>4. Graceful!Tick
  BY <1>1, <1>2, <1>3 DEF Tick, Graceful!Tick
<1> QED BY <1>4 DEF Simulates, Graceful!Next

LEMMA ServerStepRefined ==
    ASSUME RoomToFinish, IInv, NoneCut, [Next]_vars PROVE Simulates
<1>0. TypeOK
  BY DEF IInv
<1>1. ASSUME NEW c \in Conn, Accept(c) \/ Drop(c) PROVE Simulates
  <2>1. \A d \in Conn :
            at'[d] = at[d] \/ {at[d], at'[d]} \subseteq {"closed", "new", "idle"}
    BY <1>0, <1>1 DEF Accept, Drop, TypeOK
  <2>2. UNCHANGED <<now, signalled, began>> /\ Life' = Life
    BY <1>1 DEF Accept, Drop, serverVars, Life
  <2>3. Stage' = Stage /\ Taken' = Taken
    BY <2>1, <2>2, Places, SameStage
  <2> QED BY <2>2, <2>3, Unseen
<1>2. CASE Signal
  <2>1. Stage' = Stage /\ Taken' = Taken
    BY <1>2 DEF Signal, requestVars, Stage, Taken
  <2>2. Graceful!Order
    BY <1>2, <2>1 DEF Signal, Graceful!Order, Life
  <2> QED BY <2>2 DEF Simulates, Graceful!Next
<1>3. CASE CloseBackends \/ UNCHANGED vars
  <2>1. Stage' = Stage /\ Taken' = Taken
    BY <1>3 DEF CloseBackends, vars, requestVars, Stage, Taken
  <2>2. UNCHANGED <<now, signalled>> /\ Life' = Life
    BY <1>3 DEF CloseBackends, vars, serverVars, Life
  <2> QED BY <2>1, <2>2, Unseen
<1> QED BY <1>1, <1>2, <1>3, RequestRefined, WorkRefined, FinishRefined, PollRefined,
           KillRefined, TickRefined
        DEF Next, Serve, ShutDown, Gone

(***************************************************************************)
(* With room between the timeouts the process of cmd/api is a graceful     *)
(* server: it answers every request it takes, each within REQUEST_TIMEOUT  *)
(* and a Redis call; after the signal it takes none later than a header    *)
(* timeout; and it is gone, owing no answer, by the deadline of Shutdown.  *)
(***************************************************************************)
THEOREM RefinesGracefulServer == RoomToFinish => (Spec => ServesGracefully)
<1> SUFFICES ASSUME RoomToFinish PROVE Spec => Graceful!Spec
  BY DEF ServesGracefully
<1>1. Init => Graceful!Init
  BY Places DEF Init, Graceful!Init, Life, Stage, Taken
<1>2. IInv /\ NoneCut /\ [Next]_vars => [Graceful!Next]_Graceful!vars
  BY ServerStepRefined DEF Simulates
<1> QED BY <1>1, <1>2, InvariantHolds, NobodyIsCut, PTL DEF Spec, Graceful!Spec
=============================================================================
