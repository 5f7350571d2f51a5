------------------------ MODULE SensorServiceProofs ------------------------
(***************************************************************************)
(* Proofs about SensorService, for every value of its constants.           *)
(***************************************************************************)
EXTENDS SensorService, SequenceTheorems, TLAPS

(***************************************************************************)
(* The history of the table.                                               *)
(***************************************************************************)

\* What a query returns are rows of the table it ran on.
LEMMA ResultsAreRows ==
    ASSUME NEW r, NEW rows, NEW res \in Results(r, rows)
    PROVE  res \subseteq rows
BY DEF Results, GetByID, Query, Newest, Selected

\* The rows of a prefix of the log are rows that were committed.
LEMMA RowsInPool ==
    ASSUME NEW P, NEW log \in Seq([row : P, at : Nat]), NEW n \in 0..Len(log)
    PROVE  Rows(log, n) \subseteq P
<1> SUFFICES ASSUME NEW i \in 1..n PROVE log[i].row \in P
  BY DEF Rows
<1>1. i \in 1..Len(log)
  OBVIOUS
<1>2. log[i] \in [row : P, at : Nat]
  BY <1>1, ElementOfSeq
<1> QED BY <1>2

\* A commit leaves the earlier states of the table as they were.
LEMMA PrefixKept ==
    ASSUME NEW P, NEW log \in Seq([row : P, at : Nat]), NEW x \in [row : P, at : Nat],
           NEW n \in 0..Len(log)
    PROVE  Rows(Append(log, x), n) = Rows(log, n)
<1>1. \A i \in 1..n : Append(log, x)[i] = log[i]
  OBVIOUS
<1> QED BY <1>1 DEF Rows

\* What was read from the table before a commit is as genuine after it.
LEMMA GenuineAfterCommit ==
    ASSUME NEW P, NEW log \in Seq([row : P, at : Nat]), NEW x \in [row : P, at : Nat],
           NEW t \in Nat, x.at = t,
           NEW rows, NEW r, NEW snap \in Nat, NEW taken \in Nat,
           Genuine(log, t, rows, r, snap, taken)
    PROVE  Genuine(Append(log, x), t, rows, r, snap, taken)
<1>1. snap \in 0..Len(log) /\ Len(Append(log, x)) = Len(log) + 1
  BY DEF Genuine
<1>2. Rows(Append(log, x), snap) = Rows(log, snap)
  BY <1>1, PrefixKept
<1>3. CurrentSince(Append(log, x), snap, taken)
  <2>1. CASE snap = Len(log)
    <3>1. Append(log, x)[snap + 1] = x
      BY <2>1
    <3> QED BY <3>1 DEF CurrentSince, Genuine
  <2>2. CASE snap # Len(log)
    <3>1. snap + 1 \in 1..Len(log)
      BY <1>1, <2>2
    <3>2. Append(log, x)[snap + 1] = log[snap + 1]
      BY <3>1
    <3> QED BY <2>2, <3>2 DEF CurrentSince, Genuine
  <2> QED BY <2>1, <2>2
<1> QED BY <1>1, <1>2, <1>3 DEF Genuine

\* Nor does the passing of time change it.
LEMMA GenuineLater ==
    ASSUME NEW log, NEW t \in Nat, NEW u \in Nat, t <= u,
           NEW rows, NEW r, NEW snap, NEW taken \in Nat,
           Genuine(log, t, rows, r, snap, taken)
    PROVE  Genuine(log, u, rows, r, snap, taken)
BY DEF Genuine

(***************************************************************************)
(* Type correctness.                                                       *)
(***************************************************************************)
LEMMA KeyInKeys == \A r \in Requests : Key(r) \in Keys
BY DEF Keys

LEMMA AnyRequestIsOne == AnyRequest \in Requests
BY ServiceAssumption DEF AnyRequest

\* The definitions a type-correct step is made of.
LEMMA InitTypeOK == Init => TypeOK
<1> SUFFICES ASSUME Init PROVE TypeOK
  OBVIOUS
<1> USE ServiceAssumption, AnyRequestIsOne
<1>1. db \in Seq([row : RowPool, at : Nat]) /\ now \in 0..MaxTime /\ enabled \in BOOLEAN
  BY DEF Init
<1>2. pc \in [Proc -> Busy \cup {"idle", "done"}] /\ req \in [Proc -> Requests]
      /\ start \in [Proc -> Nat]
  BY DEF Init
<1>3. out \in [Proc -> [status : Statuses, cache : {"HIT", "MISS", ""}, rows : SUBSET RowPool]]
  BY DEF Init, NoAnswer, Failed, Statuses
<1>4. got \in [Proc -> [rows : SUBSET RowPool, snap : Nat, taken : Nat]]
  BY DEF Init, NothingGot
<1>5. redis \in [Keys -> Entry \cup {NoEntry}] /\ wire = {}
  BY DEF Init
<1> QED BY <1>1, <1>2, <1>3, <1>4, <1>5 DEF TypeOK

\* The answers a goroutine can give, and what it can hold between its calls.
OutType == [status : Statuses, cache : {"HIT", "MISS", ""}, rows : SUBSET RowPool]
GotType == [rows : SUBSET RowPool, snap : Nat, taken : Nat]
WireType == [key : Keys, rows : SUBSET RowPool, sent : Nat, req : Requests,
             snap : Nat, taken : Nat]

LEMMA OKType == \A c \in {"HIT", "MISS"}, rows \in SUBSET RowPool : OK(c, rows) \in OutType
BY DEF OK, OutType, Statuses

LEMMA FailedType == \A st \in Statuses : Failed(st) \in OutType
BY DEF Failed, OutType

LEMMA NotFoundType == \A r : NotFound(r) \in OutType
<1> TAKE r
<1>1. (IF r.kind = "id" THEN "READING_NOT_FOUND" ELSE "DEVICE_NOT_FOUND") \in Statuses
  BY DEF Statuses
<1> QED BY <1>1, FailedType DEF NotFound

\* Ending a request keeps the types of the three variables it touches.
LEMMA RespondType ==
    ASSUME TypeOK, NEW p \in Proc, NEW o \in OutType, Respond(p, o)
    PROVE  /\ pc' \in [Proc -> Busy \cup {"idle", "done"}]
           /\ out' \in [Proc -> OutType]
           /\ got' \in [Proc -> GotType]
<1>1. NothingGot \in GotType
  BY DEF NothingGot, GotType
<1> QED BY <1>1 DEF Respond, TypeOK, OutType, GotType

LEMMA GotoType ==
    ASSUME TypeOK, NEW p \in Proc, NEW l \in Busy, Goto(p, l)
    PROVE  pc' \in [Proc -> Busy \cup {"idle", "done"}]
BY DEF Goto, TypeOK

LEMMA NowIsNat == TypeOK => now \in Nat /\ MaxTime \in Nat /\ now <= MaxTime
<1>1. TypeOK => now \in 0..MaxTime
  BY DEF TypeOK
<1>2. MaxTime \in Nat
  BY ServiceAssumption
<1> QED BY <1>1, <1>2

\* The SET of a goroutine, and the entry it leaves.
LEMMA WriteType ==
    ASSUME TypeOK, NEW p \in Proc
    PROVE  Write(p) \in WireType
<1>1. Key(req[p]) \in Keys /\ req[p] \in Requests
  BY KeyInKeys DEF TypeOK
<1>2. got[p] \in GotType /\ now \in Nat
  BY NowIsNat DEF TypeOK, GotType
<1> QED BY <1>1, <1>2 DEF Write, WireType, GotType

LEMMA StoredType ==
    ASSUME TypeOK, NEW w \in WireType
    PROVE  Stored(w) \in Entry
<1>1. now + TTL \in Nat
  <2>1. now \in Nat /\ TTL \in Nat
    BY NowIsNat, ServiceAssumption
  <2> QED BY <2>1
<1> QED BY <1>1 DEF Stored, WireType, Entry

LEMMA TypeOKStep == TypeOK /\ [Next]_vars => TypeOK'
<1> SUFFICES ASSUME TypeOK, [Next]_vars PROVE TypeOK'
  OBVIOUS
<1> USE ServiceAssumption
<1>0. now \in Nat /\ db \in Seq([row : RowPool, at : Nat])
  <2>1. db \in Seq([row : RowPool, at : Nat])
    BY DEF TypeOK
  <2> QED BY <2>1, NowIsNat
<1>a. OutType = [status : Statuses, cache : {"HIT", "MISS", ""}, rows : SUBSET RowPool]
      /\ GotType = [rows : SUBSET RowPool, snap : Nat, taken : Nat]
      /\ WireType = [key : Keys, rows : SUBSET RowPool, sent : Nat, req : Requests,
                     snap : Nat, taken : Nat]
  BY DEF OutType, GotType, WireType
<1>1. ASSUME NEW p \in Proc, NEW r \in Requests, Receive(p, r) PROVE TypeOK'
  <2>1. req' \in [Proc -> Requests] /\ start' \in [Proc -> Nat]
    BY <1>0, <1>1 DEF Receive, TypeOK
  <2>2. /\ pc' \in [Proc -> Busy \cup {"idle", "done"}]
        /\ out' \in [Proc -> OutType] /\ got' \in [Proc -> GotType]
    <3>1. CASE Respond(p, Failed("INVALID_PARAMETER"))
      <4>1. Failed("INVALID_PARAMETER") \in OutType
        BY FailedType DEF Statuses
      <4> QED BY <3>1, <4>1, RespondType
    <3>2. CASE Goto(p, IF enabled THEN "lookup" ELSE "query") /\ UNCHANGED <<out, got>>
      <4>1. (IF enabled THEN "lookup" ELSE "query") \in Busy
        BY DEF Busy
      <4>2. pc' \in [Proc -> Busy \cup {"idle", "done"}]
        BY <3>2, <4>1, GotoType
      <4> QED BY <3>2, <4>2, <1>a DEF TypeOK
    <3> QED BY <1>1, <3>1, <3>2 DEF Receive
  <2> QED BY <1>1, <1>a, <2>1, <2>2 DEF Receive, TypeOK, env
<1>2. ASSUME NEW p \in Proc, CacheHit(p) PROVE TypeOK'
  <2>1. Key(req[p]) \in Keys
    BY KeyInKeys DEF TypeOK
  <2>2. redis[Key(req[p])].rows \in SUBSET RowPool
    BY <1>2, <2>1 DEF CacheHit, Live, TypeOK, Entry
  <2>3. OK("HIT", redis[Key(req[p])].rows) \in OutType
    BY <2>2, OKType
  <2>4. /\ pc' \in [Proc -> Busy \cup {"idle", "done"}]
        /\ out' \in [Proc -> OutType] /\ got' \in [Proc -> GotType]
    BY <1>2, <2>3, RespondType DEF CacheHit
  <2> QED BY <1>2, <1>a, <2>4 DEF CacheHit, TypeOK, env
<1>3. ASSUME NEW p \in Proc, CacheMiss(p) PROVE TypeOK'
  <2>1. pc' \in [Proc -> Busy \cup {"idle", "done"}]
    BY <1>3, GotoType DEF CacheMiss, Busy
  <2> QED BY <1>3, <2>1 DEF CacheMiss, TypeOK, env
<1>4. ASSUME NEW p \in Proc, QueryRuns(p) PROVE TypeOK'
  <2>1. PICK rows \in Results(req[p], Rows(db, Len(db))) :
          got' = [got EXCEPT ![p] = [rows |-> rows, snap |-> Len(db), taken |-> now]]
    BY <1>4 DEF QueryRuns
  <2>2. Len(db) \in Nat
    BY <1>0, LenProperties
  <2>3. rows \in SUBSET RowPool
    BY <1>0, <2>2, ResultsAreRows, RowsInPool
  <2>4. got' \in [Proc -> GotType]
    BY <1>0, <2>1, <2>2, <2>3 DEF TypeOK, GotType
  <2>5. pc' \in [Proc -> Busy \cup {"idle", "done"}]
    BY <1>4, GotoType DEF QueryRuns, Busy
  <2> QED BY <1>4, <1>a, <2>4, <2>5 DEF QueryRuns, TypeOK, env
<1>5. ASSUME NEW p \in Proc, QueryReturns(p) PROVE TypeOK'
  <2>1. got[p].rows \in SUBSET RowPool
    BY DEF TypeOK
  <2>2. /\ pc' \in [Proc -> Busy \cup {"idle", "done"}]
        /\ out' \in [Proc -> OutType] /\ got' \in [Proc -> GotType]
    <3>1. CASE Respond(p, IF Unfiltered(req[p]) THEN NotFound(req[p]) ELSE OK("MISS", {}))
      <4>1. (IF Unfiltered(req[p]) THEN NotFound(req[p]) ELSE OK("MISS", {})) \in OutType
        BY NotFoundType, OKType
      <4> QED BY <3>1, <4>1, RespondType
    <3>2. CASE Respond(p, OK("MISS", got[p].rows))
      BY <2>1, <3>2, OKType, RespondType
    <3>3. CASE Goto(p, "store") /\ UNCHANGED <<out, got>>
      <4>1. pc' \in [Proc -> Busy \cup {"idle", "done"}]
        BY <3>3, GotoType DEF Busy
      <4> QED BY <3>3, <4>1, <1>a DEF TypeOK
    <3> QED BY <1>5, <3>1, <3>2, <3>3 DEF QueryReturns
  <2> QED BY <1>5, <1>a, <2>2 DEF QueryReturns, TypeOK, env
<1>6. ASSUME NEW p \in Proc, QueryFails(p) PROVE TypeOK'
  <2>1. Failed("INTERNAL_ERROR") \in OutType
    BY FailedType DEF Statuses
  <2>2. /\ pc' \in [Proc -> Busy \cup {"idle", "done"}]
        /\ out' \in [Proc -> OutType] /\ got' \in [Proc -> GotType]
    BY <1>6, <2>1, RespondType DEF QueryFails
  <2> QED BY <1>6, <1>a, <2>2 DEF QueryFails, TypeOK, env
<1>7. ASSUME NEW p \in Proc, SetDone(p) \/ SetFails(p) PROVE TypeOK'
  <2>1. Write(p) \in WireType
    BY WriteType
  <2>2. wire' \subseteq WireType
    BY <1>7, <1>a, <2>1 DEF SetDone, SetFails, MayLinger, TypeOK
  <2>3. Stored(Write(p)) \in Entry /\ Key(req[p]) \in Keys
    BY <2>1, StoredType, KeyInKeys DEF TypeOK
  <2>4. redis' \in [Keys -> Entry \cup {NoEntry}]
    BY <1>7, <2>3 DEF SetDone, SetFails, TypeOK
  <2>5. OK("MISS", got[p].rows) \in OutType
    BY OKType DEF TypeOK
  <2>6. /\ pc' \in [Proc -> Busy \cup {"idle", "done"}]
        /\ out' \in [Proc -> OutType] /\ got' \in [Proc -> GotType]
    BY <1>7, <2>5, RespondType DEF SetDone, SetFails
  <2> QED BY <1>7, <1>a, <2>2, <2>4, <2>6 DEF SetDone, SetFails, TypeOK, env
<1>8. ASSUME NEW p \in Proc, Collect(p) PROVE TypeOK'
  <2>1. NoAnswer \in OutType
    BY FailedType DEF NoAnswer, Statuses
  <2> QED BY <1>8, <1>a, <2>1, AnyRequestIsOne DEF Collect, TypeOK, env
<1>9. ASSUME NEW w \in wire, Deliver(w) PROVE TypeOK'
  <2>1. w \in WireType /\ w.key \in Keys
    BY <1>a DEF TypeOK
  <2>2. Stored(w) \in Entry
    BY <2>1, StoredType
  <2> QED BY <1>9, <2>1, <2>2 DEF Deliver, TypeOK, env
<1>10. ASSUME NEW w \in wire, Lose(w) PROVE TypeOK'
  BY <1>10 DEF Lose, TypeOK, env
<1>11. ASSUME NEW k \in Keys, Evict(k) PROVE TypeOK'
  BY <1>11 DEF Evict, TypeOK, env
<1>12. ASSUME NEW row \in RowPool, Commit(row) PROVE TypeOK'
  <2>1. [row |-> row, at |-> now] \in [row : RowPool, at : Nat]
    BY <1>0
  <2>2. db' \in Seq([row : RowPool, at : Nat])
    BY <1>0, <1>12, <2>1, AppendProperties DEF Commit
  <2> QED BY <1>12, <2>2 DEF Commit, TypeOK
<1>13. CASE Tick
  <2>1. now' \in 0..MaxTime
    <3>1. MaxTime \in Nat /\ now \in Nat /\ now < MaxTime /\ now' = now + 1
      BY <1>0, <1>13 DEF Tick
    <3> QED BY <3>1
  <2> QED BY <1>13, <2>1 DEF Tick, TypeOK
<1>14. CASE Restart
  <2>1. NoAnswer \in OutType /\ NothingGot \in GotType
    BY FailedType DEF NoAnswer, Statuses, NothingGot, GotType
  <2> QED BY <1>14, <1>a, <2>1, AnyRequestIsOne DEF Restart, TypeOK
<1>15. CASE UNCHANGED vars
  BY <1>15 DEF vars, TypeOK
<1> QED
  BY <1>1, <1>2, <1>3, <1>4, <1>5, <1>6, <1>7, <1>8, <1>9, <1>10, <1>11, <1>12, <1>13,
     <1>14, <1>15 DEF Next, Step

(***************************************************************************)
(* Every variable keeps its type in every behaviour.                       *)
(***************************************************************************)
THEOREM TypeCorrect == Spec => []TypeOK
BY InitTypeOK, TypeOKStep, PTL DEF Spec

(***************************************************************************)
(* Soundness of what is cached, held and under way.                        *)
(***************************************************************************)

\* Rows read before a step are as genuine after it, whatever the step is.
LEMMA GenuineStable ==
    ASSUME TypeOK, [Next]_vars
    PROVE  /\ now \in Nat /\ now' \in Nat /\ now <= now'
           /\ \A rows, r : \A snap, taken \in Nat :
                Genuine(db, now, rows, r, snap, taken)
                    => Genuine(db', now', rows, r, snap, taken)
<1>1. now \in Nat /\ db \in Seq([row : RowPool, at : Nat])
  BY NowIsNat DEF TypeOK
<1>2. CASE \E row \in RowPool : Commit(row)
  <2>1. PICK row \in RowPool : Commit(row)
    BY <1>2
  <2> DEFINE x == [row |-> row, at |-> now]
  <2>2. x \in [row : RowPool, at : Nat] /\ x.at = now
    BY <1>1
  <2>3. db' = Append(db, x) /\ now' = now
    BY <2>1 DEF Commit
  <2> HIDE DEF x
  <2>4. ASSUME NEW rows, NEW r, NEW snap \in Nat, NEW taken \in Nat,
               Genuine(db, now, rows, r, snap, taken)
        PROVE  Genuine(Append(db, x), now, rows, r, snap, taken)
    BY <1>1, <2>2, <2>4, GenuineAfterCommit
  <2> QED BY <1>1, <2>3, <2>4
<1>3. CASE Tick
  <2>1. db' = db /\ now' = now + 1
    BY <1>3 DEF Tick
  <2>2. now' \in Nat /\ now <= now'
    BY <1>1, <2>1
  <2>3. ASSUME NEW rows, NEW r, NEW snap \in Nat, NEW taken \in Nat,
               Genuine(db, now, rows, r, snap, taken)
        PROVE  Genuine(db, now', rows, r, snap, taken)
    BY <1>1, <2>2, <2>3, GenuineLater
  <2> QED BY <1>1, <2>1, <2>2, <2>3
<1>4. CASE UNCHANGED <<db, now>>
  BY <1>1, <1>4
<1>5. (\E row \in RowPool : Commit(row)) \/ Tick \/ UNCHANGED <<db, now>>
  BY DEF Next, Step, Receive, CacheHit, CacheMiss, QueryRuns, QueryReturns, QueryFails,
         SetDone, SetFails, Collect, Deliver, Lose, Evict, Restart, env, vars
<1> QED BY <1>2, <1>3, <1>4, <1>5

\* What a goroutine that is not in the middle of a request holds.
HeldBy(p) ==
    /\ start[p] <= now
    /\ pc[p] \in Busy => Valid(req[p])
    /\ pc[p] \in {"rows", "store"} =>
          /\ Genuine(db, now, got[p].rows, req[p], got[p].snap, got[p].taken)
          /\ start[p] <= got[p].taken
    /\ pc[p] = "store" => got[p].rows # {}

\* A step that leaves a goroutine alone leaves what it holds sound.
LEMMA HeldByOther ==
    ASSUME TypeOK, [Next]_vars, NEW q \in Proc, HeldBy(q),
           pc'[q] = pc[q], req'[q] = req[q], start'[q] = start[q], got'[q] = got[q]
    PROVE  HeldBy(q)'
<1>1. start[q] \in Nat /\ got[q].snap \in Nat /\ got[q].taken \in Nat
  BY DEF TypeOK
<1>2. now \in Nat /\ now' \in Nat /\ now <= now'
  BY GenuineStable
<1>3. Genuine(db, now, got[q].rows, req[q], got[q].snap, got[q].taken)
        => Genuine(db', now', got[q].rows, req[q], got[q].snap, got[q].taken)
  BY <1>1, GenuineStable
<1>4. start[q] <= now'
  BY <1>1, <1>2 DEF HeldBy
<1> QED BY <1>3, <1>4 DEF HeldBy, Genuine, Valid

\* A goroutine whose request is over, or not begun, holds nothing.
LEMMA HeldByIdle ==
    ASSUME NEW q \in Proc, pc'[q] \in {"idle", "done"}, start'[q] <= now'
    PROVE  HeldBy(q)'
BY DEF HeldBy, Busy

LEMMA HeldSoundStep ==
    ASSUME TypeOK, HeldSound, [Next]_vars
    PROVE  HeldSound'
<1> SUFFICES ASSUME NEW q \in Proc PROVE HeldBy(q)'
  BY DEF HeldSound, HeldBy
<1>a. HeldBy(q)
  BY DEF HeldSound, HeldBy
<1>b. now \in Nat /\ now' \in Nat /\ now <= now' /\ start[q] \in Nat /\ start[q] <= now'
  <2>1. now \in Nat /\ now' \in Nat /\ now <= now'
    BY GenuineStable
  <2>2. start[q] \in Nat
    BY DEF TypeOK
  <2>3. start[q] <= now
    BY <1>a DEF HeldBy
  <2> QED BY <2>1, <2>2, <2>3
<1>c. CASE pc'[q] = pc[q] /\ req'[q] = req[q] /\ start'[q] = start[q] /\ got'[q] = got[q]
  BY <1>a, <1>c, HeldByOther
<1>1. ASSUME NEW r \in Requests, Receive(q, r) PROVE HeldBy(q)'
  <2>1. start'[q] <= now'
    BY <1>1, <1>b DEF Receive, TypeOK, env
  <2>2. CASE pc'[q] \in {"idle", "done"}
    BY <2>1, <2>2, HeldByIdle
  <2>3. CASE Valid(r) /\ pc'[q] \in {"lookup", "query"}
    <3>1. req'[q] = r
      BY <1>1 DEF Receive, TypeOK
    <3> QED BY <2>1, <2>3, <3>1 DEF HeldBy, Valid
  <2> QED BY <1>1, <2>2, <2>3 DEF Receive, Respond, Goto, TypeOK
<1>2. ASSUME CacheHit(q) \/ QueryFails(q) \/ SetDone(q) \/ SetFails(q) PROVE HeldBy(q)'
  <2>1. pc'[q] = "done" /\ start'[q] = start[q]
    BY <1>2 DEF CacheHit, QueryFails, SetDone, SetFails, Respond, TypeOK
  <2> QED BY <1>b, <2>1, HeldByIdle
<1>3. ASSUME CacheMiss(q) PROVE HeldBy(q)'
  <2>1. pc'[q] = "query" /\ pc[q] \in Busy /\ start'[q] = start[q] /\ req'[q] = req[q]
    BY <1>3 DEF CacheMiss, Goto, TypeOK, Busy
  <2> QED BY <1>a, <1>b, <2>1 DEF HeldBy, Valid
<1>4. ASSUME QueryRuns(q) PROVE HeldBy(q)'
  <2>1. PICK rows \in Results(req[q], Rows(db, Len(db))) :
          got' = [got EXCEPT ![q] = [rows |-> rows, snap |-> Len(db), taken |-> now]]
    BY <1>4 DEF QueryRuns
  <2>2. got'[q] = [rows |-> rows, snap |-> Len(db), taken |-> now]
    BY <2>1 DEF TypeOK
  <2>3. /\ pc'[q] = "rows" /\ pc[q] \in Busy /\ start'[q] = start[q] /\ req'[q] = req[q]
        /\ db' = db /\ now' = now
    BY <1>4 DEF QueryRuns, Goto, TypeOK, Busy, env
  <2>4. Len(db) \in 0..Len(db)
    <3>1. db \in Seq([row : RowPool, at : Nat])
      BY DEF TypeOK
    <3>2. Len(db) \in Nat
      BY <3>1, LenProperties
    <3> QED BY <3>2
  <2>5. Valid(req[q]) /\ start[q] <= now
    BY <1>a, <2>3 DEF HeldBy
  <2>6. Genuine(db, now, rows, req[q], Len(db), now)
    BY <1>b, <2>4, <2>5 DEF Genuine, CurrentSince
  <2> QED BY <2>2, <2>3, <2>5, <2>6 DEF HeldBy, Genuine, Valid
<1>5. ASSUME QueryReturns(q) PROVE HeldBy(q)'
  <2>1. start'[q] = start[q] /\ req'[q] = req[q] /\ db' = db /\ now' = now /\ pc[q] = "rows"
    BY <1>5 DEF QueryReturns, env
  <2>2. CASE pc'[q] = "done"
    BY <1>b, <2>1, <2>2, HeldByIdle
  <2>3. CASE pc'[q] = "store" /\ got' = got /\ got[q].rows # {}
    BY <1>a, <2>1, <2>3 DEF HeldBy, Genuine, Valid, Busy
  <2> QED BY <1>5, <2>2, <2>3 DEF QueryReturns, Respond, Goto, TypeOK
<1>6. ASSUME Collect(q) \/ Restart PROVE HeldBy(q)'
  <2>1. pc'[q] = "idle" /\ start'[q] = 0
    BY <1>6 DEF Collect, Restart, TypeOK
  <2> QED BY <1>b, <2>1, HeldByIdle
<1>7. ASSUME NEW p \in Proc, p # q,
             Step(p) \/ Collect(p) \/ \E r \in Requests : Receive(p, r)
      PROVE  HeldBy(q)'
  <2>1. pc'[q] = pc[q] /\ req'[q] = req[q] /\ start'[q] = start[q] /\ got'[q] = got[q]
    BY <1>7 DEF Step, Receive, CacheHit, CacheMiss, QueryRuns, QueryReturns, QueryFails,
                SetDone, SetFails, Collect, Respond, Goto, TypeOK
  <2> QED BY <1>c, <2>1
<1>8. ASSUME \/ \E w \in wire : Deliver(w) \/ Lose(w)
             \/ \E k \in Keys : Evict(k)
             \/ \E row \in RowPool : Commit(row)
             \/ Tick \/ UNCHANGED vars
      PROVE  HeldBy(q)'
  <2>1. pc' = pc /\ req' = req /\ start' = start /\ got' = got
    BY <1>8 DEF Deliver, Lose, Evict, Commit, Tick, vars
  <2> QED BY <1>c, <2>1
<1> QED BY <1>1, <1>2, <1>3, <1>4, <1>5, <1>6, <1>7, <1>8 DEF Next, Step

\* What the writes of a goroutine look like, given what it holds.
SoundWrite(w) ==
    /\ w.key = Key(w.req)
    /\ w.rows # {}
    /\ Genuine(db, now, w.rows, w.req, w.snap, w.taken)
    /\ w.sent < w.taken + Deadline
    /\ now <= w.sent + WireDelay

LEMMA WriteSound ==
    ASSUME TypeOK, NEW p \in Proc, HeldBy(p), pc[p] = "store", Alive(p)
    PROVE  SoundWrite(Write(p))
<1>1. /\ now \in Nat /\ WireDelay \in Nat /\ Deadline \in Nat
      /\ start[p] \in Nat /\ got[p].taken \in Nat
  <2>1. start[p] \in Nat /\ got[p].taken \in Nat
    BY DEF TypeOK
  <2> QED BY <2>1, NowIsNat, ServiceAssumption
<1>2. /\ Genuine(db, now, got[p].rows, req[p], got[p].snap, got[p].taken)
      /\ start[p] <= got[p].taken /\ got[p].rows # {}
  BY DEF HeldBy
<1>3. now < got[p].taken + Deadline /\ now <= now + WireDelay
  BY <1>1, <1>2 DEF Alive
<1> QED BY <1>2, <1>3 DEF SoundWrite, Write

LEMMA WireSoundStep ==
    ASSUME TypeOK, HeldSound, WireSound, [Next]_vars
    PROVE  WireSound'
<1>1. ASSUME NEW w \in wire', w \in wire PROVE SoundWrite(w)'
  <2>1. SoundWrite(w) /\ w.snap \in Nat /\ w.taken \in Nat /\ w.sent \in Nat
    BY <1>1 DEF WireSound, SoundWrite, TypeOK
  <2>2. Genuine(db', now', w.rows, w.req, w.snap, w.taken)
    BY <2>1, GenuineStable DEF SoundWrite
  <2>3. now' <= w.sent + WireDelay
    <3>1. CASE Tick
      <4>1. now < w.sent + WireDelay /\ now' = now + 1
        BY <1>1, <3>1 DEF Tick
      <4> QED BY <2>1, <4>1, NowIsNat, ServiceAssumption
    <3>2. CASE now' = now
      BY <2>1, <3>2 DEF SoundWrite
    <3>3. Tick \/ now' = now
      BY DEF Next, Step, Receive, CacheHit, CacheMiss, QueryRuns, QueryReturns, QueryFails,
             SetDone, SetFails, Collect, Deliver, Lose, Evict, Commit, Restart, env, vars
    <3> QED BY <3>1, <3>2, <3>3
  <2> QED BY <2>1, <2>2, <2>3 DEF SoundWrite, Genuine, Valid
<1>2. ASSUME NEW w \in wire', w \notin wire PROVE SoundWrite(w)'
  <2>1. PICK p \in Proc : SetDone(p) \/ SetFails(p)
    BY <1>2 DEF Next, Step, Receive, CacheHit, CacheMiss, QueryRuns, QueryReturns, QueryFails,
                Collect, Deliver, Lose, Evict, Commit, Tick, Restart, env, vars
  <2>2. Alive(p) /\ pc[p] = "store" /\ w = Write(p)
    BY <1>2, <2>1 DEF SetDone, SetFails, MayLinger
  <2>3. HeldBy(p)
    BY DEF HeldSound, HeldBy
  <2>4. SoundWrite(w)
    BY <2>2, <2>3, WriteSound
  <2>5. db' = db /\ now' = now
    BY <2>1 DEF SetDone, SetFails, env
  <2> QED BY <2>4, <2>5 DEF SoundWrite, Genuine, Valid
<1> QED BY <1>1, <1>2 DEF WireSound, SoundWrite

\* An entry of Redis, and the entry a sound SET leaves.
SoundEntry(k, e) ==
    /\ Key(e.req) = k
    /\ e.rows # {}
    /\ Genuine(db, now, e.rows, e.req, e.snap, e.taken)
    /\ e.exp <= e.taken + Bound

LEMMA StoredSound ==
    ASSUME TypeOK, NEW w \in WireType, SoundWrite(w)
    PROVE  SoundEntry(w.key, Stored(w))
<1>1. /\ now \in Nat /\ TTL \in Nat /\ Deadline \in Nat /\ WireDelay \in Nat
      /\ w.sent \in Nat /\ w.taken \in Nat
  BY NowIsNat, ServiceAssumption DEF WireType
<1>2. now + TTL <= w.taken + (Deadline + WireDelay + TTL)
  BY <1>1 DEF SoundWrite
<1>3. TTL = 0 => now + TTL <= w.taken + MaxTime
  BY <1>1, NowIsNat
<1> QED BY <1>2, <1>3 DEF SoundEntry, SoundWrite, Stored, Bound

LEMMA CacheSoundStep ==
    ASSUME TypeOK, HeldSound, WireSound, CacheSound, [Next]_vars
    PROVE  CacheSound'
<1> SUFFICES ASSUME NEW k \in Keys, redis'[k] # NoEntry
             PROVE  SoundEntry(k, redis[k])'
  BY DEF CacheSound, SoundEntry
<1>1. CASE redis'[k] = redis[k]
  <2>1. SoundEntry(k, redis[k]) /\ redis[k] \in Entry
    BY <1>1 DEF CacheSound, SoundEntry, TypeOK
  <2>2. redis[k].snap \in Nat /\ redis[k].taken \in Nat
    BY <2>1 DEF Entry
  <2>3. Genuine(db', now', redis[k].rows, redis[k].req, redis[k].snap, redis[k].taken)
    BY <2>1, <2>2, GenuineStable DEF SoundEntry
  <2> QED BY <1>1, <2>1, <2>3 DEF SoundEntry, Genuine, Valid, Bound
<1>2. ASSUME NEW w \in WireType, SoundWrite(w), redis' = [redis EXCEPT ![w.key] = Stored(w)],
             db' = db, now' = now
      PROVE  SoundEntry(k, redis[k])'
  <2>1. CASE k = w.key
    <3>1. redis'[k] = Stored(w)
      BY <1>2, <2>1 DEF TypeOK
    <3>2. SoundEntry(k, Stored(w))
      BY <1>2, <2>1, StoredSound
    <3>3. SoundEntry(k, redis'[k])
      BY <3>1, <3>2
    <3> QED BY <1>2, <3>3 DEF SoundEntry, Genuine, Valid, Bound
  <2>2. CASE k # w.key
    BY <1>1, <1>2, <2>2 DEF TypeOK
  <2> QED BY <2>1, <2>2
<1>3. ASSUME NEW p \in Proc, SetDone(p) PROVE SoundEntry(k, redis[k])'
  <2>1. HeldBy(p)
    BY DEF HeldSound, HeldBy
  <2>2. SoundWrite(Write(p)) /\ Write(p) \in WireType
    BY <1>3, <2>1, WriteSound, WriteType DEF SetDone
  <2>3. Write(p).key = Key(req[p])
    BY DEF Write
  <2> QED BY <1>2, <1>3, <2>2, <2>3 DEF SetDone, env
<1>4. ASSUME NEW w \in wire, Deliver(w) PROVE SoundEntry(k, redis[k])'
  <2>1. SoundWrite(w) /\ w \in WireType
    BY DEF WireSound, SoundWrite, TypeOK, WireType
  <2> QED BY <1>2, <1>4, <2>1 DEF Deliver, env
<1>5. ASSUME NEW l \in Keys, Evict(l) PROVE SoundEntry(k, redis[k])'
  BY <1>1, <1>5 DEF Evict, TypeOK
<1>6. CASE redis' = redis
  BY <1>1, <1>6
<1>7. \/ redis' = redis
      \/ \E p \in Proc : SetDone(p)
      \/ \E w \in wire : Deliver(w)
      \/ \E l \in Keys : Evict(l)
  BY DEF Next, Step, Receive, CacheHit, CacheMiss, QueryRuns, QueryReturns, QueryFails,
         SetFails, Collect, Lose, Commit, Tick, Restart, vars
<1> QED BY <1>3, <1>4, <1>5, <1>6, <1>7

LEMMA InitSound == Init => HeldSound /\ WireSound /\ CacheSound
BY DEF Init, HeldSound, WireSound, CacheSound, Busy

\* The inductive invariant: CacheSound alone is not, for it says nothing of the
\* rows a SET is about to store.
IInv == TypeOK /\ HeldSound /\ WireSound /\ CacheSound

LEMMA IInvInvariant == Spec => []IInv
<1>1. Init => IInv
  BY InitTypeOK, InitSound DEF IInv
<1>2. IInv /\ [Next]_vars => IInv'
  BY TypeOKStep, HeldSoundStep, WireSoundStep, CacheSoundStep DEF IInv
<1> QED BY <1>1, <1>2, PTL DEF Spec

(***************************************************************************)
(* The cache only ever holds genuine, non-empty results under their own    *)
(* key, and none outlives Bound.                                           *)
(***************************************************************************)
THEOREM CacheIsSound == Spec => []CacheSound
<1>1. IInv => CacheSound
  BY DEF IInv
<1> QED BY <1>1, IInvInvariant, PTL

(***************************************************************************)
(* Goroutines and SETs under way hold genuine results only.                *)
(***************************************************************************)
THEOREM InFlightIsSound == Spec => []InFlightSound
<1>1. IInv => InFlightSound
  BY DEF IInv, InFlightSound
<1> QED BY <1>1, IInvInvariant, PTL
=============================================================================
