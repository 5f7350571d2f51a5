---------------------- MODULE SensorServiceRefinement ----------------------
(***************************************************************************)
(* SensorService keeps the promise of BoundedStaleness: every step of the  *)
(* program is a step of the promise or leaves it alone.                    *)
(***************************************************************************)
EXTENDS SensorServiceProofs, SensorRepositoryProofs, CacheKeysProofs

\* What the repository returns is what the client asked for.
LEMMA ResultsAreWanted == \A r, rows : Results(r, rows) = Wanted(r, rows)
<1> TAKE r, rows
<1>1. CASE r.kind = "id"
  BY <1>1 DEF Results, Wanted, GetByID
<1>2. CASE r.kind # "id"
  BY <1>2, BuildQueryCorrect DEF Results, Wanted
<1> QED BY <1>1, <1>2

\* Rows current at some time were current at every earlier one.
LEMMA CurrentEarlier ==
    ASSUME NEW P, NEW log \in Seq([row : P, at : Nat]), NEW n \in 0..Len(log),
           NEW t \in Int, NEW u \in Int, u <= t, CurrentSince(log, n, t)
    PROVE  CurrentSince(log, n, u)
<1>1. CASE n = Len(log)
  BY <1>1 DEF CurrentSince
<1>2. CASE n # Len(log)
  <2>1. Len(log) \in Nat
    BY LenProperties
  <2>2. n + 1 \in 1..Len(log)
    BY <1>2, <2>1
  <2>3. log[n + 1] \in [row : P, at : Nat]
    BY <2>2, ElementOfSeq
  <2>4. log[n + 1].at \in Nat /\ log[n + 1].at >= t
    BY <1>2, <2>3 DEF CurrentSince
  <2>5. log[n + 1].at >= u
    BY <2>4
  <2> QED BY <2>5 DEF CurrentSince
<1> QED BY <1>1, <1>2

\* The promise's words mean what the program's do.
LEMMA SameWords ==
    /\ \A r, rows : UpToKey!Wanted(r, rows) = Wanted(r, rows)
    /\ \A log, n : UpToKey!Rows(log, n) = Rows(log, n)
    /\ \A log, n, t : UpToKey!CurrentSince(log, n, t) <=> CurrentSince(log, n, t)
    /\ \A r : UpToKey!Unfiltered(r) <=> Unfiltered(r)
    /\ \A c, rows : UpToKey!OK(c, rows) = OK(c, rows)
    /\ \A r : UpToKey!NotFound(r) = NotFound(r)
    /\ \A st : UpToKey!Failed(st) = Failed(st)
    /\ UpToKey!NoAnswer = NoAnswer
    /\ UpToKey!AnyRequest = AnyRequest
<1>1. \A row, r : UpToKey!Matches(row, r) <=> Matches(row, r)
  BY DEF UpToKey!Matches, Matches
<1>2. \A r, rows : UpToKey!Matching(r, rows) = Matching(r, rows)
  BY <1>1 DEF UpToKey!Matching, Matching
<1>3. \A k, rows : UpToKey!Newest(k, rows) = Newest(k, rows)
  <2>1. \A S : UpToKey!Cardinality(S) = Cardinality(S)
    BY DEF UpToKey!Cardinality, Cardinality
  <2> QED BY <2>1 DEF UpToKey!Newest, Newest
<1>4. \A r, rows : UpToKey!Wanted(r, rows) = Wanted(r, rows)
  BY <1>2, <1>3 DEF UpToKey!Wanted, Wanted
<1>5. \A log, n : UpToKey!Rows(log, n) = Rows(log, n)
  BY DEF UpToKey!Rows, Rows
<1>6. \A log, n, t : UpToKey!CurrentSince(log, n, t) <=> CurrentSince(log, n, t)
  BY DEF UpToKey!CurrentSince, CurrentSince
<1>7. \A r : UpToKey!Unfiltered(r) <=> Unfiltered(r)
  BY DEF UpToKey!Unfiltered, Unfiltered
<1>8. \A st : UpToKey!Failed(st) = Failed(st)
  BY DEF UpToKey!Failed, Failed
<1>9. \A c, rows : UpToKey!OK(c, rows) = OK(c, rows)
  BY DEF UpToKey!OK, OK
<1>10. \A r : UpToKey!NotFound(r) = NotFound(r)
  BY <1>8 DEF UpToKey!NotFound, NotFound
<1>11. UpToKey!NoAnswer = NoAnswer
  BY <1>8 DEF UpToKey!NoAnswer, NoAnswer
<1>12. UpToKey!AnyRequest = AnyRequest
  BY DEF UpToKey!AnyRequest, AnyRequest
<1> QED BY <1>4, <1>5, <1>6, <1>7, <1>8, <1>9, <1>10, <1>11, <1>12

LEMMA HeldTypes ==
    ASSUME TypeOK, NEW p \in Proc
    PROVE  /\ req[p] \in Requests /\ start[p] \in Nat /\ got[p].taken \in Nat
           /\ start[p] \in Int /\ got[p].taken \in Int
           /\ db \in Seq([row : RowPool, at : Nat])
<1>1. /\ req[p] \in Requests /\ start[p] \in Nat /\ got[p].taken \in Nat
      /\ db \in Seq([row : RowPool, at : Nat])
  BY DEF TypeOK
<1> QED BY <1>1

\* The goroutine's own rows are an answer the promise allows.
LEMMA MissIsGood ==
    ASSUME IInv, NEW p \in Proc, pc[p] \in {"rows", "store"},
           got[p].rows # {} \/ ~Unfiltered(req[p])
    PROVE  UpToKey!GoodRows(req[p], start[p], OK("MISS", got[p].rows))
<1> DEFINE n == got[p].snap  r == req[p]  o == OK("MISS", got[p].rows)
<1>1. HeldBy(p) /\ TypeOK
  BY DEF IInv, HeldSound, HeldBy
<1>2. /\ Genuine(db, now, got[p].rows, r, n, got[p].taken)
      /\ start[p] <= got[p].taken
  BY <1>1 DEF HeldBy
<1>3. /\ r \in Requests /\ start[p] \in Int /\ got[p].taken \in Int
      /\ db \in Seq([row : RowPool, at : Nat])
  BY <1>1, HeldTypes
<1>4. n \in 0..Len(db) /\ got[p].rows \in Wanted(r, Rows(db, n))
  BY <1>2, ResultsAreWanted DEF Genuine
<1>5. CurrentSince(db, n, start[p])
  BY <1>2, <1>3, <1>4, CurrentEarlier DEF Genuine
<1>6. CurrentSince(db, n, start[p] - Bound)
  <2>1. Bound \in Nat
    BY ServiceAssumption DEF Bound
  <2>2. start[p] - Bound \in Int /\ start[p] - Bound <= start[p]
    BY <1>3, <2>1
  <2> QED BY <1>3, <1>4, <1>5, <2>2, CurrentEarlier
<1>7. <<r, r>> \in SameKey
  BY <1>3 DEF SameKey
<1>8. o = OK(o.cache, o.rows) /\ o.cache = "MISS" /\ o.rows = got[p].rows
  BY DEF OK
<1> HIDE DEF n, r, o
<1>9. /\ n \in 0..Len(db) /\ r \in Requests /\ <<r, r>> \in SameKey
      /\ o.rows \in Wanted(r, Rows(db, n))
      /\ CurrentSince(db, n, start[p] - Bound)
      /\ o.cache = "MISS" => r = r /\ CurrentSince(db, n, start[p])
  BY <1>3, <1>4, <1>5, <1>6, <1>7, <1>8
<1>10. o.rows = {} => ~Unfiltered(r)
  BY <1>8 DEF r
<1>11. UpToKey!GoodRows(r, start[p], o)
  BY <1>8, <1>9, <1>10, SameWords DEF UpToKey!GoodRows
<1> QED BY <1>11 DEF r, o

\* So is a live entry of the cache, up to requests with the same key.
LEMMA HitIsGood ==
    ASSUME IInv, NEW p \in Proc, pc[p] = "lookup", Live(redis[Key(req[p])])
    PROVE  UpToKey!GoodRows(req[p], start[p], OK("HIT", redis[Key(req[p])].rows))
<1> DEFINE k == Key(req[p])  e == redis[k]  n == e.snap  r == req[p]
           o == OK("HIT", e.rows)
<1>1. TypeOK /\ CacheSound /\ HeldBy(p)
  BY DEF IInv, HeldSound, HeldBy
<1>2. k \in Keys /\ r \in Requests
  BY <1>1, KeyInKeys DEF TypeOK
<1>3. e \in Entry /\ e # NoEntry /\ (TTL = 0 \/ now < e.exp)
  BY <1>1, <1>2 DEF TypeOK, Live
<1>4. SoundEntry(k, e)
  BY <1>1, <1>2, <1>3 DEF CacheSound, SoundEntry
<1>5. n \in 0..Len(db) /\ e.rows \in Wanted(e.req, Rows(db, n)) /\ CurrentSince(db, n, e.taken)
  BY <1>4, ResultsAreWanted DEF SoundEntry, Genuine
<1>6. CurrentSince(db, n, start[p] - Bound)
  <2>1. /\ Bound \in Nat /\ start[p] \in Nat /\ now \in Nat /\ e.taken \in Nat /\ e.exp \in Nat
    <3>1. Bound \in Nat
      BY ServiceAssumption DEF Bound
    <3>2. start[p] \in Nat
      BY <1>1 DEF TypeOK
    <3> QED BY <1>1, <1>3, <3>1, <3>2, NowIsNat DEF Entry
  <2>2. start[p] <= now /\ e.exp <= e.taken + Bound
    BY <1>1, <1>4 DEF HeldBy, SoundEntry
  <2>3. start[p] - Bound \in Int /\ start[p] - Bound <= e.taken
    <3>1. CASE TTL = 0
      <4>1. Bound = MaxTime /\ now <= MaxTime
        BY <1>1, <3>1, NowIsNat DEF Bound
      <4> QED BY <2>1, <2>2, <4>1
    <3>2. CASE TTL # 0
      BY <1>3, <2>1, <2>2, <3>2
    <3> QED BY <3>1, <3>2
  <2>4. db \in Seq([row : RowPool, at : Nat])
    BY <1>1 DEF TypeOK
  <2>5. e.taken \in Int
    BY <2>1
  <2> HIDE DEF e, n
  <2> QED BY <1>5, <2>3, <2>4, <2>5, CurrentEarlier
<1>7. e.req \in Requests /\ <<e.req, r>> \in SameKey
  BY <1>2, <1>3, <1>4 DEF SameKey, Entry, SoundEntry
<1>8. o = OK(o.cache, o.rows) /\ o.cache = "HIT" /\ o.rows = e.rows /\ o.rows # {}
  BY <1>4 DEF OK, SoundEntry
<1> HIDE DEF n, e, o, k, r
<1>9. UpToKey!GoodRows(r, start[p], o)
  BY <1>5, <1>6, <1>7, <1>8, SameWords DEF UpToKey!GoodRows
<1> QED BY <1>9 DEF k, e, o, r

\* An empty result without a time window is a "not found" of this very moment.
LEMMA NotFoundIsGood ==
    ASSUME IInv, NEW p \in Proc, pc[p] = "rows", got[p].rows = {}, Unfiltered(req[p])
    PROVE  UpToKey!GoodNotFound(req[p], start[p], NotFound(req[p]))
<1>1. HeldBy(p) /\ TypeOK
  BY DEF IInv, HeldSound, HeldBy
<1>2. /\ Genuine(db, now, {}, req[p], got[p].snap, got[p].taken)
      /\ start[p] <= got[p].taken
  BY <1>1 DEF HeldBy
<1>3. start[p] \in Int /\ got[p].taken \in Int /\ db \in Seq([row : RowPool, at : Nat])
  BY <1>1, HeldTypes
<1>4. got[p].snap \in 0..Len(db) /\ {} \in Wanted(req[p], Rows(db, got[p].snap))
  BY <1>2, ResultsAreWanted DEF Genuine
<1>5. CurrentSince(db, got[p].snap, start[p])
  BY <1>2, <1>3, <1>4, CurrentEarlier DEF Genuine
<1> QED BY <1>4, <1>5, SameWords DEF UpToKey!GoodNotFound

-----------------------------------------------------------------------------
(* Phase, through the steps of a goroutine.                                 *)

LEMMA PhaseOf ==
    ASSUME TypeOK, NEW p \in Proc
    PROVE  Phase[p] = IF pc[p] \in Busy THEN "busy" ELSE pc[p]
BY DEF Phase

LEMMA PhaseMoves ==
    ASSUME TypeOK, NEW p \in Proc, NEW l \in Busy \cup {"idle", "done"},
           pc' = [pc EXCEPT ![p] = l]
    PROVE  Phase' = [Phase EXCEPT ![p] = IF l \in Busy THEN "busy" ELSE l]
BY DEF Phase, TypeOK

LEMMA PhaseStays ==
    ASSUME TypeOK, NEW p \in Proc, pc[p] \in Busy, NEW l \in Busy, pc' = [pc EXCEPT ![p] = l]
    PROVE  Phase' = Phase
BY DEF Phase, TypeOK

LEMMA AnswerStep ==
    ASSUME TypeOK, NEW p \in Proc, pc[p] \in Busy, NEW o \in UpToKey!Answers,
           UpToKey!GoodAnswer(req[p], start[p], o),
           Respond(p, o), UNCHANGED <<db, now, req, start>>
    PROVE  UpToKey!Answer(p)
<1>1. Phase' = [Phase EXCEPT ![p] = "done"]
  BY PhaseMoves DEF Respond, Busy
<1>2. Phase[p] = "busy"
  BY PhaseOf
<1>3. out' = [out EXCEPT ![p] = o]
  BY DEF Respond
<1> QED BY <1>1, <1>2, <1>3 DEF UpToKey!Answer

LEMMA OKIsAnswer ==
    ASSUME NEW c \in {"HIT", "MISS"}, NEW rows \in SUBSET RowPool
    PROVE  OK(c, rows) \in UpToKey!Answers
BY DEF OK, UpToKey!Answers

LEMMA NotFoundIsAnswer == \A r : NotFound(r) \in UpToKey!Answers
<1> TAKE r
<1>1. (IF r.kind = "id" THEN "READING_NOT_FOUND" ELSE "DEVICE_NOT_FOUND")
        \in {"OK", "READING_NOT_FOUND", "DEVICE_NOT_FOUND", "INTERNAL_ERROR"}
  OBVIOUS
<1> QED BY <1>1 DEF NotFound, Failed, UpToKey!Answers

-----------------------------------------------------------------------------
(* Every step of the program, seen from the promise.                        *)

LEMMA InitRefined == Init => UpToKey!Init
<1>1. Init => Phase = [p \in Proc |-> "idle"]
  BY DEF Init, Phase, Busy
<1> QED BY <1>1, SameWords DEF Init, UpToKey!Init

LEMMA StepRefined ==
    ASSUME IInv, [Next]_vars
    PROVE  [UpToKey!Next]_UpToKey!vars
<1>a. TypeOK
  BY DEF IInv
<1>1. ASSUME NEW p \in Proc, NEW r \in Requests, Receive(p, r)
      PROVE  UpToKey!Accept(p, r) \/ UpToKey!Reject(p, r)
  <2>1. Phase[p] = "idle"
    BY <1>1, <1>a, PhaseOf DEF Receive, Busy
  <2>2. CASE ~Valid(r) /\ Respond(p, Failed("INVALID_PARAMETER"))
    <3>1. Phase' = [Phase EXCEPT ![p] = "done"]
      BY <1>a, <2>2, PhaseMoves DEF Respond, Busy
    <3>2. r \notin ValidRequests
      BY <2>2 DEF ValidRequests
    <3>3. out' = [out EXCEPT ![p] = UpToKey!Failed("INVALID_PARAMETER")]
      BY <2>2, SameWords DEF Respond
    <3> QED BY <1>1, <2>1, <3>1, <3>2, <3>3 DEF Receive, env, UpToKey!Reject
  <2>3. CASE Valid(r) /\ Goto(p, IF enabled THEN "lookup" ELSE "query")
               /\ UNCHANGED <<out, got>>
    <3>1. Phase' = [Phase EXCEPT ![p] = "busy"]
      BY <1>a, <2>3, PhaseMoves DEF Goto, Busy
    <3>2. r \in ValidRequests
      BY <2>3 DEF ValidRequests
    <3> QED BY <1>1, <2>1, <2>3, <3>1, <3>2 DEF Receive, env, UpToKey!Accept
  <2> QED BY <1>1, <2>2, <2>3 DEF Receive
<1>2. ASSUME NEW p \in Proc, CacheHit(p) PROVE UpToKey!Answer(p)
  <2> DEFINE o == OK("HIT", redis[Key(req[p])].rows)
  <2>1. pc[p] \in Busy
    BY <1>2 DEF CacheHit, Busy
  <2>2. UpToKey!GoodAnswer(req[p], start[p], o)
    BY <1>2, HitIsGood DEF CacheHit, UpToKey!GoodAnswer
  <2>3. redis[Key(req[p])].rows \in SUBSET RowPool
    <3>1. Key(req[p]) \in Keys
      BY <1>a, KeyInKeys DEF TypeOK
    <3> QED BY <1>2, <1>a, <3>1 DEF CacheHit, Live, TypeOK, Entry
  <2>4. o \in UpToKey!Answers
    BY <2>3, OKIsAnswer
  <2>5. Respond(p, o) /\ UNCHANGED <<db, now, req, start>>
    BY <1>2 DEF CacheHit, env
  <2> HIDE DEF o
  <2> QED BY <1>a, <2>1, <2>2, <2>4, <2>5, AnswerStep
<1>3. ASSUME NEW p \in Proc, CacheMiss(p) \/ QueryRuns(p) PROVE UNCHANGED UpToKey!vars
  <2>1. pc[p] \in Busy /\ \E l \in Busy : pc' = [pc EXCEPT ![p] = l]
    BY <1>3 DEF CacheMiss, QueryRuns, Goto, Busy
  <2>2. Phase' = Phase
    BY <1>a, <2>1, PhaseStays
  <2> QED BY <1>3, <2>2 DEF CacheMiss, QueryRuns, env, UpToKey!vars
<1>4. ASSUME NEW p \in Proc, QueryReturns(p)
      PROVE  UpToKey!Answer(p) \/ UNCHANGED UpToKey!vars
  <2>1. pc[p] = "rows" /\ pc[p] \in Busy /\ UNCHANGED <<db, now, req, start>>
    BY <1>4 DEF QueryReturns, Busy, env
  <2>2. CASE got[p].rows = {} /\ Unfiltered(req[p]) /\ Respond(p, NotFound(req[p]))
    <3>1. UpToKey!GoodAnswer(req[p], start[p], NotFound(req[p]))
      BY <2>1, <2>2, NotFoundIsGood DEF UpToKey!GoodAnswer
    <3> QED BY <1>a, <2>1, <2>2, <3>1, NotFoundIsAnswer, AnswerStep
  <2>3. CASE /\ got[p].rows # {} \/ ~Unfiltered(req[p])
             /\ Respond(p, OK("MISS", got[p].rows))
    <3>1. UpToKey!GoodAnswer(req[p], start[p], OK("MISS", got[p].rows))
      BY <2>1, <2>3, MissIsGood DEF UpToKey!GoodAnswer
    <3>2. OK("MISS", got[p].rows) \in UpToKey!Answers
      BY <1>a, OKIsAnswer DEF TypeOK
    <3> QED BY <1>a, <2>1, <2>3, <3>1, <3>2, AnswerStep
  <2>4. CASE Goto(p, "store") /\ UNCHANGED <<out, got>>
    <3>1. Phase' = Phase
      BY <1>a, <2>1, <2>4, PhaseStays DEF Goto, Busy
    <3> QED BY <2>1, <2>4, <3>1 DEF UpToKey!vars
  <2> QED BY <1>4, <2>2, <2>3, <2>4 DEF QueryReturns
<1>5. ASSUME NEW p \in Proc, QueryFails(p) PROVE UpToKey!Answer(p)
  <2> DEFINE o == Failed("INTERNAL_ERROR")
  <2>1. o \in UpToKey!Answers
    BY DEF Failed, UpToKey!Answers
  <2>2. UpToKey!GoodAnswer(req[p], start[p], o)
    BY SameWords DEF UpToKey!GoodAnswer
  <2>3. pc[p] \in Busy /\ Respond(p, o) /\ UNCHANGED <<db, now, req, start>>
    BY <1>5 DEF QueryFails, Busy, env
  <2> HIDE DEF o
  <2> QED BY <1>a, <2>1, <2>2, <2>3, AnswerStep
<1>6. ASSUME NEW p \in Proc, SetDone(p) \/ SetFails(p) PROVE UpToKey!Answer(p)
  <2> DEFINE o == OK("MISS", got[p].rows)
  <2>1. /\ pc[p] = "store" /\ pc[p] \in Busy
        /\ Respond(p, o) /\ UNCHANGED <<db, now, req, start>>
    BY <1>6 DEF SetDone, SetFails, Busy, env
  <2>2. got[p].rows # {}
    BY <2>1 DEF IInv, HeldSound
  <2>3. UpToKey!GoodAnswer(req[p], start[p], o)
    BY <2>1, <2>2, MissIsGood DEF UpToKey!GoodAnswer
  <2>4. o \in UpToKey!Answers
    BY <1>a, OKIsAnswer DEF TypeOK
  <2> HIDE DEF o
  <2> QED BY <1>a, <2>1, <2>3, <2>4, AnswerStep
<1>7. ASSUME NEW p \in Proc, Collect(p) PROVE UpToKey!Collect(p)
  <2>1. Phase[p] = "done" /\ Phase' = [Phase EXCEPT ![p] = "idle"]
    BY <1>7, <1>a, PhaseOf, PhaseMoves DEF Collect, Busy
  <2> QED BY <1>7, <2>1, SameWords DEF Collect, env, UpToKey!Collect
<1>8. ASSUME NEW row \in RowPool, Commit(row) PROVE UpToKey!Commit(row)
  BY <1>8 DEF Commit, UpToKey!Commit, Phase
<1>9. ASSUME Tick PROVE UpToKey!Tick
  BY <1>9 DEF Tick, UpToKey!Tick, Phase
<1>10. ASSUME Restart PROVE UpToKey!Restart
  <2>1. Phase' = [p \in Proc |-> "idle"]
    BY <1>10 DEF Restart, Phase, Busy
  <2> QED BY <1>10, <2>1, SameWords DEF Restart, UpToKey!Restart
<1>11. ASSUME \/ \E w \in wire : Deliver(w) \/ Lose(w)
              \/ \E k \in Keys : Evict(k)
              \/ UNCHANGED vars
       PROVE  UNCHANGED UpToKey!vars
  BY <1>11 DEF Deliver, Lose, Evict, vars, env, UpToKey!vars, Phase
<1> QED
  BY <1>1, <1>2, <1>3, <1>4, <1>5, <1>6, <1>7, <1>8, <1>9, <1>10, <1>11
     DEF Next, Step, UpToKey!Next

(***************************************************************************)
(* For every set of requests, every answer is the exact result, on a state *)
(* of the table at most Bound old, of a request with the same Redis key:   *)
(* with REDIS_TTL=0 too, where Redis never expires an entry and Bound is   *)
(* the age of the table.                                                   *)
(***************************************************************************)
THEOREM RefinesUpToKey == Spec => KeptUpToKey
<1>1. IInv /\ [Next]_vars => [UpToKey!Next]_UpToKey!vars
  BY StepRefined
<1> QED BY <1>1, InitRefined, IInvInvariant, PTL DEF Spec, UpToKey!Spec, KeptUpToKey

(***************************************************************************)
(* When the clients only send requests that have different keys (whole     *)
(* seconds, `to` only with `from`, no reading type of digits only), each   *)
(* answer is the result of the very request it answers: the cache keeps    *)
(* the promise of the documents.                                           *)
(***************************************************************************)
THEOREM KeepsPromise ==
    ASSUME \A r \in Requests : (DeviceRequest(r) \/ IdRequest(r)) /\ Distinguishable(r)
    PROVE  Spec => PromiseKept
<1>1. Itself = SameKey
  <2>1. \A r, s \in Requests : Key(r) = Key(s) <=> r = s
    BY DistinctKeys
  <2> QED BY <2>1 DEF Itself, SameKey
<1>2. \A S : UpToKey!Cardinality(S) = Promise!Cardinality(S)
  BY DEF UpToKey!Cardinality, Promise!Cardinality
<1>3. \A k, rows : UpToKey!Newest(k, rows) = Promise!Newest(k, rows)
  BY <1>2 DEF UpToKey!Newest, Promise!Newest
<1>4. \A r, rows : UpToKey!Matching(r, rows) = Promise!Matching(r, rows)
  BY DEF UpToKey!Matching, Promise!Matching, UpToKey!Matches, Promise!Matches
<1>5. \A r, rows : UpToKey!Wanted(r, rows) = Promise!Wanted(r, rows)
  BY <1>3, <1>4 DEF UpToKey!Wanted, Promise!Wanted
<1>6. /\ \A log, n : UpToKey!Rows(log, n) = Promise!Rows(log, n)
      /\ \A log, n, t : UpToKey!CurrentSince(log, n, t) <=> Promise!CurrentSince(log, n, t)
      /\ \A r : UpToKey!Unfiltered(r) <=> Promise!Unfiltered(r)
      /\ \A c, rows : UpToKey!OK(c, rows) = Promise!OK(c, rows)
      /\ \A why : UpToKey!Failed(why) = Promise!Failed(why)
      /\ \A r : UpToKey!NotFound(r) = Promise!NotFound(r)
      /\ UpToKey!NoAnswer = Promise!NoAnswer
      /\ UpToKey!AnyRequest = Promise!AnyRequest
      /\ UpToKey!Answers = Promise!Answers
  BY DEF UpToKey!Rows, Promise!Rows, UpToKey!CurrentSince, Promise!CurrentSince,
         UpToKey!Unfiltered, Promise!Unfiltered, UpToKey!OK, Promise!OK,
         UpToKey!Failed, Promise!Failed, UpToKey!NotFound, Promise!NotFound,
         UpToKey!NoAnswer, Promise!NoAnswer, UpToKey!AnyRequest, Promise!AnyRequest,
         UpToKey!Answers, Promise!Answers
<1>7. ASSUME NEW r, NEW from, NEW o
      PROVE  UpToKey!GoodRows(r, from, o) <=> Promise!GoodRows(r, from, o)
  <2> DEFINE Witnesses(n, s) ==
               /\ <<s, r>> \in SameKey
               /\ o.rows \in UpToKey!Wanted(s, UpToKey!Rows(db, n))
               /\ UpToKey!CurrentSince(db, n, from - Bound)
               /\ o.cache = "MISS" => s = r /\ UpToKey!CurrentSince(db, n, from)
             Header == /\ o = UpToKey!OK(o.cache, o.rows)
                       /\ o.cache = "HIT" => o.rows # {}
                       /\ o.rows = {} => ~UpToKey!Unfiltered(r)
  <2>1. UpToKey!GoodRows(r, from, o)
          <=> Header /\ \E n \in 0..Len(db), s \in Requests : Witnesses(n, s)
    BY DEF UpToKey!GoodRows
  <2>2. Promise!GoodRows(r, from, o)
          <=> Header /\ \E n \in 0..Len(db), s \in Requests : Witnesses(n, s)
    BY <1>1, <1>5, <1>6 DEF Promise!GoodRows
  <2> HIDE DEF Witnesses, Header
  <2> QED BY <2>1, <2>2
<1>8. ASSUME NEW r, NEW from, NEW o
      PROVE  UpToKey!GoodNotFound(r, from, o) <=> Promise!GoodNotFound(r, from, o)
  BY <1>5, <1>6 DEF UpToKey!GoodNotFound, Promise!GoodNotFound
<1>9. \A r, from, o : UpToKey!GoodAnswer(r, from, o) <=> Promise!GoodAnswer(r, from, o)
  BY <1>6, <1>7, <1>8 DEF UpToKey!GoodAnswer, Promise!GoodAnswer
<1>10. UpToKey!Init => Promise!Init
  BY <1>6 DEF UpToKey!Init, Promise!Init
<1>11. ASSUME UpToKey!Next PROVE Promise!Next
  <2>1. \A row : UpToKey!Commit(row) => Promise!Commit(row)
    BY DEF UpToKey!Commit, Promise!Commit
  <2>2. UpToKey!Tick => Promise!Tick
    BY DEF UpToKey!Tick, Promise!Tick
  <2>3. \A p, r : /\ UpToKey!Accept(p, r) => Promise!Accept(p, r)
                  /\ UpToKey!Reject(p, r) => Promise!Reject(p, r)
    BY <1>6 DEF UpToKey!Accept, Promise!Accept, UpToKey!Reject, Promise!Reject
  <2>4. \A p : UpToKey!Answer(p) => Promise!Answer(p)
    BY <1>6, <1>9 DEF UpToKey!Answer, Promise!Answer
  <2>5. \A p : UpToKey!Collect(p) => Promise!Collect(p)
    BY <1>6 DEF UpToKey!Collect, Promise!Collect
  <2>6. UpToKey!Restart => Promise!Restart
    BY <1>6 DEF UpToKey!Restart, Promise!Restart
  <2> QED BY <1>11, <2>1, <2>2, <2>3, <2>4, <2>5, <2>6 DEF UpToKey!Next, Promise!Next
<1>12. UNCHANGED UpToKey!vars => UNCHANGED Promise!vars
  BY DEF UpToKey!vars, Promise!vars
<1>13. [UpToKey!Next]_UpToKey!vars => [Promise!Next]_Promise!vars
  BY <1>11, <1>12
<1>14. Spec => UpToKey!Spec
  BY RefinesUpToKey DEF KeptUpToKey
<1> QED BY <1>10, <1>13, <1>14, PTL DEF PromiseKept, UpToKey!Spec, Promise!Spec
=============================================================================
